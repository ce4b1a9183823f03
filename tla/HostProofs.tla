--------------------------- MODULE HostProofs ---------------------------
(***************************************************************************)
(* Proofs about the parts on the PC that stand beside the engine and its   *)
(* sessions: the SteamVR driver, the recorder, the companion app's view of *)
(* the status file, the scenarios that run many engines against many       *)
(* simulated headsets, and the settings with what validate() makes of      *)
(* them. Each part has its own inductive invariant; none of them shares a  *)
(* variable with another.                                                  *)
(***************************************************************************)
EXTENDS SteamVrDriver, Recording, StatusView, Scenario, Settings, SequenceTheorems, TLAPS

-----------------------------------------------------------------------------
(* SteamVR's calls and the callbacks of the driver's engine.               *)

\* Where Cleanup has dropped the engine, or Init has not made it.
WithoutEngine == {"off", "engine gone", "instance cleared"}

\* Who serves a headset is a task of an engine, and a callback holds a thread of
\* one; there is none while the server thread takes away what a callback uses.
CallbackInv ==
  /\ DOMAIN device = DriverDevices
  /\ stage \in WithoutEngine => engine = "none"
  /\ serving => engine # "none"
  /\ callback # "none" => engine # "none" /\ device["hmd"] # "none" /\ instance

LEMMA CallbackInit == DriverInit => CallbackInv
PROOF
<1> QED BY DEF DriverInit, CallbackInv, WithoutEngine

LEMMA CallbackStep == CallbackInv /\ [DriverNext]_driverVars => CallbackInv'
PROOF
<1> SUFFICES ASSUME CallbackInv, [DriverNext]_driverVars PROVE CallbackInv'
  OBVIOUS
<1> USE DEF CallbackInv, WithoutEngine
<1>1. CASE InitEngine
  BY <1>1 DEF InitEngine, At, callbackVars
<1>2. CASE AddDevices
  <2>1. device'["hmd"] = "added" /\ DOMAIN device' = DriverDevices
    BY <1>2 DEF AddDevices, DriverDevices
  <2> QED BY <1>2, <2>1 DEF AddDevices, At, callbackVars
<1>3. CASE SetInstance
  BY <1>3 DEF SetInstance, At, callbackVars
<1>4. CASE RegisterCallbacks
  BY <1>4 DEF RegisterCallbacks, At, callbackVars
<1>5. CASE StopEngine
  BY <1>5 DEF StopEngine, At, callbackVars
<1>6. CASE EngineGone
  BY <1>6 DEF EngineGone, At, callbackVars
<1>7. CASE ClearInstance
  BY <1>7 DEF ClearInstance, At, callbackVars
<1>8. CASE DestroyDevices
  BY <1>8 DEF DestroyDevices, At, callbackVars
<1>9. CASE \E d \in DriverDevices : Activate(d)
  <2>1. PICK d \in DriverDevices : Activate(d)
    BY <1>9
  <2>2. device["hmd"] # "none" => device'["hmd"] # "none"
    BY <2>1 DEF Activate, DriverDevices
  <2>3. DOMAIN device' = DriverDevices
    BY <2>1 DEF Activate
  <2>4. UNCHANGED <<stage, instance, callback, engine, serving>>
    BY <2>1 DEF Activate, callbackVars
  <2> QED BY <2>2, <2>3, <2>4
<1>10. CASE HeadsetConnects \/ HeadsetLeaves \/ HeadPose
  BY <1>10 DEF HeadsetConnects, HeadsetLeaves, HeadPose, Moves, initVars, callbackVars
<1>11. CASE \E c \in Controllers : ControllerQuiet(c) \/ RunController(c)
  <2>1. PICK c \in Controllers : ControllerQuiet(c) \/ RunController(c)
    BY <1>11
  <2>2. UNCHANGED <<initVars, callbackVars, engine, serving>>
    BY <2>1 DEF ControllerQuiet, RunController
  <2> QED BY <2>2 DEF initVars, callbackVars
<1>12. CASE \E c \in Controllers, state \in {"held", "idle"} : ControllerState(c, state)
  <2>1. UNCHANGED <<initVars, callbackVars, engine, serving>>
    BY <1>12 DEF ControllerState
  <2> QED BY <2>1 DEF initVars, callbackVars
<1>13. CASE (\E v \in Views : CallBack("view", v)) \/ CallBack("other", NoView)
  <2>1. PICK kind \in {"view", "other"}, v \in Views \cup {NoView} : CallBack(kind, v)
    BY <1>13
  <2>2. serving /\ UNCHANGED <<initVars, engine, serving>>
    BY <2>1 DEF CallBack
  <2>3. callback' = callback \/ (instance /\ device["hmd"] # "none")
    BY <2>1 DEF CallBack, callbackVars
  <2> QED BY <2>2, <2>3 DEF initVars
<1>14. CASE CallbackReturns
  BY <1>14 DEF CallbackReturns, initVars
<1>15. CASE RunHmd \/ UNCHANGED driverVars
  <2>1. UNCHANGED <<initVars, callbackVars, engine, serving>>
    BY <1>15 DEF RunHmd, driverVars
  <2> QED BY <2>1 DEF initVars, callbackVars
<1> QED
  BY <1>1, <1>2, <1>3, <1>4, <1>5, <1>6, <1>7, <1>8, <1>9, <1>10, <1>11, <1>12, <1>13, <1>14, <1>15 DEF DriverNext

\* Whatever the order of Init, Cleanup and the engine's tasks, a callback under
\* way has its HMD and the instance it came through: fvp_shutdown() returns after
\* the last of them and before the devices go (server_driver.cpp Cleanup()).
THEOREM CallbacksAlwaysFindDevice == DriverSpec => []CallbacksFindDevice
PROOF
<1>1. CallbackInv => CallbacksFindDevice
  BY DEF CallbackInv, CallbacksFindDevice
<1> QED BY <1>1, CallbackInit, CallbackStep, PTL DEF DriverSpec

-----------------------------------------------------------------------------
(* The recorder: its sessions, its video file and its audio files.         *)

WavFiles == [of : Nat, pcm : Nat, riff : Nat, data : Nat, old : BOOLEAN]

WavRecorders ==
  [name : Nat, buffered : Nat, counted : Nat, patched : Nat, poisoned : BOOLEAN, todo : Nat,
   pc : {"idle", "flush", "riff", "data", "drop"}, closing : BOOLEAN]

WavsTyped == opened \in Nat /\ wavs \in [DOMAIN wavs -> WavFiles] /\ (audio # <<>> => audio \in WavRecorders)

\* Every recording has one file, and those to come none yet.
WavsApart ==
  /\ made = {wavs[n].of : n \in DOMAIN wavs}
  /\ \A n \in DOMAIN wavs : wavs[n].of <= opened
  /\ \A m, n \in DOMAIN wavs : wavs[m].of = wavs[n].of => m = n

\* What the recorder counted is on disk or in its buffer, also after a write failed; the sizes
\* are patched when the buffer is empty, and the RIFF's before the data's.
CountedIsKept ==
  audio # <<>> =>
    /\ audio.name \in DOMAIN wavs
    /\ wavs[audio.name].pcm + audio.buffered = audio.counted
    /\ wavs[audio.name].data = audio.patched
    /\ audio.pc \in {"riff", "data"} => audio.buffered = 0
    /\ audio.pc = "data" => wavs[audio.name].riff = audio.counted
    /\ Idle /\ ~audio.poisoned => audio.counted - audio.patched < Second

\* The frames written so far, on disk and in the buffer.
Written == IF video = <<>> THEN track ELSE track \o video.buffer

Pieces == {"frame", "torn"}

VideoTyped ==
  /\ track \in Seq(Pieces)
  /\ video # <<>> => video \in [buffer : Seq(Pieces), frames : Nat, poisoned : BOOLEAN]

WholeUpTo(s, n) == \A i \in 1 .. n : s[i] = "frame"

\* Only an error tears a frame, and after it nothing is written.
TornAtTheEnd ==
  /\ WholeUpTo(Written, Len(Written) - 1)
  /\ video # <<>> /\ ~video.poisoned => WholeUpTo(Written, Len(Written))

RecordingInv == WavsTyped /\ WavsApart /\ HeaderCovers /\ CountedIsKept /\ VideoTyped /\ TornAtTheEnd

LEMMA FilesKept ==
  ASSUME WavsApart, DOMAIN wavs' = DOMAIN wavs, \A n \in DOMAIN wavs : wavs'[n].of = wavs[n].of,
         made' = made, opened' = opened
  PROVE  WavsApart'
PROOF
<1>1. {wavs'[n].of : n \in DOMAIN wavs'} = {wavs[n].of : n \in DOMAIN wavs}
  OBVIOUS
<1> QED BY <1>1 DEF WavsApart

\* Sound that reaches the disk only makes its file longer.
LEMMA DiskGrows ==
  ASSUME WavsTyped, HeaderCovers, audio # <<>>, audio.name \in DOMAIN wavs, NEW blocks \in Nat, ToDisk(blocks)
  PROVE  /\ DOMAIN wavs' = DOMAIN wavs /\ wavs' \in [DOMAIN wavs -> WavFiles]
         /\ \A n \in DOMAIN wavs : wavs'[n].of = wavs[n].of
         /\ \A n \in DOMAIN wavs : wavs'[n].riff = wavs[n].riff /\ wavs'[n].data = wavs[n].data
         /\ wavs'[audio.name].pcm = wavs[audio.name].pcm + blocks
         /\ HeaderCovers'
PROOF
<1>1. wavs' = [wavs EXCEPT ![audio.name].pcm = wavs[audio.name].pcm + blocks]
  BY DEF ToDisk
<1>2. wavs[audio.name] \in WavFiles
  BY DEF WavsTyped
<1>3. [wavs[audio.name] EXCEPT !.pcm = wavs[audio.name].pcm + blocks] \in WavFiles
  BY <1>2 DEF WavFiles
<1>4. /\ DOMAIN wavs' = DOMAIN wavs /\ wavs' \in [DOMAIN wavs -> WavFiles]
      /\ wavs'[audio.name] = [wavs[audio.name] EXCEPT !.pcm = wavs[audio.name].pcm + blocks]
      /\ \A n \in DOMAIN wavs : n # audio.name => wavs'[n] = wavs[n]
  BY <1>1, <1>3 DEF WavsTyped
<1>5. /\ wavs'[audio.name].of = wavs[audio.name].of /\ wavs'[audio.name].riff = wavs[audio.name].riff
      /\ wavs'[audio.name].data = wavs[audio.name].data
      /\ wavs'[audio.name].pcm = wavs[audio.name].pcm + blocks
  BY <1>2, <1>4 DEF WavFiles
<1>6. \A n \in DOMAIN wavs : wavs[n].pcm \in Nat /\ wavs[n].riff \in Nat
  BY DEF WavsTyped, WavFiles
<1>7. HeaderCovers'
  <2> SUFFICES ASSUME NEW n \in DOMAIN wavs PROVE wavs'[n].data <= wavs'[n].riff /\ wavs'[n].riff <= wavs'[n].pcm
    BY <1>4 DEF HeaderCovers
  <2>1. CASE n = audio.name
    BY <1>5, <1>6, <2>1 DEF HeaderCovers
  <2>2. CASE n # audio.name
    BY <1>4, <2>2 DEF HeaderCovers
  <2> QED BY <2>1, <2>2
<1> QED BY <1>4, <1>5, <1>7

\* A size that is patched into the header says no more than what is in the file.
LEMMA SizePatched ==
  ASSUME WavsTyped, HeaderCovers, audio # <<>>, audio.name \in DOMAIN wavs,
         NEW riff \in Nat, NEW data \in Nat, data <= riff, riff <= wavs[audio.name].pcm,
         wavs' = [wavs EXCEPT ![audio.name] = [@ EXCEPT !.riff = riff, !.data = data]]
  PROVE  /\ DOMAIN wavs' = DOMAIN wavs /\ wavs' \in [DOMAIN wavs -> WavFiles]
         /\ \A n \in DOMAIN wavs : wavs'[n].of = wavs[n].of
         /\ wavs'[audio.name].pcm = wavs[audio.name].pcm
         /\ wavs'[audio.name].riff = riff /\ wavs'[audio.name].data = data
         /\ HeaderCovers'
PROOF
<1>1. wavs[audio.name] \in WavFiles
  BY DEF WavsTyped
<1>2. [wavs[audio.name] EXCEPT !.riff = riff, !.data = data] \in WavFiles
  BY <1>1 DEF WavFiles
<1>3. /\ DOMAIN wavs' = DOMAIN wavs /\ wavs' \in [DOMAIN wavs -> WavFiles]
      /\ wavs'[audio.name] = [wavs[audio.name] EXCEPT !.riff = riff, !.data = data]
      /\ \A n \in DOMAIN wavs : n # audio.name => wavs'[n] = wavs[n]
  BY <1>2 DEF WavsTyped
<1>4. /\ wavs'[audio.name].of = wavs[audio.name].of /\ wavs'[audio.name].pcm = wavs[audio.name].pcm
      /\ wavs'[audio.name].riff = riff /\ wavs'[audio.name].data = data
  BY <1>1, <1>3 DEF WavFiles
<1>5. HeaderCovers'
  BY <1>3, <1>4 DEF HeaderCovers
<1> QED BY <1>3, <1>4, <1>5

LEMMA VideoLeft == ASSUME VideoTyped, TornAtTheEnd, UNCHANGED videoVars PROVE VideoTyped' /\ TornAtTheEnd'
PROOF BY DEF VideoTyped, TornAtTheEnd, Written, videoVars

LEMMA SoundLeft ==
  ASSUME WavsTyped, WavsApart, HeaderCovers, CountedIsKept, UNCHANGED audioVars
  PROVE  WavsTyped' /\ WavsApart' /\ HeaderCovers' /\ CountedIsKept'
PROOF
<1>1. wavs' = wavs /\ made' = made /\ opened' = opened /\ audio' = audio
  BY DEF audioVars
<1> QED BY <1>1 DEF WavsTyped, WavsApart, HeaderCovers, CountedIsKept, Idle, AudioAt

-----------------------------------------------------------------------------
LEMMA OpenWavStep == ASSUME RecordingInv, OpenWav PROVE RecordingInv'
PROOF
<1>1. PICK n \in 1 .. MaxNames :
        /\ n \notin DOMAIN wavs
        /\ wavs' = [k \in DOMAIN wavs \cup {n} |->
                      IF k = n THEN [of |-> opened + 1, pcm |-> 0, riff |-> 0, data |-> 0, old |-> FALSE] ELSE wavs[k]]
        /\ audio' = [name |-> n, buffered |-> 0, counted |-> 0, patched |-> 0, poisoned |-> FALSE,
                     todo |-> 0, pc |-> "idle", closing |-> FALSE]
  BY DEF OpenWav, FreeName
<1>2. opened' = opened + 1 /\ made' = made \cup {opened + 1} /\ opened \in Nat /\ UNCHANGED videoVars
  BY DEF OpenWav, RecordingInv, WavsTyped
<1>3. [of |-> opened + 1, pcm |-> 0, riff |-> 0, data |-> 0, old |-> FALSE] \in WavFiles
  BY <1>2 DEF WavFiles
<1>4. /\ DOMAIN wavs' = DOMAIN wavs \cup {n}
      /\ wavs'[n] = [of |-> opened + 1, pcm |-> 0, riff |-> 0, data |-> 0, old |-> FALSE]
      /\ \A k \in DOMAIN wavs : wavs'[k] = wavs[k]
  BY <1>1
<1>5. \A k \in DOMAIN wavs : wavs[k] \in WavFiles /\ wavs[k].of \in Nat
  BY DEF RecordingInv, WavsTyped, WavFiles
<1>6. WavsTyped'
  <2>1. wavs' \in [DOMAIN wavs' -> WavFiles]
    BY <1>1, <1>3, <1>4, <1>5
  <2>2. audio' \in WavRecorders
    BY <1>1 DEF WavRecorders
  <2> QED BY <1>2, <2>1, <2>2 DEF WavsTyped
<1>7. WavsApart'
  <2>1. wavs'[n].of = opened + 1
    BY <1>4
  <2>2. {wavs'[k].of : k \in DOMAIN wavs'} = {wavs[k].of : k \in DOMAIN wavs} \cup {opened + 1}
    BY <1>4, <2>1
  <2>3. \A k \in DOMAIN wavs : wavs[k].of <= opened
    BY DEF RecordingInv, WavsApart
  <2> QED BY <1>2, <1>4, <1>5, <2>1, <2>2, <2>3 DEF RecordingInv, WavsApart
<1>8. HeaderCovers'
  BY <1>4 DEF RecordingInv, HeaderCovers
<1>9. CountedIsKept'
  <2>1. /\ wavs'[audio'.name].pcm = 0 /\ wavs'[audio'.name].data = 0 /\ audio'.name \in DOMAIN wavs'
        /\ audio'.buffered = 0 /\ audio'.counted = 0 /\ audio'.patched = 0 /\ audio'.pc = "idle"
    BY <1>1, <1>4
  <2> QED BY <2>1, RecordingAssumption DEF CountedIsKept
<1> QED BY <1>2, <1>6, <1>7, <1>8, <1>9, VideoLeft DEF RecordingInv

LEMMA RecorderFacts ==
  ASSUME RecordingInv, audio # <<>>
  PROVE  /\ audio \in WavRecorders /\ audio.name \in DOMAIN wavs /\ wavs[audio.name] \in WavFiles
         /\ audio.buffered \in Nat /\ audio.counted \in Nat /\ audio.patched \in Nat /\ audio.todo \in Nat
         /\ audio.poisoned \in BOOLEAN
         /\ wavs[audio.name].pcm \in Nat /\ wavs[audio.name].riff \in Nat /\ wavs[audio.name].data \in Nat
         /\ wavs[audio.name].pcm + audio.buffered = audio.counted /\ wavs[audio.name].data = audio.patched
         /\ wavs[audio.name].data <= wavs[audio.name].riff /\ wavs[audio.name].riff <= wavs[audio.name].pcm
PROOF
<1>1. audio \in WavRecorders /\ audio.name \in DOMAIN wavs /\ wavs[audio.name] \in WavFiles
  BY DEF RecordingInv, WavsTyped, CountedIsKept
<1> QED BY <1>1 DEF RecordingInv, HeaderCovers, CountedIsKept, WavRecorders, WavFiles

\* What a step of the WAV writer owes to the invariant.
LEMMA RecorderStep ==
  ASSUME RecordingInv, audio # <<>>, SoundOnly, NEW a \in WavRecorders, audio' = a, a.name = audio.name,
         DOMAIN wavs' = DOMAIN wavs, wavs' \in [DOMAIN wavs -> WavFiles], HeaderCovers',
         \A n \in DOMAIN wavs : wavs'[n].of = wavs[n].of,
         wavs'[a.name].pcm + a.buffered = a.counted, wavs'[a.name].data = a.patched,
         a.pc \in {"riff", "data"} => a.buffered = 0,
         a.pc = "data" => wavs'[a.name].riff = a.counted,
         a.pc = "idle" /\ a.todo = 0 /\ ~a.poisoned => a.counted - a.patched < Second
  PROVE  RecordingInv'
PROOF
<1>1. opened' = opened /\ made' = made /\ UNCHANGED videoVars
  BY DEF SoundOnly
<1>2. WavsTyped'
  BY <1>1 DEF RecordingInv, WavsTyped
<1>3. WavsApart'
  BY <1>1, FilesKept DEF RecordingInv
<1>4. CountedIsKept'
  BY RecorderFacts DEF CountedIsKept, Idle, AudioAt
<1> QED BY <1>1, <1>2, <1>3, <1>4, VideoLeft DEF RecordingInv

\* Steps of the recorder that leave the disk alone.
LEMMA DiskLeft ==
  ASSUME RecordingInv, audio # <<>>, UNCHANGED wavs
  PROVE  /\ DOMAIN wavs' = DOMAIN wavs /\ wavs' \in [DOMAIN wavs -> WavFiles] /\ HeaderCovers'
         /\ \A n \in DOMAIN wavs : wavs'[n].of = wavs[n].of
PROOF BY DEF RecordingInv, WavsTyped, HeaderCovers

LEMMA WritePcmStep == ASSUME RecordingInv, NEW blocks \in 1 .. CallBlocks, WritePcm(blocks) PROVE RecordingInv'
PROOF
<1> DEFINE a == [audio EXCEPT !.todo = blocks]
<1>1. audio # <<>> /\ SoundOnly /\ audio' = a /\ wavs' = wavs /\ audio.pc = "idle"
  BY DEF WritePcm, Idle, AudioAt
<1>2. blocks \in Nat /\ blocks # 0
  BY RecordingAssumption
<1>3. audio \in WavRecorders
  BY <1>1, RecorderFacts
<1>4. a \in WavRecorders /\ a.name = audio.name /\ a.buffered = audio.buffered /\ a.counted = audio.counted
      /\ a.patched = audio.patched /\ a.pc = "idle" /\ a.todo # 0
  BY <1>1, <1>2, <1>3 DEF WavRecorders
<1> HIDE DEF a
<1> QED BY <1>1, <1>4, RecorderFacts, DiskLeft, RecorderStep

LEMMA SizeLimitStep == ASSUME RecordingInv, SizeLimit \/ CloseWav PROVE RecordingInv'
PROOF
<1>1. PICK todo \in Nat : /\ audio' = [audio EXCEPT !.todo = todo, !.closing = TRUE, !.pc = "flush"]
                         /\ audio # <<>> /\ SoundOnly /\ wavs' = wavs
  <2>1. CASE SizeLimit
    BY <2>1 DEF SizeLimit, AudioAt
  <2>2. CASE CloseWav
    <3>1. audio # <<>> /\ audio \in WavRecorders
      BY <2>2, RecorderFacts DEF CloseWav, Idle, AudioAt
    <3>2. [audio EXCEPT !.closing = TRUE, !.pc = "flush"] = [audio EXCEPT !.todo = audio.todo, !.closing = TRUE, !.pc = "flush"]
      BY <3>1 DEF WavRecorders
    <3>3. audio.todo \in Nat
      BY <3>1 DEF WavRecorders
    <3> QED BY <2>2, <3>1, <3>2, <3>3 DEF CloseWav
  <2> QED BY <2>1, <2>2
<1> DEFINE a == [audio EXCEPT !.todo = todo, !.closing = TRUE, !.pc = "flush"]
<1>2. a \in WavRecorders /\ a.name = audio.name /\ a.buffered = audio.buffered /\ a.counted = audio.counted
      /\ a.patched = audio.patched /\ a.pc = "flush"
  BY <1>1, RecorderFacts DEF WavRecorders
<1>3. audio' = a
  BY <1>1
<1> HIDE DEF a
<1> QED BY <1>1, <1>2, <1>3, RecorderFacts, DiskLeft, RecorderStep

LEMMA PatchFailsStep ==
  ASSUME RecordingInv, audio # <<>>, SoundOnly, NEW blocks \in 0 .. audio.buffered, PatchFails(blocks)
  PROVE  RecordingInv'
PROOF
<1> DEFINE b == [audio EXCEPT !.poisoned = TRUE, !.buffered = audio.buffered - blocks]
           a == Patched(b)
<1>1. audio' = a /\ ToDisk(blocks)
  BY DEF PatchFails
<1>2. audio \in WavRecorders /\ blocks \in Nat /\ audio.buffered - blocks \in Nat
  BY RecorderFacts
<1>3. b \in WavRecorders /\ b.name = audio.name /\ b.buffered = audio.buffered - blocks
      /\ b.counted = audio.counted /\ b.patched = audio.patched /\ b.poisoned = TRUE
  BY <1>2 DEF WavRecorders
<1> HIDE DEF b
<1>4. a \in WavRecorders /\ a.name = audio.name /\ a.buffered = audio.buffered - blocks
      /\ a.counted = audio.counted /\ a.patched = audio.patched /\ a.poisoned = TRUE /\ a.pc \in {"idle", "drop"}
  BY <1>3 DEF WavRecorders, Patched
<1> HIDE DEF a
<1>5. /\ DOMAIN wavs' = DOMAIN wavs /\ wavs' \in [DOMAIN wavs -> WavFiles] /\ HeaderCovers'
      /\ \A n \in DOMAIN wavs : wavs'[n].of = wavs[n].of
      /\ wavs'[audio.name].pcm = wavs[audio.name].pcm + blocks
      /\ wavs'[audio.name].data = wavs[audio.name].data
  BY <1>1, <1>2, RecorderFacts, DiskGrows DEF RecordingInv
<1>6. wavs'[a.name].pcm + a.buffered = a.counted /\ wavs'[a.name].data = a.patched
  BY <1>2, <1>4, <1>5, RecorderFacts
<1> QED BY <1>1, <1>4, <1>5, <1>6, RecorderStep

LEMMA FlushStep == ASSUME RecordingInv, Flush PROVE RecordingInv'
PROOF
<1>1. audio # <<>> /\ SoundOnly /\ audio \in WavRecorders /\ audio.buffered \in Nat
  BY RecorderFacts DEF Flush, AudioAt
<1>2. ASSUME NEW part \in 0 .. audio.buffered, PatchFails(part) PROVE RecordingInv'
  BY <1>1, <1>2, PatchFailsStep
<1>3. ASSUME audio' = [audio EXCEPT !.pc = "riff", !.buffered = 0], ToDisk(audio.buffered) PROVE RecordingInv'
  <2> DEFINE a == [audio EXCEPT !.pc = "riff", !.buffered = 0]
  <2>1. a \in WavRecorders /\ a.name = audio.name /\ a.buffered = 0 /\ a.pc = "riff"
        /\ a.counted = audio.counted /\ a.patched = audio.patched /\ audio' = a
    BY <1>1, <1>3 DEF WavRecorders
  <2> HIDE DEF a
  <2>2. /\ DOMAIN wavs' = DOMAIN wavs /\ wavs' \in [DOMAIN wavs -> WavFiles] /\ HeaderCovers'
        /\ \A n \in DOMAIN wavs : wavs'[n].of = wavs[n].of
        /\ wavs'[audio.name].pcm = wavs[audio.name].pcm + audio.buffered
        /\ wavs'[audio.name].data = wavs[audio.name].data
    BY <1>1, <1>3, RecorderFacts, DiskGrows DEF RecordingInv
  <2>3. wavs'[a.name].pcm + a.buffered = a.counted /\ wavs'[a.name].data = a.patched
    BY <1>1, <2>1, <2>2, RecorderFacts
  <2> QED BY <1>1, <2>1, <2>2, <2>3, RecorderStep
<1> QED BY <1>2, <1>3 DEF Flush

LEMMA WriteRiffSizeStep == ASSUME RecordingInv, WriteRiffSize PROVE RecordingInv'
PROOF
<1>1. audio # <<>> /\ SoundOnly /\ audio \in WavRecorders /\ audio.pc = "riff"
  BY RecorderFacts DEF WriteRiffSize, AudioAt
<1>2. audio.buffered = 0 /\ wavs[audio.name].pcm = audio.counted /\ audio.counted \in Nat
  BY <1>1, RecorderFacts DEF RecordingInv, CountedIsKept
<1>3. CASE PatchFails(0)
  BY <1>1, <1>2, <1>3, PatchFailsStep
<1>4. CASE audio' = [audio EXCEPT !.pc = "data"] /\ wavs' = [wavs EXCEPT ![audio.name].riff = audio.counted]
  <2> DEFINE a == [audio EXCEPT !.pc = "data"]
  <2>1. a \in WavRecorders /\ a.name = audio.name /\ a.buffered = 0 /\ a.pc = "data"
        /\ a.counted = audio.counted /\ a.patched = audio.patched /\ audio' = a
    BY <1>1, <1>2, <1>4 DEF WavRecorders
  <2> HIDE DEF a
  <2>2. [wavs[audio.name] EXCEPT !.riff = audio.counted, !.data = wavs[audio.name].data]
          = [wavs[audio.name] EXCEPT !.riff = audio.counted]
    BY <1>1, RecorderFacts DEF WavFiles
  <2>3. wavs' = [wavs EXCEPT ![audio.name] = [@ EXCEPT !.riff = audio.counted, !.data = wavs[audio.name].data]]
    BY <1>4, <2>2
  <2>4. wavs[audio.name].data \in Nat /\ wavs[audio.name].data <= audio.counted /\ audio.counted <= wavs[audio.name].pcm
    BY <1>1, <1>2, RecorderFacts
  <2>5. /\ DOMAIN wavs' = DOMAIN wavs /\ wavs' \in [DOMAIN wavs -> WavFiles] /\ HeaderCovers'
        /\ \A n \in DOMAIN wavs : wavs'[n].of = wavs[n].of
        /\ wavs'[audio.name].pcm = wavs[audio.name].pcm
        /\ wavs'[audio.name].riff = audio.counted /\ wavs'[audio.name].data = wavs[audio.name].data
    BY <1>1, <1>2, <2>3, <2>4, RecorderFacts, SizePatched DEF RecordingInv
  <2>6. wavs'[a.name].pcm + a.buffered = a.counted /\ wavs'[a.name].data = a.patched /\ wavs'[a.name].riff = a.counted
    BY <1>1, <1>2, <2>1, <2>5, RecorderFacts
  <2> QED BY <1>1, <2>1, <2>5, <2>6, RecorderStep
<1> QED BY <1>3, <1>4 DEF WriteRiffSize

LEMMA WriteDataSizeStep == ASSUME RecordingInv, WriteDataSize PROVE RecordingInv'
PROOF
<1>1. audio # <<>> /\ SoundOnly /\ audio \in WavRecorders /\ audio.pc = "data"
  BY RecorderFacts DEF WriteDataSize, AudioAt
<1>2. audio.buffered = 0 /\ wavs[audio.name].pcm = audio.counted /\ audio.counted \in Nat
      /\ wavs[audio.name].riff = audio.counted
  BY <1>1, RecorderFacts DEF RecordingInv, CountedIsKept
<1>3. CASE PatchFails(0)
  BY <1>1, <1>2, <1>3, PatchFailsStep
<1>4. CASE /\ audio' = Patched([audio EXCEPT !.patched = audio.counted])
           /\ wavs' = [wavs EXCEPT ![audio.name].data = audio.counted]
  <2> DEFINE b == [audio EXCEPT !.patched = audio.counted]
             a == Patched(b)
  <2>1. b \in WavRecorders /\ b.name = audio.name /\ b.buffered = 0
        /\ b.counted = audio.counted /\ b.patched = audio.counted
    BY <1>1, <1>2 DEF WavRecorders
  <2>2. audio' = a
    BY <1>4
  <2> HIDE DEF b
  <2>3. a \in WavRecorders /\ a.name = audio.name /\ a.buffered = 0 /\ a.pc \in {"idle", "drop"}
        /\ a.counted = audio.counted /\ a.patched = audio.counted
    BY <2>1 DEF WavRecorders, Patched
  <2> HIDE DEF a
  <2>4. [wavs[audio.name] EXCEPT !.riff = audio.counted, !.data = audio.counted]
          = [wavs[audio.name] EXCEPT !.data = audio.counted]
    BY <1>1, <1>2, RecorderFacts DEF WavFiles
  <2>5. wavs' = [wavs EXCEPT ![audio.name] = [@ EXCEPT !.riff = audio.counted, !.data = audio.counted]]
    BY <1>4, <2>4
  <2>6. /\ DOMAIN wavs' = DOMAIN wavs /\ wavs' \in [DOMAIN wavs -> WavFiles] /\ HeaderCovers'
        /\ \A n \in DOMAIN wavs : wavs'[n].of = wavs[n].of
        /\ wavs'[audio.name].pcm = wavs[audio.name].pcm /\ wavs'[audio.name].data = audio.counted
    BY <1>1, <1>2, <2>5, RecorderFacts, SizePatched DEF RecordingInv
  <2>7. /\ wavs'[a.name].pcm + a.buffered = a.counted /\ wavs'[a.name].data = a.patched
        /\ a.counted - a.patched < Second
    BY <1>1, <1>2, <2>3, <2>6, RecordingAssumption
  <2> QED BY <1>1, <2>2, <2>3, <2>6, <2>7, RecorderStep
<1> QED BY <1>3, <1>4 DEF WriteDataSize

LEMMA DropWriterStep == ASSUME RecordingInv, DropWriter PROVE RecordingInv'
PROOF
<1>1. audio # <<>> /\ SoundOnly /\ audio.buffered \in Nat
  BY RecorderFacts DEF DropWriter, AudioAt
<1>2. PICK part \in 0 .. audio.buffered : ToDisk(part)
  BY DEF DropWriter
<1>3. /\ DOMAIN wavs' = DOMAIN wavs /\ wavs' \in [DOMAIN wavs -> WavFiles] /\ HeaderCovers'
      /\ \A n \in DOMAIN wavs : wavs'[n].of = wavs[n].of
  BY <1>1, <1>2, RecorderFacts, DiskGrows DEF RecordingInv
<1>4. opened' = opened /\ made' = made /\ UNCHANGED videoVars /\ audio' = <<>>
  BY <1>1 DEF SoundOnly, DropWriter
<1>5. WavsTyped' /\ CountedIsKept'
  BY <1>3, <1>4 DEF RecordingInv, WavsTyped, CountedIsKept
<1> QED BY <1>3, <1>4, <1>5, FilesKept, VideoLeft DEF RecordingInv

LEMMA WriteBlockStep == ASSUME RecordingInv, WriteBlock PROVE RecordingInv'
PROOF
<1>1. audio # <<>> /\ SoundOnly /\ audio.pc = "idle" /\ audio.todo > 0
  BY DEF WriteBlock, AudioAt
<1>2. audio \in WavRecorders /\ audio.buffered \in Nat /\ audio.counted \in Nat /\ audio.todo - 1 \in Nat
  BY <1>1, RecorderFacts
\* A counted block: buffered after what was, or alone when the buffer had to go to disk.
<1>3. ASSUME NEW old \in Nat, NEW new \in Nat, old + new = audio.buffered + 1, ToDisk(old) \/ (old = 0 /\ UNCHANGED wavs),
             audio' = Counted([audio EXCEPT !.buffered = new, !.counted = audio.counted + 1, !.todo = audio.todo - 1])
      PROVE  RecordingInv'
  <2> DEFINE b == [audio EXCEPT !.buffered = new, !.counted = audio.counted + 1, !.todo = audio.todo - 1]
             a == Counted(b)
  <2>1. b \in WavRecorders /\ b.name = audio.name /\ b.buffered = new
        /\ b.counted = audio.counted + 1 /\ b.patched = audio.patched
    <3>1. audio.counted + 1 \in Nat
      BY <1>2
    <3> QED BY <1>2, <3>1 DEF WavRecorders
  <2>2. audio' = a
    BY <1>3
  <2> HIDE DEF b
  <2>3. a \in WavRecorders /\ a.name = audio.name /\ a.buffered = new /\ a.counted = audio.counted + 1
        /\ a.patched = audio.patched /\ a.pc \in {"idle", "flush"} /\ a.todo = b.todo
    <3>1. CASE b.todo = 0 /\ b.counted - b.patched >= Second
      <4>1. a = [b EXCEPT !.pc = "flush"]
        BY <3>1 DEF Counted
      <4> QED BY <2>1, <4>1 DEF WavRecorders
    <3>2. CASE ~(b.todo = 0 /\ b.counted - b.patched >= Second)
      <4>1. a = [b EXCEPT !.pc = "idle"]
        BY <3>2 DEF Counted
      <4> QED BY <2>1, <4>1 DEF WavRecorders
    <3> QED BY <3>1, <3>2
  <2>4. a.pc = "idle" /\ a.todo = 0 => a.counted - a.patched < Second
    <3>1. b.counted \in Nat /\ b.patched \in Nat /\ Second \in Nat
      BY <2>1, RecordingAssumption DEF WavRecorders
    <3>2. a.pc = IF b.todo = 0 /\ b.counted - b.patched >= Second THEN "flush" ELSE "idle"
      BY <2>1 DEF Counted, WavRecorders
    <3> QED BY <2>1, <2>3, <3>1, <3>2
  <2> HIDE DEF a
  <2>5. /\ DOMAIN wavs' = DOMAIN wavs /\ wavs' \in [DOMAIN wavs -> WavFiles] /\ HeaderCovers'
        /\ \A n \in DOMAIN wavs : wavs'[n].of = wavs[n].of
        /\ wavs'[audio.name].pcm = wavs[audio.name].pcm + old
        /\ wavs'[audio.name].data = wavs[audio.name].data
    <3>1. CASE ToDisk(old)
      BY <1>1, <3>1, RecorderFacts, DiskGrows DEF RecordingInv
    <3>2. CASE old = 0 /\ UNCHANGED wavs
      BY <1>1, <3>2, RecorderFacts, DiskLeft
    <3> QED BY <1>3, <3>1, <3>2
  <2>6. wavs'[a.name].pcm + a.buffered = a.counted /\ wavs'[a.name].data = a.patched
    <3>1. wavs[audio.name].pcm \in Nat /\ wavs[audio.name].pcm + audio.buffered = audio.counted
      BY <1>1, RecorderFacts
    <3>2. wavs'[a.name].pcm + a.buffered = a.counted
      BY <1>2, <1>3, <2>3, <2>5, <3>1
    <3> QED BY <1>1, <2>3, <2>5, <3>2, RecorderFacts
  <2> QED BY <1>1, <2>2, <2>3, <2>4, <2>5, <2>6, RecorderStep
<1>4. CASE /\ audio' = Counted([audio EXCEPT !.buffered = @ + 1, !.counted = @ + 1, !.todo = @ - 1])
           /\ UNCHANGED wavs
  <2>1. audio.buffered + 1 \in Nat /\ 0 + (audio.buffered + 1) = audio.buffered + 1
    BY <1>2
  <2> QED BY <1>3, <1>4, <2>1
<1>5. CASE /\ audio' = Counted([audio EXCEPT !.buffered = 1, !.counted = @ + 1, !.todo = @ - 1])
           /\ ToDisk(audio.buffered)
  BY <1>2, <1>3, <1>5
<1>6. CASE \E part \in 0 .. audio.buffered :
             /\ audio' = [audio EXCEPT !.buffered = @ - part, !.poisoned = TRUE, !.todo = 0]
             /\ ToDisk(part)
  <2>1. PICK part \in 0 .. audio.buffered :
             /\ audio' = [audio EXCEPT !.buffered = @ - part, !.poisoned = TRUE, !.todo = 0]
             /\ ToDisk(part)
    BY <1>6
  <2> DEFINE a == [audio EXCEPT !.buffered = audio.buffered - part, !.poisoned = TRUE, !.todo = 0]
  <2>2. part \in Nat /\ audio.buffered - part \in Nat
    BY <1>2
  <2>3. a \in WavRecorders /\ a.name = audio.name /\ a.buffered = audio.buffered - part /\ a.counted = audio.counted
        /\ a.patched = audio.patched /\ a.pc = "idle" /\ a.poisoned = TRUE
    BY <1>1, <1>2, <2>2 DEF WavRecorders
  <2>4. audio' = a
    BY <2>1
  <2> HIDE DEF a
  <2>5. /\ DOMAIN wavs' = DOMAIN wavs /\ wavs' \in [DOMAIN wavs -> WavFiles] /\ HeaderCovers'
        /\ \A n \in DOMAIN wavs : wavs'[n].of = wavs[n].of
        /\ wavs'[audio.name].pcm = wavs[audio.name].pcm + part
        /\ wavs'[audio.name].data = wavs[audio.name].data
    BY <1>1, <2>1, <2>2, RecorderFacts, DiskGrows DEF RecordingInv
  <2>6. wavs'[a.name].pcm + a.buffered = a.counted /\ wavs'[a.name].data = a.patched
    BY <1>1, <1>2, <2>2, <2>3, <2>5, RecorderFacts
  <2> QED BY <1>1, <2>3, <2>4, <2>5, <2>6, RecorderStep
<1> QED BY <1>4, <1>5, <1>6 DEF WriteBlock

-----------------------------------------------------------------------------
LEMMA CutInTwo ==
  ASSUME NEW s \in Seq(Pieces), NEW cut \in Prefixes(s)
  PROVE  /\ cut \in Seq(Pieces) /\ SubSeq(s, Len(cut) + 1, Len(s)) \in Seq(Pieces)
         /\ cut \o SubSeq(s, Len(cut) + 1, Len(s)) = s
         /\ Len(cut) <= Len(s) /\ \A i \in 1 .. Len(cut) : cut[i] = s[i]
PROOF
<1>1. PICK l \in 0 .. Len(s) : cut = SubSeq(s, 1, l)
  BY DEF Prefixes
<1>2. Len(s) \in Nat /\ \A i \in 1 .. Len(s) : s[i] \in Pieces
  OBVIOUS
<1>3. cut \in Seq(Pieces) /\ Len(cut) = l /\ \A i \in 1 .. l : cut[i] = s[i]
  BY <1>1, <1>2, SubSeqProperties
<1>4. SubSeq(s, l + 1, Len(s)) \in Seq(Pieces)
  BY <1>2, SubSeqProperties
<1>5. SubSeq(s, 1, l) \o SubSeq(s, l + 1, Len(s)) = SubSeq(s, 1, Len(s))
  <2>1. 1 \in 1 .. Len(s) + 1 /\ l \in 1 - 1 .. Len(s) /\ Len(s) \in l .. Len(s)
    BY <1>2
  <2> QED BY <2>1, ConcatAdjacentSubSeq
<1>6. SubSeq(s, 1, Len(s)) = s
  BY SubSeqFull
<1>7. Len(cut) <= Len(s) /\ \A i \in 1 .. Len(cut) : cut[i] = s[i]
  BY <1>2, <1>3
<1> QED BY <1>1, <1>3, <1>4, <1>5, <1>6, <1>7

\* What is on disk and in the buffer is whole up to its end when more whole frames, or a
\* last piece of one, follow whole frames.
LEMMA WholeAppended ==
  ASSUME NEW s \in Seq(Pieces), NEW piece \in Pieces, WholeUpTo(s, Len(s))
  PROVE  /\ WholeUpTo(s \o <<piece>>, Len(s \o <<piece>>) - 1)
         /\ piece = "frame" => WholeUpTo(s \o <<piece>>, Len(s \o <<piece>>))
PROOF
<1>1. Len(s) \in Nat /\ <<piece>> \in Seq(Pieces) /\ Len(<<piece>>) = 1 /\ <<piece>>[1] = piece
  OBVIOUS
<1>2. /\ Len(s \o <<piece>>) = Len(s) + 1
      /\ \A i \in 1 .. Len(s) : (s \o <<piece>>)[i] = s[i]
      /\ (s \o <<piece>>)[Len(s) + 1] = piece
  BY <1>1
<1> QED BY <1>1, <1>2 DEF WholeUpTo

Recorders == [buffer : Seq(Pieces), frames : Nat, poisoned : BOOLEAN]

LEMMA RecorderIsOne == ASSUME NEW r \in Recorders PROVE r # <<>>
PROOF
<1>1. DOMAIN r = {"buffer", "frames", "poisoned"}
  BY DEF Recorders
<1>2. DOMAIN <<>> = {}
  OBVIOUS
<1> QED BY <1>1, <1>2

LEMMA PiecesAssociate == \A s, t, u \in Seq(Pieces) : (s \o t) \o u = s \o (t \o u)
PROOF
<1> SUFFICES ASSUME NEW s \in Seq(Pieces), NEW t \in Seq(Pieces), NEW u \in Seq(Pieces)
             PROVE (s \o t) \o u = s \o (t \o u)
  OBVIOUS
<1> QED BY ConcatAssociative

LEMMA VideoFacts ==
  ASSUME RecordingInv, video # <<>>
  PROVE  /\ track \in Seq(Pieces) /\ video \in Recorders /\ video.buffer \in Seq(Pieces) /\ video.frames + 1 \in Nat
         /\ Written = track \o video.buffer /\ Written \in Seq(Pieces)
         /\ WholeUpTo(Written, Len(Written) - 1) /\ (~video.poisoned => WholeUpTo(Written, Len(Written)))
PROOF
<1>1. track \in Seq(Pieces) /\ video \in Recorders
  BY DEF RecordingInv, VideoTyped, Recorders
<1>2. video.buffer \in Seq(Pieces) /\ video.frames + 1 \in Nat
  BY <1>1 DEF Recorders
<1>3. track \o video.buffer \in Seq(Pieces)
  BY <1>1, <1>2
<1> QED BY <1>1, <1>2, <1>3 DEF RecordingInv, TornAtTheEnd, Written

\* A frame goes behind what is written, whichever way the buffer takes it.
LEMMA WriteFrameStep == ASSUME RecordingInv, WriteFrame PROVE RecordingInv'
PROOF
<1>1. video # <<>> /\ ~video.poisoned /\ UNCHANGED audioVars
  BY DEF WriteFrame
<1>2. WavsTyped' /\ WavsApart' /\ HeaderCovers' /\ CountedIsKept'
  BY <1>1, SoundLeft DEF RecordingInv
<1>3. /\ track \in Seq(Pieces) /\ video \in Recorders /\ video.buffer \in Seq(Pieces) /\ video.frames + 1 \in Nat
      /\ Written = track \o video.buffer /\ Written \in Seq(Pieces) /\ WholeUpTo(Written, Len(Written))
  BY <1>1, VideoFacts
<1>4. <<"frame">> \in Seq(Pieces) /\ <<"torn">> \in Seq(Pieces)
  BY DEF Pieces
<1>5. ASSUME NEW b \in Seq(Pieces), NEW p \in BOOLEAN, track' \in Seq(Pieces),
             video' = [buffer |-> b, frames |-> video.frames + 1, poisoned |-> p],
             \/ track' \o b = Written
             \/ track' \o b = Written \o <<"frame">>
             \/ p = TRUE /\ track' \o b = Written \o <<"torn">>
      PROVE  RecordingInv'
  <2>1. video' \in Recorders /\ video'.buffer = b /\ video'.poisoned = p
    BY <1>3, <1>5 DEF Recorders
  <2>2. VideoTyped'
    BY <1>5, <2>1 DEF VideoTyped, Recorders
  <2>3. Written' = track' \o b
    BY <2>1, RecorderIsOne DEF Written
  <2>4. Len(Written) \in Nat
    BY <1>3
  <2>5. TornAtTheEnd'
    <3>1. CASE track' \o b = Written
      <4>1. WholeUpTo(Written', Len(Written')) /\ WholeUpTo(Written', Len(Written') - 1)
        BY <1>3, <2>3, <2>4, <3>1 DEF WholeUpTo
      <4> QED BY <4>1 DEF TornAtTheEnd
    <3>2. CASE track' \o b = Written \o <<"frame">>
      <4>1. WholeUpTo(Written', Len(Written')) /\ WholeUpTo(Written', Len(Written') - 1)
        BY <1>3, <2>3, <3>2, WholeAppended DEF Pieces
      <4> QED BY <4>1 DEF TornAtTheEnd
    <3>3. CASE p = TRUE /\ track' \o b = Written \o <<"torn">>
      <4>1. WholeUpTo(Written', Len(Written') - 1)
        BY <1>3, <2>3, <3>3, WholeAppended DEF Pieces
      <4> QED BY <2>1, <3>3, <4>1 DEF TornAtTheEnd
    <3> QED BY <1>5, <3>1, <3>2, <3>3
  <2> QED BY <1>2, <2>2, <2>5 DEF RecordingInv
<1>6. CASE video' = [video EXCEPT !.buffer = Append(@, "frame"), !.frames = @ + 1] /\ UNCHANGED track
  <2>1. video' = [buffer |-> Append(video.buffer, "frame"), frames |-> video.frames + 1, poisoned |-> video.poisoned]
    BY <1>3, <1>6 DEF Recorders
  <2>2. Append(video.buffer, "frame") = video.buffer \o <<"frame">> /\ Append(video.buffer, "frame") \in Seq(Pieces)
    BY <1>3, <1>4, AppendIsConcat, SMTT(60) DEF Pieces
  <2>3. track \o (video.buffer \o <<"frame">>) = (track \o video.buffer) \o <<"frame">>
    <3>1. track \in Seq(Pieces) /\ video.buffer \in Seq(Pieces) /\ <<"frame">> \in Seq(Pieces)
      BY <1>3, <1>4
    <3> QED BY <3>1, PiecesAssociate, Zenon
  <2>4. video.poisoned \in BOOLEAN
    BY <1>3 DEF Recorders
  <2> QED BY <1>3, <1>5, <1>6, <2>1, <2>2, <2>3, <2>4
<1>7. CASE track' = track \o video.buffer /\ video' = [video EXCEPT !.buffer = <<"frame">>, !.frames = @ + 1]
  <2>1. video' = [buffer |-> <<"frame">>, frames |-> video.frames + 1, poisoned |-> video.poisoned]
    BY <1>3, <1>7 DEF Recorders
  <2>2. video.poisoned \in BOOLEAN
    BY <1>3 DEF Recorders
  <2> QED BY <1>3, <1>4, <1>5, <1>7, <2>1, <2>2
<1>8. CASE FrameFails
  <2>0. PICK piece \in {<<>>, <<"torn">>} : \E cut \in Prefixes(video.buffer \o piece) :
          /\ track' = track \o cut
          /\ video' = [buffer |-> SubSeq(video.buffer \o piece, Len(cut) + 1, Len(video.buffer \o piece)),
                       frames |-> video.frames + 1, poisoned |-> TRUE]
    BY <1>8 DEF FrameFails
  <2>1. PICK cut \in Prefixes(video.buffer \o piece) :
          /\ track' = track \o cut
          /\ video' = [buffer |-> SubSeq(video.buffer \o piece, Len(cut) + 1, Len(video.buffer \o piece)),
                       frames |-> video.frames + 1, poisoned |-> TRUE]
    BY <2>0
  <2> DEFINE all == video.buffer \o piece
             rest == SubSeq(all, Len(cut) + 1, Len(all))
  <2>2. piece \in Seq(Pieces) /\ (piece = <<>> \/ piece = <<"torn">>)
    <3>1. CASE piece = <<>>
      BY <3>1
    <3>2. CASE piece = <<"torn">>
      BY <1>4, <3>2
    <3> QED BY <3>1, <3>2
  <2>3. all \in Seq(Pieces)
    BY <1>3, <2>2
  <2>4. cut \in Seq(Pieces) /\ rest \in Seq(Pieces) /\ cut \o rest = all
    BY <2>1, <2>3, CutInTwo
  <2>5. (track \o cut) \o rest = track \o all
    <3>1. track \in Seq(Pieces) /\ cut \in Seq(Pieces) /\ rest \in Seq(Pieces)
      BY <1>3, <2>4
    <3>2. (track \o cut) \o rest = track \o (cut \o rest)
      BY <3>1, PiecesAssociate, Zenon
    <3> QED BY <2>4, <3>2
  <2>6. track \o all = Written \o piece
    <3>1. track \in Seq(Pieces) /\ video.buffer \in Seq(Pieces) /\ piece \in Seq(Pieces)
      BY <1>3, <2>2
    <3>2. (track \o video.buffer) \o piece = track \o (video.buffer \o piece)
      BY <3>1, PiecesAssociate, Zenon
    <3> QED BY <1>3, <3>2
  <2>7. track' \in Seq(Pieces)
    BY <1>3, <2>1, <2>4
  <2>8. track' \o rest = Written \/ track' \o rest = Written \o <<"torn">>
    <3>1. track' \o rest = Written \o piece
      BY <2>1, <2>5, <2>6
    <3>2. Written \o <<>> = Written
      BY <1>3, ConcatEmptySeq
    <3> QED BY <2>2, <3>1, <3>2
  <2>9. video' = [buffer |-> rest, frames |-> video.frames + 1, poisoned |-> TRUE]
    BY <2>1
  <2> HIDE DEF rest, all
  <2> QED BY <1>5, <2>4, <2>7, <2>8, <2>9
<1> QED BY <1>6, <1>7, <1>8 DEF WriteFrame

\* A file that ends where a buffer was cut is whole as far as the buffer was.
LEMMA CutIsWhole ==
  ASSUME RecordingInv, NEW cut \in Prefixes(IF video = <<>> THEN <<>> ELSE video.buffer),
         track' = track \o cut, video' = <<>>
  PROVE  VideoTyped' /\ TornAtTheEnd'
PROOF
<1> DEFINE held == IF video = <<>> THEN <<>> ELSE video.buffer
<1>1. track \in Seq(Pieces) /\ held \in Seq(Pieces) /\ Written = track \o held /\ Written \in Seq(Pieces)
  <2>1. CASE video = <<>>
    BY <2>1 DEF RecordingInv, VideoTyped, Written
  <2>2. CASE video # <<>>
    BY <2>2, VideoFacts
  <2> QED BY <2>1, <2>2
<1> HIDE DEF held
<1>2. cut \in Prefixes(held)
  BY DEF held
<1>3. cut \in Seq(Pieces) /\ Len(cut) <= Len(held) /\ \A i \in 1 .. Len(cut) : cut[i] = held[i]
  BY <1>1, <1>2, CutInTwo
<1>4. track' \in Seq(Pieces) /\ Written' = track'
  BY <1>1, <1>3 DEF Written
<1>5. Len(track') <= Len(Written) /\ \A i \in 1 .. Len(track') : track'[i] = Written[i]
  BY <1>1, <1>3
<1>6. WholeUpTo(track', Len(track') - 1)
  <2>1. Len(track') \in Nat /\ Len(Written) \in Nat
    BY <1>1, <1>4
  <2>2. \A i \in 1 .. Len(Written) - 1 : Written[i] = "frame"
    BY DEF RecordingInv, TornAtTheEnd, WholeUpTo
  <2>3. \A i \in 1 .. Len(track') - 1 : track'[i] = Written[i] /\ i \in 1 .. Len(Written) - 1
    BY <1>5, <2>1
  <2> QED BY <2>2, <2>3 DEF WholeUpTo
<1> QED BY <1>4, <1>6 DEF VideoTyped, TornAtTheEnd

LEMMA CloseVideoStep == ASSUME RecordingInv, CloseVideo PROVE RecordingInv'
PROOF
<1>1. UNCHANGED audioVars
  BY DEF CloseVideo
<1>2. VideoTyped' /\ TornAtTheEnd'
  BY CutIsWhole DEF CloseVideo
<1> QED BY <1>1, <1>2, SoundLeft DEF RecordingInv

LEMMA ProcessDiesStep == ASSUME RecordingInv, ProcessDies PROVE RecordingInv'
PROOF
<1>1. wavs' = wavs /\ made' = made /\ opened' = opened /\ audio' = <<>> /\ video' = <<>> /\ track' = track
  BY DEF ProcessDies
<1>2. WavsTyped' /\ WavsApart' /\ HeaderCovers' /\ CountedIsKept'
  BY <1>1 DEF RecordingInv, WavsTyped, WavsApart, HeaderCovers, CountedIsKept
<1>3. VideoTyped' /\ TornAtTheEnd'
  <2> DEFINE held == IF video = <<>> THEN <<>> ELSE video.buffer
  <2>1. held \in Seq(Pieces) /\ track \in Seq(Pieces)
    BY VideoFacts DEF RecordingInv, VideoTyped
  <2>2. SubSeq(held, 1, 0) = <<>> /\ 0 \in 0 .. Len(held)
    BY <2>1
  <2>3. <<>> \in Prefixes(held)
    BY <2>2 DEF Prefixes
  <2>4. track' = track \o <<>>
    BY <1>1, <2>1
  <2> QED BY <1>1, <2>3, <2>4, CutIsWhole
<1> QED BY <1>2, <1>3 DEF RecordingInv

-----------------------------------------------------------------------------
LEMMA EngineStartsStep == ASSUME RecordingInv, NEW records \in BOOLEAN, EngineStarts(records) PROVE RecordingInv'
PROOF
<1>1. PICK gone \in SUBSET {n \in DOMAIN wavs : wavs[n].old} :
        /\ wavs' = [n \in DOMAIN wavs \ gone |-> wavs[n]]
        /\ made' = made \ {wavs[n].of : n \in gone}
  BY DEF EngineStarts
<1>2. opened' = opened /\ audio' = audio /\ audio = <<>> /\ gone \subseteq DOMAIN wavs
  BY DEF EngineStarts
<1>3. DOMAIN wavs' = DOMAIN wavs \ gone /\ \A n \in DOMAIN wavs' : n \in DOMAIN wavs /\ wavs'[n] = wavs[n]
  BY <1>1
<1>4. WavsTyped' /\ CountedIsKept'
  BY <1>1, <1>2, <1>3 DEF RecordingInv, WavsTyped, CountedIsKept
<1>5. HeaderCovers'
  BY <1>3 DEF RecordingInv, HeaderCovers
<1>6. WavsApart'
  <2>1. {wavs'[n].of : n \in DOMAIN wavs'} = made'
    <3>1. {wavs'[n].of : n \in DOMAIN wavs'} = {wavs[n].of : n \in DOMAIN wavs \ gone}
      BY <1>3
    <3>2. {wavs[n].of : n \in DOMAIN wavs \ gone} = {wavs[n].of : n \in DOMAIN wavs} \ {wavs[n].of : n \in gone}
      BY <1>2 DEF RecordingInv, WavsApart
    <3> QED BY <1>1, <3>1, <3>2 DEF RecordingInv, WavsApart
  <2> QED BY <1>2, <1>3, <2>1 DEF RecordingInv, WavsApart
<1>7. VideoTyped' /\ TornAtTheEnd'
  <2>1. CASE UNCHANGED videoVars
    BY <2>1, VideoLeft DEF RecordingInv
  <2>2. CASE video' = [buffer |-> <<>>, frames |-> 0, poisoned |-> FALSE] /\ track' = <<>>
    <3>1. video' \in Recorders /\ track' \in Seq(Pieces) /\ video'.buffer = <<>>
      BY <2>2 DEF Recorders
    <3>2. Written' = <<>>
      BY <2>2, <3>1, RecorderIsOne DEF Written
    <3>3. WholeUpTo(Written', Len(Written')) /\ WholeUpTo(Written', Len(Written') - 1)
      BY <3>2 DEF WholeUpTo
    <3> QED BY <3>1, <3>3 DEF VideoTyped, Recorders, TornAtTheEnd
  <2> QED BY <2>1, <2>2 DEF EngineStarts, InitRecorder
<1> QED BY <1>4, <1>5, <1>6, <1>7 DEF RecordingInv

LEMMA RetentionEndsStep == ASSUME RecordingInv, NEW n \in DOMAIN wavs, RetentionEnds(n) PROVE RecordingInv'
PROOF
<1>1. /\ wavs' = [wavs EXCEPT ![n].old = TRUE] /\ (audio # <<>> => audio.name # n)
      /\ made' = made /\ opened' = opened /\ audio' = audio /\ UNCHANGED videoVars
  BY DEF RetentionEnds
<1>2. wavs[n] \in WavFiles
  BY DEF RecordingInv, WavsTyped
<1>3. [wavs[n] EXCEPT !.old = TRUE] \in WavFiles
  BY <1>2 DEF WavFiles
<1>4. /\ DOMAIN wavs' = DOMAIN wavs /\ wavs' \in [DOMAIN wavs -> WavFiles]
      /\ wavs'[n] = [wavs[n] EXCEPT !.old = TRUE] /\ \A k \in DOMAIN wavs : k # n => wavs'[k] = wavs[k]
  BY <1>1, <1>3 DEF RecordingInv, WavsTyped
<1>5. \A k \in DOMAIN wavs : /\ wavs'[k].of = wavs[k].of /\ wavs'[k].pcm = wavs[k].pcm
                            /\ wavs'[k].riff = wavs[k].riff /\ wavs'[k].data = wavs[k].data
  BY <1>2, <1>4 DEF WavFiles
<1>6. WavsTyped'
  BY <1>1, <1>4 DEF RecordingInv, WavsTyped
<1>7. WavsApart'
  BY <1>1, <1>4, <1>5, FilesKept DEF RecordingInv
<1>8. HeaderCovers'
  BY <1>4, <1>5 DEF RecordingInv, HeaderCovers
<1>9. CountedIsKept'
  BY <1>1, <1>4, <1>5 DEF RecordingInv, CountedIsKept, Idle, AudioAt
<1> QED BY <1>1, <1>6, <1>7, <1>8, <1>9, VideoLeft DEF RecordingInv

LEMMA RecordingInvInit == RecordingInit => RecordingInv
PROOF
<1> SUFFICES ASSUME RecordingInit PROVE RecordingInv
  OBVIOUS
<1>1. wavs = <<>> /\ made = {} /\ opened = 0 /\ audio = <<>> /\ track = <<>> /\ video = <<>>
  BY DEF RecordingInit
<1>2. DOMAIN wavs = {} /\ wavs \in [DOMAIN wavs -> WavFiles]
  BY <1>1
<1>3. WavsTyped /\ WavsApart /\ HeaderCovers /\ CountedIsKept
  BY <1>1, <1>2 DEF WavsTyped, WavsApart, HeaderCovers, CountedIsKept
<1>4. VideoTyped /\ TornAtTheEnd
  BY <1>1 DEF VideoTyped, TornAtTheEnd, Written, WholeUpTo
<1> QED BY <1>3, <1>4 DEF RecordingInv

LEMMA RecordingInvStep == RecordingInv /\ [RecordingNext]_recordingVars => RecordingInv'
PROOF
<1> SUFFICES ASSUME RecordingInv, [RecordingNext]_recordingVars PROVE RecordingInv'
  OBVIOUS
<1>1. ASSUME NEW on \in BOOLEAN, EngineStarts(on) PROVE RecordingInv'
  BY <1>1, EngineStartsStep
<1>2. ASSUME UNCHANGED <<audioVars, videoVars>> PROVE RecordingInv'
  BY <1>2, SoundLeft, VideoLeft DEF RecordingInv
<1>3. ASSUME NEW on \in BOOLEAN, NEW kind \in {"video", "audio"}, Toggle(kind, on) PROVE RecordingInv'
  BY <1>2, <1>3 DEF Toggle
<1>4. ASSUME NEW n \in DOMAIN wavs, RetentionEnds(n) PROVE RecordingInv'
  BY <1>4, RetentionEndsStep
<1>5. CASE ProcessDies \/ WriteFrame \/ CloseVideo
  BY <1>5, ProcessDiesStep, WriteFrameStep, CloseVideoStep
<1>6. CASE OpenWav \/ CloseWav \/ SizeLimit \/ WriteBlock
  BY <1>6, OpenWavStep, SizeLimitStep, WriteBlockStep
<1>7. ASSUME NEW blocks \in 1 .. CallBlocks, WritePcm(blocks) PROVE RecordingInv'
  BY <1>7, WritePcmStep
<1>8. CASE Flush \/ WriteRiffSize \/ WriteDataSize \/ DropWriter
  BY <1>8, FlushStep, WriteRiffSizeStep, WriteDataSizeStep, DropWriterStep
<1>9. CASE UNCHANGED recordingVars
  BY <1>2, <1>9 DEF recordingVars, audioVars, videoVars
<1> QED BY <1>1, <1>3, <1>4, <1>5, <1>6, <1>7, <1>8, <1>9 DEF RecordingNext

\* Whatever write fails, in part or whole, and whenever the process dies: the header of every
\* WAV file on disk tells sound that is in it, up to the last second; no file takes another's
\* place; only the end of the video is torn (RecordingsReadable).
THEOREM RecordingsStayReadable == RecordingSpec => []RecordingsReadable
PROOF
<1>1. RecordingInv => RecordingsReadable
  <2> SUFFICES ASSUME RecordingInv PROVE RecordingsReadable
    OBVIOUS
  <2>1. HeaderFollows
    <3> SUFFICES ASSUME Idle, ~audio.poisoned PROVE audio.counted - wavs[audio.name].data < Second
      BY DEF HeaderFollows
    <3> QED BY DEF RecordingInv, CountedIsKept, Idle, AudioAt
  <2>2. TornIsLast
    <3>1. CASE video = <<>>
      BY <3>1 DEF RecordingInv, TornAtTheEnd, Written, WholeUpTo, TornIsLast
    <3>2. CASE video # <<>>
      <4>1. /\ track \in Seq(Pieces) /\ video.buffer \in Seq(Pieces) /\ Written = track \o video.buffer
            /\ WholeUpTo(Written, Len(Written) - 1)
        BY <3>2, VideoFacts
      <4>2. \A i \in 1 .. Len(track) - 1 : Written[i] = track[i] /\ i \in 1 .. Len(Written) - 1
        BY <4>1
      <4> QED BY <4>1, <4>2 DEF WholeUpTo, TornIsLast
    <3> QED BY <3>1, <3>2
  <2>3. NoneWiped /\ HeaderCovers
    BY DEF RecordingInv, WavsApart, NoneWiped
  <2> QED BY <2>1, <2>2, <2>3 DEF RecordingsReadable
<1> QED BY <1>1, RecordingInvInit, RecordingInvStep, PTL DEF RecordingSpec

-----------------------------------------------------------------------------
(* The host, the file it writes once a second, and the reader of that file.*)

Pins == 0..MaxPins

StatusTyped ==
  /\ host \in {"down", "backoff", "listening", "handshake", "serving", "hold"}
  /\ hostPin \in Pins /\ (host # "down" => hostPin # Dashes)
  /\ lastShown \in [pin : Pins, left : Int] /\ locked \in BOOLEAN
  /\ statusFile \in [says : {"nothing", "waiting", "streaming"}, pin : Pins, left : Int]
  /\ fileAge \in 0..StaleAfter /\ beaten \in BOOLEAN
  /\ polled \in BOOLEAN /\ unread \in 0..MaxUnread
  /\ view \in [link : {"disconnected", "waiting", "connected"}, pin : Pins, left : Int, since : Int]
  /\ waitedAgo \in [1..MaxPins -> Nat] /\ servedAgo \in Nat

LeftsTyped == pinLeft \in Int

\* What the engine knows: a beat that repeats the last one is at most a second late.
HostKnows ==
  /\ Waits => waitedAgo[hostPin] = 0
  /\ Waits /\ ~locked /\ lastShown.pin # Dashes =>
       waitedAgo[lastShown.pin] <= IF beaten THEN 0 ELSE 1
  /\ host = "serving" => servedAgo = 0

\* What a file that is not stale says was true a second more than its age ago.
FileIsRecent ==
  /\ statusFile.says = "waiting" /\ statusFile.pin # Dashes /\ fileAge < StaleAfter =>
       waitedAgo[statusFile.pin] <= fileAge + 1
  /\ statusFile.says = "streaming" /\ fileAge < StaleAfter => servedAgo <= fileAge

ReadsBehind == unread + IF polled THEN 0 ELSE 1

\* The view ages by the reads it missed, and by the one of the second that runs.
ViewAges ==
  /\ view.link = "waiting" => view.pin # Dashes /\ waitedAgo[view.pin] <= StaleAfter + ReadsBehind
  /\ view.link = "connected" => servedAgo < StaleAfter + ReadsBehind

StatusInv == StatusTyped /\ LeftsTyped /\ HostKnows /\ FileIsRecent /\ ViewAges

Shown == [pin : Pins, left : Int]

LEMMA StatusBounds ==
  /\ PinLife \in Nat /\ HoldSeconds \in Nat /\ StaleAfter \in Nat /\ MaxUnread \in Nat /\ MaxPins \in Nat
  /\ StaleAfter > 0 /\ NothingShown \in Shown /\ Limit \in Nat /\ BackoffMax \in Nat
PROOF BY StatusAssumption DEF NothingShown, Shown, Pins, Dashes, NotGiven, Limit

\* What a beat that waits says and remembers: the PIN and its time, or what the
\* beat before it said, never twice running.
LEMMA BeatPublishes ==
  ASSUME NEW pin \in Pins, NEW left \in Int, NEW last \in Shown, PublishPin(pin, left, last)
  PROVE  /\ lastShown' \in Shown /\ locked' \in BOOLEAN
         /\ statusFile' \in [says : {"nothing", "waiting", "streaming"}, pin : Pins, left : Int]
         /\ statusFile'.says = "waiting" /\ fileAge' = 0 /\ beaten' = TRUE
         /\ ~locked' => lastShown'.pin = pin
         /\ statusFile'.pin = pin \/ (~locked /\ statusFile'.pin = last.pin)
PROOF
<1>1. CASE /\ lastShown' = [pin |-> pin, left |-> left] /\ locked' = FALSE
           /\ WriteStatus("waiting", [pin |-> pin, left |-> left])
  BY <1>1 DEF WriteStatus, Shown
<1>2. CASE ~locked /\ lastShown' = last /\ locked' = TRUE /\ WriteStatus("waiting", last)
  BY <1>2 DEF WriteStatus, Shown
<1> QED BY <1>1, <1>2 DEF PublishPin

LEMMA WaitsForNow ==
  ASSUME StatusTyped, NEW pin \in 1..MaxPins, WaitsFor(pin)
  PROVE  /\ waitedAgo' \in [1..MaxPins -> Nat] /\ waitedAgo'[pin] = 0 /\ servedAgo' = servedAgo
         /\ \A p \in 1..MaxPins : waitedAgo'[p] <= waitedAgo[p]
PROOF BY DEF StatusTyped, WaitsFor

LEMMA AgesGrowByOne ==
  ASSUME StatusTyped, SecondPasses
  PROVE  /\ waitedAgo' \in [1..MaxPins -> Nat] /\ servedAgo' \in Nat /\ fileAge' \in 0..StaleAfter
         /\ \A p \in 1..MaxPins : waitedAgo'[p] <= waitedAgo[p] + 1
         /\ Waits => waitedAgo'[hostPin] = 0
         /\ servedAgo' <= servedAgo + 1 /\ (host = "serving" => servedAgo' = 0)
         /\ fileAge' < StaleAfter => fileAge' = fileAge + 1
         /\ view' \in [link : {"disconnected", "waiting", "connected"}, pin : Pins, left : Int, since : Int]
         /\ view'.link = view.link /\ view'.pin = view.pin
PROOF
<1> USE StatusBounds
<1>1. \A n, m \in Nat : Sooner(n, m) \in Nat /\ Sooner(n, m) <= n + 1
  BY DEF Sooner
<1>2. waitedAgo' = [pin \in 1..MaxPins |-> IF Waits /\ pin = hostPin THEN 0 ELSE Sooner(waitedAgo[pin], Limit)]
  BY DEF SecondPasses
<1>3. \A p \in 1..MaxPins : waitedAgo[p] \in Nat
  BY DEF StatusTyped
<1>4. waitedAgo' \in [1..MaxPins -> Nat] /\ \A p \in 1..MaxPins : waitedAgo'[p] <= waitedAgo[p] + 1
  <2>1. \A p \in 1..MaxPins : Sooner(waitedAgo[p], Limit) \in Nat /\ Sooner(waitedAgo[p], Limit) <= waitedAgo[p] + 1
    BY <1>1, <1>3
  <2>2. \A p \in 1..MaxPins : waitedAgo'[p] = IF Waits /\ p = hostPin THEN 0 ELSE Sooner(waitedAgo[p], Limit)
    BY <1>2
  <2>3. \A p \in 1..MaxPins : waitedAgo'[p] \in Nat /\ waitedAgo'[p] <= waitedAgo[p] + 1
    BY <1>3, <2>1, <2>2
  <2> QED BY <1>2, <2>3
<1>5. Waits => waitedAgo'[hostPin] = 0
  <2>1. Waits => hostPin \in 1..MaxPins
    BY DEF StatusTyped, Waits, Pins, Dashes
  <2> QED BY <1>2, <2>1
<1>6. servedAgo' \in Nat /\ servedAgo' <= servedAgo + 1 /\ (host = "serving" => servedAgo' = 0)
  BY <1>1 DEF SecondPasses, StatusTyped
<1>7. fileAge' \in 0..StaleAfter /\ (fileAge' < StaleAfter => fileAge' = fileAge + 1)
  BY SMTT(60) DEF SecondPasses, StatusTyped, Sooner
<1>8. Sooner(view.since, PinLife) \in Int
  BY DEF StatusTyped, Sooner
<1>9. /\ view' \in [link : {"disconnected", "waiting", "connected"}, pin : Pins, left : Int, since : Int]
      /\ view'.link = view.link /\ view'.pin = view.pin
  BY <1>8 DEF SecondPasses, StatusTyped
<1> QED BY <1>4, <1>5, <1>6, <1>7, <1>9

\* A beat that waits keeps the invariant, whatever was waited for before it.
LEMMA BeatKeepsInv ==
  ASSUME StatusInv, NEW pin \in 1..MaxPins, NEW left \in Int, NEW last \in Shown, PublishPin(pin, left, last),
         host' \in {"listening", "handshake", "hold"}, hostPin' = pin, pinLeft' \in Int, viewVars' = viewVars,
         waitedAgo' \in [1..MaxPins -> Nat], waitedAgo'[pin] = 0, servedAgo' = servedAgo,
         \A p \in 1..MaxPins : waitedAgo'[p] <= waitedAgo[p],
         ~locked /\ last.pin # Dashes => waitedAgo'[last.pin] <= 1
  PROVE  StatusInv'
PROOF
<1> USE StatusBounds
<1>0. pin \in Pins
  BY DEF Pins
<1>1. /\ lastShown' \in Shown /\ locked' \in BOOLEAN
      /\ statusFile' \in [says : {"nothing", "waiting", "streaming"}, pin : Pins, left : Int]
      /\ statusFile'.says = "waiting" /\ fileAge' = 0 /\ beaten' = TRUE
      /\ ~locked' => lastShown'.pin = pin
      /\ statusFile'.pin = pin \/ (~locked /\ statusFile'.pin = last.pin)
  BY <1>0, BeatPublishes
<1>2. polled' = polled /\ unread' = unread /\ view' = view
  BY DEF viewVars
<1>3. StatusTyped'
  BY <1>0, <1>1, <1>2, SMTT(60) DEF StatusInv, StatusTyped, Shown, Dashes
<1>4. HostKnows'
  BY <1>1 DEF HostKnows, Waits
<1>5. FileIsRecent'
  BY <1>1 DEF FileIsRecent
<1>6. ViewAges'
  <2>1. ReadsBehind' = ReadsBehind /\ ReadsBehind \in Nat
    BY <1>2 DEF ReadsBehind, StatusInv, StatusTyped
  <2>2. view.link = "waiting" => waitedAgo'[view.pin] <= waitedAgo[view.pin] /\ waitedAgo'[view.pin] \in Nat
                                  /\ waitedAgo[view.pin] \in Nat
    BY SMTT(60) DEF StatusInv, StatusTyped, ViewAges, Pins, Dashes
  <2> QED BY <1>2, <2>1, <2>2 DEF StatusInv, ViewAges
<1> QED BY <1>3, <1>4, <1>5, <1>6 DEF StatusInv, LeftsTyped

LEMMA ListensKeepsInv == ASSUME StatusInv, Listens, viewVars' = viewVars PROVE StatusInv'
PROOF
<1> USE StatusBounds
<1>1. hostPin + 1 \in 1..MaxPins
  BY DEF Listens, StatusInv, StatusTyped, Pins
<1>2. /\ waitedAgo' \in [1..MaxPins -> Nat] /\ waitedAgo'[hostPin + 1] = 0 /\ servedAgo' = servedAgo
      /\ \A p \in 1..MaxPins : waitedAgo'[p] <= waitedAgo[p]
  BY <1>1, WaitsForNow DEF Listens, StatusInv
<1>3. /\ PublishPin(hostPin + 1, PinLife, NothingShown) /\ host' \in {"listening", "handshake", "hold"}
      /\ hostPin' = hostPin + 1 /\ pinLeft' \in Int
  BY DEF Listens
<1> QED BY <1>1, <1>2, <1>3, BeatKeepsInv DEF NothingShown

LEMMA BeatsStep == ASSUME StatusInv, Beats PROVE StatusInv'
PROOF
<1> USE StatusBounds
<1>1. CASE Waits
  <2>1. PublishPin(hostPin, pinLeft, lastShown) /\ ~beaten
    BY <1>1 DEF Beats, Waits
  <2>2. hostPin \in 1..MaxPins /\ host' \in {"listening", "handshake", "hold"} /\ hostPin' = hostPin /\ pinLeft' \in Int
    BY <1>1, SMTT(60) DEF Beats, StatusInv, StatusTyped, LeftsTyped, Waits, Pins, Dashes
  <2>3. /\ waitedAgo' \in [1..MaxPins -> Nat] /\ waitedAgo'[hostPin] = 0 /\ servedAgo' = servedAgo
        /\ \A p \in 1..MaxPins : waitedAgo'[p] <= waitedAgo[p]
    BY <1>1 DEF Beats, ago, StatusInv, StatusTyped, HostKnows
  <2>4. ~locked /\ lastShown.pin # Dashes => waitedAgo'[lastShown.pin] <= 1
    BY <1>1, <2>1 DEF Beats, ago, StatusInv, HostKnows
  <2>5. pinLeft \in Int /\ lastShown \in Shown /\ viewVars' = viewVars
    BY DEF Beats, viewVars, StatusInv, StatusTyped, LeftsTyped, Shown
  <2> QED BY <2>1, <2>2, <2>3, <2>4, <2>5, BeatKeepsInv
<1>2. CASE ~Waits
  <2>1. PICK says \in {"waiting", "streaming"} :
          /\ WriteStatus(says, NothingShown) /\ (says = "streaming" => host = "serving")
          /\ UNCHANGED <<host, hostPin, pinLeft, hostLeft, lastShown, locked, steady, viewVars, ago>>
    BY <1>2 DEF Beats, Waits, StatusInv, StatusTyped
  <2>2. /\ statusFile' = [says |-> says, pin |-> Dashes, left |-> NotGiven] /\ fileAge' = 0 /\ beaten' = TRUE
        /\ polled' = polled /\ unread' = unread /\ view' = view /\ waitedAgo' = waitedAgo /\ servedAgo' = servedAgo
    BY <2>1 DEF WriteStatus, NothingShown, viewVars, ago
  <2>3. StatusTyped' /\ LeftsTyped'
    BY <2>1, <2>2 DEF StatusInv, StatusTyped, LeftsTyped, Pins, Dashes, NotGiven
  <2>4. HostKnows'
    BY <1>2, <2>1, <2>2 DEF StatusInv, HostKnows, Waits
  <2>5. FileIsRecent'
    BY <2>1, <2>2 DEF StatusInv, HostKnows, FileIsRecent
  <2>6. ViewAges'
    BY <2>2 DEF StatusInv, ViewAges, ReadsBehind
  <2> QED BY <2>3, <2>4, <2>5, <2>6 DEF StatusInv
<1> QED BY <1>1, <1>2

LEMMA PinRotatesStep == ASSUME StatusInv, PinRotates PROVE StatusInv'
PROOF
<1> USE StatusBounds
<1>1. hostPin + 1 \in 1..MaxPins
  BY DEF PinRotates, StatusInv, StatusTyped, Pins
<1>2. /\ waitedAgo' \in [1..MaxPins -> Nat] /\ waitedAgo'[hostPin + 1] = 0 /\ servedAgo' = servedAgo
      /\ \A p \in 1..MaxPins : waitedAgo'[p] <= waitedAgo[p]
  BY <1>1, WaitsForNow DEF PinRotates, StatusInv
<1>3. /\ host' = host /\ host \in {"listening", "handshake", "hold"} /\ hostPin' = hostPin + 1
      /\ pinLeft' \in {PinLife, HoldSeconds} /\ hostLeft' = hostLeft
      /\ lastShown' = lastShown /\ locked' = locked /\ statusFile' = statusFile /\ fileAge' = fileAge
      /\ beaten' = beaten /\ polled' = polled /\ unread' = unread /\ view' = view
  BY DEF PinRotates, viewVars
<1>4. StatusTyped' /\ LeftsTyped'
  BY <1>1, <1>2, <1>3 DEF StatusInv, StatusTyped, LeftsTyped, Pins, Dashes
<1>5. \A p \in Pins \ {Dashes} : waitedAgo'[p] <= waitedAgo[p] /\ waitedAgo[p] \in Nat /\ waitedAgo'[p] \in Nat
  BY <1>2 DEF StatusInv, StatusTyped, Pins, Dashes
<1>6. HostKnows'
  BY <1>2, <1>3, <1>5 DEF StatusInv, StatusTyped, HostKnows, Waits
<1>7. FileIsRecent'
  BY <1>2, <1>3, <1>5 DEF StatusInv, StatusTyped, FileIsRecent
<1>8. ViewAges'
  BY <1>2, <1>3, <1>5 DEF StatusInv, StatusTyped, ViewAges, ReadsBehind
<1> QED BY <1>4, <1>6, <1>7, <1>8 DEF StatusInv

LEMMA StreamBeginsStep == ASSUME StatusInv, StreamBegins PROVE StatusInv'
PROOF
<1> USE StatusBounds
<1>1. /\ host' = "serving" /\ hostPin' = hostPin /\ host # "down" /\ pinLeft' = pinLeft
      /\ statusFile' = [says |-> "streaming", pin |-> Dashes, left |-> NotGiven] /\ fileAge' = 0 /\ beaten' = TRUE
      /\ lastShown' = lastShown /\ locked' = locked
      /\ polled' = polled /\ unread' = unread /\ view' = view /\ waitedAgo' = waitedAgo /\ servedAgo' = 0
  BY DEF StreamBegins, WriteStatus, NothingShown, viewVars
<1>2. StatusTyped' /\ LeftsTyped'
  BY <1>1 DEF StatusInv, StatusTyped, LeftsTyped, Pins, Dashes, NotGiven
<1>3. HostKnows' /\ FileIsRecent'
  BY <1>1 DEF HostKnows, FileIsRecent, Waits
<1>4. ViewAges'
  BY <1>1 DEF StatusInv, StatusTyped, ViewAges, ReadsBehind
<1> QED BY <1>2, <1>3, <1>4 DEF StatusInv

LEMMA ListenerFailsStep == ASSUME StatusInv, ListenerFails PROVE StatusInv'
PROOF
<1> USE StatusBounds
<1>1. /\ host' = "backoff" /\ hostPin' = hostPin /\ host # "down" /\ pinLeft' = pinLeft
      /\ statusFile' = [says |-> "waiting", pin |-> Dashes, left |-> NotGiven] /\ fileAge' = 0 /\ beaten' = TRUE
      /\ lastShown' = lastShown /\ locked' = locked
      /\ polled' = polled /\ unread' = unread /\ view' = view /\ waitedAgo' = waitedAgo /\ servedAgo' = servedAgo
  BY DEF ListenerFails, WriteStatus, NothingShown, viewVars, ago
<1>2. StatusTyped' /\ LeftsTyped'
  BY <1>1 DEF StatusInv, StatusTyped, LeftsTyped, Pins, Dashes, NotGiven
<1>3. HostKnows' /\ FileIsRecent'
  BY <1>1 DEF HostKnows, FileIsRecent, Waits
<1>4. ViewAges'
  BY <1>1 DEF StatusInv, StatusTyped, ViewAges, ReadsBehind
<1> QED BY <1>2, <1>3, <1>4 DEF StatusInv

\* What only changes what the engine does keeps it: it waits as before, or ends.
LEMMA HostMovesOn ==
  ASSUME StatusInv, host' \in {"listening", "handshake", "down"},
         host' # "down" => host \in {"listening", "handshake"},
         UNCHANGED <<hostPin, pinLeft, hostLeft, lastShown, locked, steady, statusFile, fileAge, beaten, viewVars, ago>>
  PROVE  StatusInv'
PROOF
<1>1. /\ hostPin' = hostPin /\ pinLeft' = pinLeft /\ lastShown' = lastShown /\ locked' = locked
      /\ statusFile' = statusFile /\ fileAge' = fileAge /\ beaten' = beaten
      /\ polled' = polled /\ unread' = unread /\ view' = view /\ waitedAgo' = waitedAgo /\ servedAgo' = servedAgo
  BY DEF viewVars, ago
<1>2. StatusTyped' /\ LeftsTyped'
  BY <1>1 DEF StatusInv, StatusTyped, LeftsTyped
<1>3. HostKnows'
  BY <1>1 DEF StatusInv, HostKnows, Waits
<1>4. FileIsRecent' /\ ViewAges'
  BY <1>1 DEF StatusInv, FileIsRecent, ViewAges, ReadsBehind
<1> QED BY <1>2, <1>3, <1>4 DEF StatusInv

LEMMA StreamLostStep == ASSUME StatusInv, StreamLost PROVE StatusInv'
PROOF
<1> USE StatusBounds
<1>1. hostPin \in 1..MaxPins
  BY DEF StreamLost, StatusInv, StatusTyped, Pins, Dashes
<1>2. /\ waitedAgo' \in [1..MaxPins -> Nat] /\ waitedAgo'[hostPin] = 0 /\ servedAgo' = servedAgo
      /\ \A p \in 1..MaxPins : waitedAgo'[p] <= waitedAgo[p]
  BY <1>1, WaitsForNow DEF StreamLost, StatusInv
<1>3. /\ PublishPin(hostPin, HoldSeconds, NothingShown) /\ host' \in {"listening", "handshake", "hold"}
      /\ hostPin' = hostPin /\ pinLeft' \in Int /\ viewVars' = viewVars
  BY DEF StreamLost, viewVars
<1> QED BY <1>1, <1>2, <1>3, BeatKeepsInv DEF NothingShown

LEMMA ApplyingIsRecent ==
  ASSUME StatusInv, fileAge < StaleAfter
  PROVE  /\ Applied(statusFile) \in [link : {"disconnected", "waiting", "connected"}, pin : Pins, left : Int, since : Int]
         /\ Applied(statusFile).link = "waiting" =>
              /\ Applied(statusFile).pin # Dashes
              /\ waitedAgo[Applied(statusFile).pin] <= StaleAfter
         /\ Applied(statusFile).link = "connected" => servedAgo < StaleAfter
PROOF
<1> USE StatusBounds
<1>1. LinkOf(statusFile) \in {"disconnected", "waiting", "connected"}
  BY DEF LinkOf
<1>2. /\ LinkOf(statusFile) = "waiting" => statusFile.says = "waiting" /\ statusFile.pin # Dashes
      /\ LinkOf(statusFile) = "connected" => statusFile.says = "streaming"
  BY DEF LinkOf
<1>3. PICK left \in Int, since \in Int :
        Applied(statusFile) = [link |-> LinkOf(statusFile),
                               pin |-> IF LinkOf(statusFile) = "disconnected" THEN view.pin ELSE statusFile.pin,
                               left |-> left, since |-> since]
  BY DEF Applied, StatusInv, StatusTyped
<1>4. statusFile.pin \in Pins /\ view.pin \in Pins /\ fileAge \in Nat /\ servedAgo \in Nat
      /\ \A p \in Pins \ {Dashes} : waitedAgo[p] \in Nat
  BY DEF StatusInv, StatusTyped, Pins, Dashes
<1>5. Applied(statusFile) \in [link : {"disconnected", "waiting", "connected"}, pin : Pins, left : Int, since : Int]
  BY <1>1, <1>3, <1>4
<1>6. /\ Applied(statusFile).link = LinkOf(statusFile)
      /\ LinkOf(statusFile) # "disconnected" => Applied(statusFile).pin = statusFile.pin
  BY <1>3
<1>7. LinkOf(statusFile) = "waiting" => waitedAgo[statusFile.pin] <= StaleAfter
  BY <1>2, <1>4 DEF StatusInv, FileIsRecent
<1>8. LinkOf(statusFile) = "connected" => servedAgo < StaleAfter
  BY <1>2, <1>4 DEF StatusInv, FileIsRecent
<1> QED BY <1>2, <1>5, <1>6, <1>7, <1>8

LEMMA ReadStep == ASSUME StatusInv, ReadEngineStatus PROVE StatusInv'
PROOF
<1> USE StatusBounds
<1>1. /\ host' = host /\ hostPin' = hostPin /\ pinLeft' = pinLeft /\ lastShown' = lastShown /\ locked' = locked
      /\ statusFile' = statusFile /\ fileAge' = fileAge /\ beaten' = beaten
      /\ waitedAgo' = waitedAgo /\ servedAgo' = servedAgo /\ ~polled /\ polled' = TRUE
  BY DEF ReadEngineStatus, hostVars, ago
<1>2. HostKnows' /\ FileIsRecent' /\ LeftsTyped'
  BY <1>1 DEF StatusInv, HostKnows, FileIsRecent, LeftsTyped, Waits
<1>3. CASE fileAge < StaleAfter /\ unread < MaxUnread /\ unread' = unread + 1 /\ view' = view
  <2>1. ReadsBehind' = ReadsBehind
    BY <1>1, <1>3 DEF ReadsBehind, StatusInv, StatusTyped
  <2>2. StatusTyped'
    BY <1>1, <1>3 DEF StatusInv, StatusTyped
  <2>3. ViewAges'
    BY <1>1, <1>3, <2>1 DEF StatusInv, ViewAges
  <2> QED BY <1>2, <2>2, <2>3 DEF StatusInv
<1>4. CASE unread' = 0 /\ view' = IF fileAge < StaleAfter THEN Applied(statusFile) ELSE Stale
  <2>1. ReadsBehind' = 0
    BY <1>1, <1>4 DEF ReadsBehind
  <2>2. /\ view' \in [link : {"disconnected", "waiting", "connected"}, pin : Pins, left : Int, since : Int]
        /\ view'.link = "waiting" => view'.pin # Dashes /\ waitedAgo[view'.pin] <= StaleAfter
        /\ view'.link = "connected" => servedAgo < StaleAfter
    <3>1. CASE fileAge < StaleAfter
      BY <1>4, <3>1, ApplyingIsRecent
    <3>2. CASE ~(fileAge < StaleAfter)
      BY <1>4, <3>2 DEF Stale, Pins, Dashes, NotGiven
    <3> QED BY <3>1, <3>2
  <2>3. StatusTyped'
    BY <1>1, <1>4, <2>2 DEF StatusInv, StatusTyped
  <2>4. ViewAges'
    BY <1>1, <2>1, <2>2 DEF ViewAges
  <2> QED BY <1>2, <2>3, <2>4 DEF StatusInv
<1> QED BY <1>3, <1>4 DEF ReadEngineStatus

LEMMA OpensStep == ASSUME StatusInv, Opens PROVE StatusInv'
PROOF
<1> USE StatusBounds
<1>1. /\ host' = host /\ hostPin' = hostPin /\ pinLeft' = pinLeft /\ lastShown' = lastShown /\ locked' = locked
      /\ statusFile' = statusFile /\ fileAge' = fileAge /\ beaten' = beaten /\ polled' = polled
      /\ waitedAgo' = waitedAgo /\ servedAgo' = servedAgo /\ view' = Stale /\ unread' = 0
  BY DEF Opens, hostVars, ago
<1>2. HostKnows' /\ FileIsRecent' /\ LeftsTyped'
  BY <1>1 DEF StatusInv, HostKnows, FileIsRecent, LeftsTyped, Waits
<1>3. StatusTyped'
  BY <1>1 DEF StatusInv, StatusTyped, Stale, Pins, Dashes, NotGiven
<1>4. ViewAges'
  BY <1>1 DEF ViewAges, Stale
<1> QED BY <1>2, <1>3, <1>4 DEF StatusInv

LEMMA SecondStep == ASSUME StatusInv, SecondPasses PROVE StatusInv'
PROOF
<1> USE StatusBounds
<1>1. /\ host' = host /\ hostPin' = hostPin /\ pinLeft' = Less(pinLeft) /\ lastShown' = lastShown /\ locked' = locked
      /\ statusFile' = statusFile /\ unread' = unread /\ polled /\ ~polled' /\ ~beaten' /\ (host = "down" \/ beaten)
      /\ polled' \in BOOLEAN /\ beaten' \in BOOLEAN
  BY DEF SecondPasses
<1>2. /\ waitedAgo' \in [1..MaxPins -> Nat] /\ servedAgo' \in Nat /\ fileAge' \in 0..StaleAfter
      /\ \A p \in 1..MaxPins : waitedAgo'[p] <= waitedAgo[p] + 1
      /\ Waits => waitedAgo'[hostPin] = 0
      /\ servedAgo' <= servedAgo + 1 /\ (host = "serving" => servedAgo' = 0)
      /\ fileAge' < StaleAfter => fileAge' = fileAge + 1
      /\ view' \in [link : {"disconnected", "waiting", "connected"}, pin : Pins, left : Int, since : Int]
      /\ view'.link = view.link /\ view'.pin = view.pin
  BY AgesGrowByOne DEF StatusInv
<1>3. \A p \in Pins \ {Dashes} : waitedAgo'[p] <= waitedAgo[p] + 1 /\ waitedAgo[p] \in Nat /\ waitedAgo'[p] \in Nat
  BY <1>2, SMTT(60) DEF StatusInv, StatusTyped, Pins, Dashes
<1>4. StatusTyped'
  BY <1>1, <1>2 DEF StatusInv, StatusTyped
<1>5. LeftsTyped'
  BY <1>1 DEF StatusInv, LeftsTyped, Less
<1>6. HostKnows'
  <2>1. Waits /\ ~locked /\ lastShown.pin # Dashes => waitedAgo'[lastShown.pin] <= 1
    BY <1>1, <1>3 DEF StatusInv, StatusTyped, HostKnows, Waits
  <2> QED BY <1>1, <1>2, <2>1 DEF HostKnows, Waits
<1>7. FileIsRecent'
  BY <1>1, <1>2, <1>3, SMTT(60) DEF StatusInv, StatusTyped, FileIsRecent
<1>8. ViewAges'
  <2>1. ReadsBehind' = ReadsBehind + 1 /\ ReadsBehind \in Nat
    BY <1>1 DEF ReadsBehind, StatusInv, StatusTyped
  <2>2. view.pin \in Pins /\ servedAgo \in Nat
    BY DEF StatusInv, StatusTyped
  <2> QED BY <1>2, <1>3, <2>1, <2>2 DEF StatusInv, ViewAges
<1> QED BY <1>4, <1>5, <1>6, <1>7, <1>8 DEF StatusInv

LEMMA StatusInvInit == StatusInit => StatusInv
PROOF
<1> USE StatusBounds
<1>1. ASSUME StatusInit PROVE StatusTyped /\ LeftsTyped
  <2>1. lastShown \in [pin : Pins, left : Int] /\ locked \in BOOLEAN
    BY <1>1 DEF StatusInit, Shown
  <2>2. statusFile \in [says : {"nothing", "waiting", "streaming"}, pin : Pins, left : Int]
    BY <1>1 DEF StatusInit, Pins, Dashes, NotGiven
  <2>3. view \in [link : {"disconnected", "waiting", "connected"}, pin : Pins, left : Int, since : Int]
    BY <1>1 DEF StatusInit, Stale, Pins, Dashes, NotGiven
  <2>4. waitedAgo \in [1..MaxPins -> Nat] /\ servedAgo \in Nat
    BY <1>1 DEF StatusInit
  <2>5. /\ host = "down" /\ hostPin \in Pins /\ pinLeft \in Int /\ fileAge \in 0..StaleAfter
        /\ unread \in 0..MaxUnread /\ beaten \in BOOLEAN /\ polled \in BOOLEAN
    <3>1. /\ host = "down" /\ hostPin = 0 /\ pinLeft = 0 /\ fileAge = StaleAfter
          /\ unread = 0 /\ beaten = FALSE /\ polled = FALSE
      BY <1>1 DEF StatusInit
    <3>2. beaten \in BOOLEAN /\ polled \in BOOLEAN
      BY <3>1
    <3>3. hostPin \in Pins /\ pinLeft \in Int /\ fileAge \in 0..StaleAfter /\ unread \in 0..MaxUnread
      BY <3>1 DEF Pins
    <3> QED BY <3>1, <3>2, <3>3
  <2> QED BY <2>1, <2>2, <2>3, <2>4, <2>5 DEF StatusTyped, LeftsTyped
<1>2. StatusInit => HostKnows
  BY DEF StatusInit, HostKnows, Waits
<1>3. StatusInit => FileIsRecent
  BY DEF StatusInit, FileIsRecent
<1>4. StatusInit => ViewAges
  BY DEF StatusInit, ViewAges, Stale
<1> QED BY <1>1, <1>2, <1>3, <1>4 DEF StatusInv

LEMMA StatusInvStep == StatusInv /\ [StatusNext]_statusVars => StatusInv'
PROOF
<1> SUFFICES ASSUME StatusInv, [StatusNext]_statusVars PROVE StatusInv'
  OBVIOUS
<1>1. CASE HostStarts
  BY <1>1, ListensKeepsInv DEF HostStarts
<1>2. CASE BackoffEnds
  BY <1>2, ListensKeepsInv DEF BackoffEnds
<1>3. CASE HoldEnds
  BY <1>3, ListensKeepsInv DEF HoldEnds
<1>4. CASE HandshakeBegins
  BY <1>4, HostMovesOn DEF HandshakeBegins
<1>5. CASE HandshakeGivenUp
  BY <1>5, HostMovesOn DEF HandshakeGivenUp
<1>6. CASE HostStops
  BY <1>6, HostMovesOn DEF HostStops
<1>7. CASE Beats \/ PinRotates \/ ListenerFails \/ StreamBegins \/ StreamLost
  BY <1>7, BeatsStep, PinRotatesStep, ListenerFailsStep, StreamBeginsStep, StreamLostStep
<1>8. CASE ReadEngineStatus \/ Opens \/ SecondPasses
  BY <1>8, ReadStep, OpensStep, SecondStep
<1>9. CASE UNCHANGED statusVars
  BY <1>9 DEF statusVars, StatusInv, StatusTyped, LeftsTyped, HostKnows, FileIsRecent, ViewAges, ReadsBehind, Waits
<1> QED BY <1>1, <1>2, <1>3, <1>4, <1>5, <1>6, <1>7, <1>8, <1>9 DEF StatusNext

\* What the companion shows of a session and of a PIN is no older than the
\* staleness threshold and the reads it missed allow (two parts of ViewIsRecent).
THEOREM ViewNeverOutdated == StatusSpec => [](PinIsRecent /\ SessionIsRecent)
PROOF
<1>1. StatusInv => PinIsRecent /\ SessionIsRecent
  <2> SUFFICES ASSUME StatusInv PROVE PinIsRecent /\ SessionIsRecent
    OBVIOUS
  <2> USE StatusBounds
  <2>1. ReadsBehind \in 0..(MaxUnread + 1)
    BY DEF StatusInv, StatusTyped, ReadsBehind
  <2>2. view.link = "waiting" => waitedAgo[view.pin] \in Nat
    BY DEF StatusInv, StatusTyped, ViewAges, Pins, Dashes
  <2>3. PinIsRecent
    BY <2>1, <2>2 DEF StatusInv, ViewAges, PinIsRecent
  <2>4. SessionIsRecent
    BY <2>1 DEF StatusInv, StatusTyped, ViewAges, SessionIsRecent
  <2> QED BY <2>3, <2>4
<1> QED BY <1>1, StatusInvInit, StatusInvStep, PTL DEF StatusSpec

-----------------------------------------------------------------------------
(* The seconds the companion counts down, against those the PIN has.       *)

CountTyped ==
  /\ pinLeft \in 0..PinLife /\ steady \in 0..Grace + 1
  /\ lastShown.left \in NotGiven..PinLife /\ statusFile.left \in NotGiven..PinLife
  /\ view.left \in NotGiven..PinLife /\ view.since \in 0..PinLife

\* Nobody was told of a PIN that is yet to come.
PinsOfHost == lastShown.pin <= hostPin /\ statusFile.pin <= hostPin /\ view.pin <= hostPin

\* While the engine waits, the file says what the last beat showed.
FileAsShown ==
  Waits => statusFile.says = "waiting" /\ statusFile.pin = lastShown.pin /\ statusFile.left = lastShown.left

BeatsBehind == (IF locked THEN 1 ELSE 0) + (IF beaten THEN 0 ELSE 1)

\* What a beat showed of the PIN is late by the beat that repeated it and by
\* the second that runs, and by no more than passed since the PIN was set.
ShownIsClose ==
  Waits /\ lastShown.pin = hostPin =>
    lastShown.left - pinLeft \in 0..BeatsBehind /\ lastShown.left - pinLeft <= steady

TimeRuns == Waits /\ steady <= Grace => pinLeft + steady >= HoldSeconds

\* Where no PIN is waited for, no time is given.
NoPinNoTime ==
  /\ lastShown.pin = Dashes => lastShown.left = NotGiven
  /\ statusFile.says # "waiting" \/ statusFile.pin = Dashes => statusFile.left = NotGiven
  /\ view.link # "waiting" => view.left = NotGiven

Counting == view.link = "waiting" /\ Waits /\ view.pin = hostPin /\ view.left # NotGiven

Tells == Countdown - pinLeft \in 0..2

\* The PIN was rearmed and the companion counts on from before that: it has not
\* read since, or what it read was near what it counts from, which ends within
\* four seconds of the first such read.
NotNoticed ==
  /\ view.since >= steady \/ view.since = PinLife
  /\ pinLeft > 0 => pinLeft + steady <= HoldSeconds
  /\ \/ steady <= ReadsBehind
     \/ view.left >= HoldSeconds - MaxUnread - 2 /\ steady <= MaxUnread + 5 + ReadsBehind

ViewCounts == Counting => Tells \/ NotNoticed

CountInv ==
  CountTyped /\ PinsOfHost /\ FileAsShown /\ ShownIsClose /\ TimeRuns /\ NoPinNoTime /\ ViewCounts

LEMMA CountBounds ==
  /\ PinLife \in Nat /\ HoldSeconds \in Nat /\ MaxUnread \in Nat /\ MaxPins \in Nat /\ HoldSeconds <= PinLife
  /\ Grace = 2 * MaxUnread + 6 /\ NotGiven = -1 /\ Dashes = 0
  /\ NothingShown \in Shown /\ NothingShown.pin = 0 /\ NothingShown.left = -1
PROOF BY StatusAssumption DEF Grace, NothingShown, Shown, Pins, Dashes, NotGiven

\* The same of a beat that waits: the file and `last` agree.
LEMMA BeatShows ==
  ASSUME NEW pin, NEW left, NEW last \in Shown, PublishPin(pin, left, last)
  PROVE  /\ statusFile'.says = "waiting" /\ statusFile'.pin = lastShown'.pin /\ statusFile'.left = lastShown'.left
         /\ beaten' = TRUE
         /\ \/ lastShown'.pin = pin /\ lastShown'.left = left /\ locked' = FALSE
            \/ lastShown' = last /\ locked = FALSE /\ locked' = TRUE
PROOF
<1>1. CASE /\ lastShown' = [pin |-> pin, left |-> left] /\ locked' = FALSE
           /\ WriteStatus("waiting", [pin |-> pin, left |-> left])
  BY <1>1 DEF WriteStatus
<1>2. CASE ~locked /\ lastShown' = last /\ locked' = TRUE /\ WriteStatus("waiting", last)
  BY <1>2 DEF WriteStatus
<1> QED BY <1>1, <1>2 DEF PublishPin

\* A PIN is set, a new one or that of the session for the hold: the countdown
\* that runs is then that of another PIN, or has a first read to notice it.
LEMMA PinSetCounts ==
  ASSUME StatusInv, CountInv, NEW pin \in 1..MaxPins, NEW left \in HoldSeconds..PinLife,
         PublishPin(pin, left, NothingShown), hostPin' = pin, pinLeft' = left, steady' = 0,
         viewVars' = viewVars, pin > hostPin \/ (pin = hostPin /\ left = HoldSeconds)
  PROVE  CountInv'
PROOF
<1> USE CountBounds
<1>1. /\ statusFile'.says = "waiting" /\ statusFile'.pin = lastShown'.pin /\ statusFile'.left = lastShown'.left
      /\ \/ lastShown'.pin = pin /\ lastShown'.left = left /\ locked' = FALSE
         \/ lastShown' = NothingShown
      /\ beaten' = TRUE
  BY BeatShows
<1>2. polled' = polled /\ unread' = unread /\ view' = view
  BY DEF viewVars
<1>3. lastShown'.pin \in {0, pin} /\ lastShown'.left \in -1..PinLife
      /\ (lastShown'.pin = pin => lastShown'.left = left /\ ~locked')
  BY <1>1
<1>4. CountTyped'
  BY <1>1, <1>2, <1>3 DEF CountInv, CountTyped
<1>5. PinsOfHost'
  <2>1. view.pin <= hostPin /\ view.pin \in Nat /\ hostPin \in Nat
    BY DEF CountInv, PinsOfHost, StatusInv, StatusTyped, Pins
  <2>2. view'.pin <= hostPin' /\ lastShown'.pin <= hostPin' /\ statusFile'.pin <= hostPin'
    BY <1>1, <1>2, <1>3, <2>1
  <2> QED BY <2>2 DEF PinsOfHost
<1>6. FileAsShown'
  BY <1>1 DEF FileAsShown
<1>7. ShownIsClose'
  BY <1>1, <1>3 DEF ShownIsClose, BeatsBehind
<1>8. TimeRuns'
  BY DEF TimeRuns
<1>10. NoPinNoTime'
  <2>1. lastShown'.pin = 0 => lastShown'.left = -1
    BY <1>1
  <2> QED BY <1>1, <1>2, <2>1 DEF CountInv, NoPinNoTime
<1>9. ViewCounts'
  <2> SUFFICES ASSUME Counting' PROVE NotNoticed'
    BY DEF ViewCounts
  <2>1. left = HoldSeconds
    BY <1>2 DEF Counting, CountInv, PinsOfHost, StatusInv, StatusTyped, Pins
  <2>2. view'.since >= 0 /\ ReadsBehind' \in Nat
    BY <1>2 DEF CountInv, CountTyped, ReadsBehind, StatusInv, StatusTyped
  <2>3. view'.since >= steady' /\ pinLeft' + steady' <= HoldSeconds /\ steady' <= ReadsBehind'
    BY <2>1, <2>2
  <2> QED BY <2>3 DEF NotNoticed
<1> QED BY <1>4, <1>5, <1>6, <1>7, <1>8, <1>9, <1>10 DEF CountInv

LEMMA ListensCounts == ASSUME StatusInv, CountInv, Listens, viewVars' = viewVars PROVE CountInv'
PROOF
<1> USE CountBounds
<1>1. hostPin + 1 \in 1..MaxPins /\ hostPin + 1 > hostPin /\ PinLife \in HoldSeconds..PinLife
  BY DEF Listens, StatusInv, StatusTyped, Pins
<1>2. /\ PublishPin(hostPin + 1, PinLife, NothingShown) /\ hostPin' = hostPin + 1 /\ pinLeft' = PinLife
      /\ steady' = 0
  BY DEF Listens, WaitsFor
<1> QED BY <1>1, <1>2, PinSetCounts

LEMMA StreamLostCounts == ASSUME StatusInv, CountInv, StreamLost PROVE CountInv'
PROOF
<1> USE CountBounds
<1>1. hostPin \in 1..MaxPins /\ HoldSeconds \in HoldSeconds..PinLife
  BY DEF StreamLost, StatusInv, StatusTyped, Pins
<1>2. /\ PublishPin(hostPin, HoldSeconds, NothingShown) /\ hostPin' = hostPin /\ pinLeft' = HoldSeconds
      /\ steady' = 0 /\ viewVars' = viewVars
  BY DEF StreamLost, WaitsFor, viewVars
<1> QED BY <1>1, <1>2, PinSetCounts

LEMMA BeatsCounts == ASSUME StatusInv, CountInv, Beats PROVE CountInv'
PROOF
<1> USE CountBounds
<1>1. /\ host' = host /\ hostPin' = hostPin /\ pinLeft' = pinLeft /\ steady' = steady
      /\ polled' = polled /\ unread' = unread /\ view' = view /\ ~beaten
  BY DEF Beats, viewVars
<1>2. (Waits' <=> Waits) /\ TimeRuns' /\ ViewCounts'
  BY <1>1 DEF CountInv, TimeRuns, ViewCounts, Counting, Tells, NotNoticed, Countdown,
              ReadsBehind, Waits
<1>3. CASE Waits
  <2>1. PublishPin(hostPin, pinLeft, lastShown) /\ lastShown \in Shown
    BY <1>3 DEF Beats, Waits, StatusInv, StatusTyped, Shown
  <2>2. /\ statusFile'.says = "waiting" /\ statusFile'.pin = lastShown'.pin /\ statusFile'.left = lastShown'.left
        /\ beaten' = TRUE
        /\ \/ lastShown'.pin = hostPin /\ lastShown'.left = pinLeft /\ locked' = FALSE
           \/ lastShown' = lastShown /\ locked = FALSE /\ locked' = TRUE
    BY <2>1, BeatShows
  <2>3. CountTyped' /\ PinsOfHost'
    BY <1>1, <2>2 DEF CountInv, CountTyped, PinsOfHost, StatusInv, StatusTyped, Pins
  <2>4. ShownIsClose'
    BY <1>1, <1>2, <2>2 DEF CountInv, CountTyped, ShownIsClose, BeatsBehind
  <2>5. NoPinNoTime'
    <3>1. lastShown'.pin = 0 => lastShown'.left = -1
      BY <1>3, <2>2 DEF Waits, StatusInv, StatusTyped, CountInv, NoPinNoTime
    <3> QED BY <1>1, <2>2, <3>1 DEF CountInv, NoPinNoTime
  <2> QED BY <1>2, <2>2, <2>3, <2>4, <2>5 DEF CountInv, FileAsShown
<1>4. CASE ~Waits
  <2>1. /\ statusFile'.pin = 0 /\ statusFile'.left = -1 /\ lastShown' = lastShown
    BY <1>4 DEF Beats, Waits, WriteStatus
  <2>2. CountTyped' /\ PinsOfHost'
    BY <1>1, <2>1 DEF CountInv, CountTyped, PinsOfHost, StatusInv, StatusTyped, Pins
  <2>3. NoPinNoTime'
    BY <1>1, <2>1 DEF CountInv, NoPinNoTime
  <2> QED BY <1>2, <1>4, <2>2, <2>3 DEF CountInv, FileAsShown, ShownIsClose
<1> QED BY <1>3, <1>4

LEMMA PinRotatesCounts == ASSUME StatusInv, CountInv, PinRotates PROVE CountInv'
PROOF
<1> USE CountBounds
<1>1. /\ Waits /\ host' = host /\ hostPin' = hostPin + 1 /\ pinLeft' \in {PinLife, HoldSeconds} /\ steady' = 0
      /\ lastShown' = lastShown /\ statusFile' = statusFile /\ view' = view
  BY DEF PinRotates, WaitsFor, viewVars, Waits
<1>2. hostPin \in Nat /\ lastShown.pin \in Nat /\ statusFile.pin \in Nat /\ view.pin \in Nat
  BY DEF StatusInv, StatusTyped, Pins
<1>3. CountTyped' /\ PinsOfHost'
  BY <1>1, <1>2 DEF CountInv, CountTyped, PinsOfHost
<1>4. FileAsShown' /\ NoPinNoTime' /\ TimeRuns'
  <2>1. PinLife + 0 >= HoldSeconds /\ HoldSeconds + 0 >= HoldSeconds
    OBVIOUS
  <2>2. pinLeft' + steady' >= HoldSeconds
    BY <1>1, <2>1
  <2> QED BY <1>1, <2>2 DEF CountInv, FileAsShown, NoPinNoTime, TimeRuns
<1>5. lastShown'.pin # hostPin' /\ view'.pin # hostPin'
  BY <1>1, <1>2 DEF CountInv, PinsOfHost
<1>6. ShownIsClose' /\ ViewCounts'
  BY <1>5 DEF ShownIsClose, ViewCounts, Counting
<1> QED BY <1>3, <1>4, <1>6 DEF CountInv

\* The engine no longer waits for anybody, and says so.
LEMMA WaitEndsCounts ==
  ASSUME StatusInv, CountInv, host' \in {"serving", "backoff"}, NEW says, WriteStatus(says, NothingShown),
         UNCHANGED <<hostPin, pinLeft, lastShown, locked, steady, viewVars>>
  PROVE  CountInv'
PROOF
<1> USE CountBounds
<1>1. /\ ~Waits' /\ hostPin' = hostPin /\ pinLeft' = pinLeft /\ steady' = steady /\ lastShown' = lastShown
      /\ view' = view /\ statusFile'.pin = 0 /\ statusFile'.left = -1
  BY DEF viewVars, WriteStatus, Waits
<1>2. CountTyped' /\ PinsOfHost' /\ NoPinNoTime'
  BY <1>1 DEF CountInv, CountTyped, PinsOfHost, NoPinNoTime, StatusInv, StatusTyped, Pins
<1> QED BY <1>1, <1>2 DEF CountInv, FileAsShown, ShownIsClose, TimeRuns, ViewCounts, Counting

LEMMA HostMovesOnCounts ==
  ASSUME CountInv, host' \in {"listening", "handshake", "down"},
         host' # "down" => host \in {"listening", "handshake"},
         UNCHANGED <<hostPin, pinLeft, hostLeft, lastShown, locked, steady, statusFile, fileAge, beaten, viewVars, ago>>
  PROVE  CountInv'
PROOF
<1>1. /\ Waits' => Waits
      /\ hostPin' = hostPin /\ pinLeft' = pinLeft /\ steady' = steady /\ lastShown' = lastShown
      /\ locked' = locked /\ statusFile' = statusFile /\ beaten' = beaten
      /\ polled' = polled /\ unread' = unread /\ view' = view
  BY DEF viewVars, Waits
<1>2. CountTyped' /\ PinsOfHost' /\ NoPinNoTime'
  BY <1>1 DEF CountInv, CountTyped, PinsOfHost, NoPinNoTime
<1>3. FileAsShown' /\ ShownIsClose' /\ TimeRuns'
  BY <1>1 DEF CountInv, FileAsShown, ShownIsClose, TimeRuns, BeatsBehind
<1>4. ViewCounts'
  BY <1>1 DEF CountInv, ViewCounts, Counting, Tells, NotNoticed, Countdown, ReadsBehind
<1> QED BY <1>2, <1>3, <1>4 DEF CountInv

\* What a read takes over: the countdown runs on, or starts from what it read.
LEMMA AppliedCounts ==
  ASSUME StatusInv, CountInv
  PROVE  /\ Applied(statusFile).link = LinkOf(statusFile)
         /\ Applied(statusFile).pin <= hostPin
         /\ Applied(statusFile).link # "disconnected" => Applied(statusFile).pin = statusFile.pin
         /\ Applied(statusFile).left \in NotGiven..PinLife /\ Applied(statusFile).since \in 0..PinLife
         /\ \/ Applied(statusFile).left = statusFile.left /\ Applied(statusFile).since = 0
            \/ /\ Applied(statusFile).left = view.left /\ Applied(statusFile).since = view.since
               /\ statusFile.left # NotGiven /\ view.left # NotGiven /\ statusFile.left - view.left \in -1..1
               /\ LinkOf(statusFile) = "waiting" => view.pin = statusFile.pin
PROOF
<1> USE CountBounds
<1> DEFINE link == LinkOf(statusFile)
           running == /\ statusFile.left # NotGiven /\ view.left # NotGiven
                      /\ ~(link = "waiting" /\ statusFile.pin # view.pin) /\ Near(statusFile.left, view.left)
<1>1. Applied(statusFile) =
        [link |-> link, pin |-> IF link = "disconnected" THEN view.pin ELSE statusFile.pin,
         left |-> IF running THEN view.left ELSE statusFile.left, since |-> IF running THEN view.since ELSE 0]
  BY DEF Applied
<1>2. /\ view.left \in NotGiven..PinLife /\ view.since \in 0..PinLife /\ statusFile.left \in NotGiven..PinLife
      /\ view.pin <= hostPin /\ statusFile.pin <= hostPin
  BY DEF CountInv, CountTyped, PinsOfHost
<1>3. running => /\ statusFile.left # NotGiven /\ view.left # NotGiven /\ statusFile.left - view.left \in -1..1
                 /\ link = "waiting" => view.pin = statusFile.pin
  BY DEF Near
<1> HIDE DEF link, running
<1>4. /\ Applied(statusFile).link = link
      /\ Applied(statusFile).pin = IF link = "disconnected" THEN view.pin ELSE statusFile.pin
      /\ Applied(statusFile).left = IF running THEN view.left ELSE statusFile.left
      /\ Applied(statusFile).since = IF running THEN view.since ELSE 0
  BY <1>1
<1>5. 0 \in 0..PinLife
  OBVIOUS
<1>6. Applied(statusFile).pin <= hostPin /\ Applied(statusFile).left \in NotGiven..PinLife
      /\ Applied(statusFile).since \in 0..PinLife
  BY <1>2, <1>4, <1>5
<1>7. CASE running
  BY <1>3, <1>4, <1>6, <1>7 DEF link
<1>8. CASE ~running
  BY <1>4, <1>6, <1>8 DEF link
<1> QED BY <1>7, <1>8

\* A read that is near what the countdown started from keeps it, but for a PIN
\* that was rearmed only as long as the PIN has the time for it.
LEMMA KeptCounts ==
  ASSUME NEW left \in Int, NEW since \in 0..PinLife, NEW seen \in Int, NEW p \in 0..PinLife, NEW t \in Nat,
         NEW behind \in 1..MaxUnread + 1,
         left <= PinLife, seen - left \in -1..1, seen - p \in 0..2, seen - p <= t,
         t <= Grace => p + t >= HoldSeconds,
         since >= t \/ since = PinLife, p > 0 => p + t <= HoldSeconds,
         \/ t <= behind
         \/ left >= HoldSeconds - MaxUnread - 2 /\ t <= MaxUnread + 5 + behind
  PROVE  \/ (IF left > since THEN left - since ELSE 0) - p \in 0..2
         \/ left >= HoldSeconds - MaxUnread - 2 /\ t <= MaxUnread + 5
PROOF
<1> USE CountBounds
<1>1. CASE p = 0
  <2>1. left <= since + 2
    BY <1>1
  <2> QED BY <1>1, <2>1
<1>2. CASE p > 0
  <2>1. t <= Grace
    OBVIOUS
  <2>2. p + t = HoldSeconds
    BY <1>2, <2>1
  <2>3. left >= HoldSeconds - MaxUnread - 2
    BY <2>2
  <2>4. t <= MaxUnread + 5
    BY <2>2, <2>3
  <2> QED BY <2>3, <2>4
<1> QED BY <1>1, <1>2

LEMMA ReadCounts == ASSUME StatusInv, CountInv, ReadEngineStatus PROVE CountInv'
PROOF
<1> USE CountBounds
<1>1. /\ (Waits' <=> Waits) /\ hostPin' = hostPin /\ pinLeft' = pinLeft /\ steady' = steady
      /\ lastShown' = lastShown /\ locked' = locked /\ statusFile' = statusFile /\ beaten' = beaten
      /\ ~polled /\ polled' = TRUE
  BY DEF ReadEngineStatus, hostVars, Waits
<1>2. FileAsShown' /\ ShownIsClose' /\ TimeRuns'
  BY <1>1 DEF CountInv, FileAsShown, ShownIsClose, TimeRuns, BeatsBehind
<1>3. CASE unread < MaxUnread /\ unread' = unread + 1 /\ view' = view
  <2>1. ReadsBehind' = ReadsBehind
    BY <1>1, <1>3 DEF ReadsBehind, StatusInv, StatusTyped
  <2>2. CountTyped' /\ PinsOfHost' /\ NoPinNoTime'
    BY <1>1, <1>3 DEF CountInv, CountTyped, PinsOfHost, NoPinNoTime
  <2>3. ViewCounts'
    BY <1>1, <1>3, <2>1 DEF CountInv, ViewCounts, Counting, Tells, NotNoticed, Countdown
  <2> QED BY <1>2, <2>2, <2>3 DEF CountInv
<1>4. CASE unread' = 0 /\ view' = Stale
  <2>1. view'.link = "disconnected" /\ view'.left = -1 /\ view'.pin = 0 /\ view'.since = 0
    BY <1>4 DEF Stale
  <2>2. CountTyped' /\ PinsOfHost' /\ NoPinNoTime'
    BY <1>1, <2>1 DEF CountInv, CountTyped, PinsOfHost, NoPinNoTime, StatusInv, StatusTyped, Pins
  <2> QED BY <1>2, <2>1, <2>2 DEF CountInv, ViewCounts, Counting
<1>5. CASE unread' = 0 /\ view' = Applied(statusFile)
  <2>1. /\ view'.link = LinkOf(statusFile) /\ view'.pin <= hostPin
        /\ view'.link # "disconnected" => view'.pin = statusFile.pin
        /\ view'.left \in NotGiven..PinLife /\ view'.since \in 0..PinLife
    BY <1>5, AppliedCounts
  <2>2. \/ view'.left = statusFile.left /\ view'.since = 0
        \/ /\ view'.left = view.left /\ view'.since = view.since
           /\ statusFile.left # NotGiven /\ view.left # NotGiven /\ statusFile.left - view.left \in -1..1
           /\ LinkOf(statusFile) = "waiting" => view.pin = statusFile.pin
    BY <1>5, AppliedCounts
  <2>3. CountTyped' /\ PinsOfHost'
    BY <1>1, <2>1 DEF CountInv, CountTyped, PinsOfHost
  <2>4. NoPinNoTime'
    <3>1. LinkOf(statusFile) # "waiting" => statusFile.left = NotGiven
      BY DEF LinkOf, CountInv, NoPinNoTime
    <3>2. view'.link # "waiting" => view'.left = NotGiven
      BY <2>1, <2>2, <3>1
    <3> QED BY <1>1, <3>2 DEF CountInv, NoPinNoTime
  <2>5. ViewCounts'
    <3> SUFFICES ASSUME Counting' PROVE Tells' \/ NotNoticed'
      BY DEF ViewCounts
    <3>1. /\ Waits /\ LinkOf(statusFile) = "waiting" /\ statusFile.pin = hostPin /\ view'.left # NotGiven
      BY <1>1, <2>1 DEF Counting
    <3>2. /\ statusFile.left - pinLeft \in 0..2 /\ statusFile.left - pinLeft <= steady
      BY <3>1 DEF CountInv, FileAsShown, ShownIsClose, BeatsBehind
    <3>3. pinLeft \in 0..PinLife /\ steady \in Nat /\ statusFile.left \in NotGiven..PinLife
          /\ view.left \in NotGiven..PinLife /\ view.since \in 0..PinLife
      BY DEF CountInv, CountTyped
    <3>4. CASE view'.left = statusFile.left /\ view'.since = 0
      <4>1. Countdown' = statusFile.left
        BY <3>2, <3>3, <3>4 DEF Countdown
      <4> QED BY <1>1, <3>2, <4>1 DEF Tells
    <3>5. CASE /\ view'.left = view.left /\ view'.since = view.since
               /\ statusFile.left # NotGiven /\ view.left # NotGiven /\ statusFile.left - view.left \in -1..1
               /\ view.pin = statusFile.pin
      <4>1. Counting
        BY <3>1, <3>5 DEF CountInv, NoPinNoTime, Counting
      <4>2. CASE Tells
        BY <1>1, <3>5, <4>2 DEF Tells, Countdown
      <4>3. CASE NotNoticed
        <5>1. ReadsBehind \in 1..MaxUnread + 1 /\ ReadsBehind' = 0
          BY <1>1, <1>5 DEF ReadsBehind, StatusInv, StatusTyped
        <5>2. steady <= Grace => pinLeft + steady >= HoldSeconds
          BY <3>1 DEF CountInv, TimeRuns
        <5>3. \/ (IF view.left > view.since THEN view.left - view.since ELSE 0) - pinLeft \in 0..2
              \/ view.left >= HoldSeconds - MaxUnread - 2 /\ steady <= MaxUnread + 5
          <6>1. view.left \in Int /\ statusFile.left \in Int /\ view.left <= PinLife
            BY <3>3
          <6> QED BY <3>2, <3>3, <3>5, <4>3, <5>1, <5>2, <6>1, KeptCounts DEF NotNoticed
        <5> QED BY <1>1, <3>3, <3>5, <4>3, <5>1, <5>3 DEF Tells, Countdown, NotNoticed
      <4> QED BY <4>1, <4>2, <4>3 DEF CountInv, ViewCounts
    <3> QED BY <2>2, <3>1, <3>4, <3>5
  <2> QED BY <1>2, <2>3, <2>4, <2>5 DEF CountInv
<1> QED BY <1>3, <1>4, <1>5 DEF ReadEngineStatus

LEMMA OpensCounts == ASSUME StatusInv, CountInv, Opens PROVE CountInv'
PROOF
<1> USE CountBounds
<1>1. /\ (Waits' <=> Waits) /\ hostPin' = hostPin /\ pinLeft' = pinLeft /\ steady' = steady
      /\ lastShown' = lastShown /\ locked' = locked /\ statusFile' = statusFile /\ beaten' = beaten
      /\ view'.link = "disconnected" /\ view'.left = -1 /\ view'.pin = 0 /\ view'.since = 0
  BY DEF Opens, hostVars, Waits, Stale
<1>2. FileAsShown' /\ ShownIsClose' /\ TimeRuns'
  BY <1>1 DEF CountInv, FileAsShown, ShownIsClose, TimeRuns, BeatsBehind
<1>3. CountTyped' /\ PinsOfHost' /\ NoPinNoTime'
  BY <1>1 DEF CountInv, CountTyped, PinsOfHost, NoPinNoTime, StatusInv, StatusTyped, Pins
<1> QED BY <1>1, <1>2, <1>3 DEF CountInv, ViewCounts, Counting

LEMMA SecondCounts == ASSUME StatusInv, CountInv, SecondPasses PROVE CountInv'
PROOF
<1> USE CountBounds
<1>1. /\ (Waits' <=> Waits) /\ hostPin' = hostPin /\ pinLeft' = Less(pinLeft) /\ steady' = Sooner(steady, Grace + 1)
      /\ lastShown' = lastShown /\ locked' = locked /\ statusFile' = statusFile
      /\ (Waits => beaten) /\ beaten' = FALSE /\ polled = TRUE /\ polled' = FALSE /\ unread' = unread
      /\ view' = [view EXCEPT !.since = Sooner(@, PinLife)]
  BY DEF SecondPasses, Waits, StatusInv, StatusTyped
<1>2. /\ pinLeft \in 0..PinLife /\ steady \in 0..Grace + 1 /\ view.since \in 0..PinLife
      /\ view.left \in -1..PinLife /\ Grace \in Nat
  BY DEF CountInv, CountTyped
<1>3. /\ pinLeft' = IF pinLeft = 0 THEN 0 ELSE pinLeft - 1
      /\ steady' = IF steady < Grace + 1 THEN steady + 1 ELSE steady
  BY <1>1 DEF Less, Sooner
<1>4. /\ view'.link = view.link /\ view'.pin = view.pin /\ view'.left = view.left
      /\ view'.since = IF view.since < PinLife THEN view.since + 1 ELSE view.since
  BY <1>1 DEF StatusInv, StatusTyped, Sooner
<1>5. CountTyped'
  <2>1. pinLeft' \in 0..PinLife /\ steady' \in 0..Grace + 1 /\ view'.since \in 0..PinLife
    BY <1>2, <1>3, <1>4
  <2> QED BY <1>1, <1>4, <2>1 DEF CountInv, CountTyped
<1>6. PinsOfHost' /\ FileAsShown' /\ NoPinNoTime'
  BY <1>1, <1>4 DEF CountInv, PinsOfHost, FileAsShown, NoPinNoTime
<1>7. ShownIsClose'
  <2> SUFFICES ASSUME Waits, lastShown.pin = hostPin
               PROVE  lastShown.left - pinLeft' \in 0..BeatsBehind' /\ lastShown.left - pinLeft' <= steady'
    BY <1>1 DEF ShownIsClose
  <2>1. lastShown.left - pinLeft \in 0..BeatsBehind /\ lastShown.left - pinLeft <= steady
        /\ lastShown.left \in -1..PinLife
    BY DEF CountInv, CountTyped, ShownIsClose
  <2>2. BeatsBehind \in 0..1 /\ BeatsBehind' = BeatsBehind + 1
    BY <1>1 DEF BeatsBehind, StatusInv, StatusTyped
  <2> QED BY <1>2, <1>3, <2>1, <2>2
<1>8. TimeRuns'
  BY <1>1, <1>2, <1>3 DEF CountInv, TimeRuns
<1>9. ViewCounts'
  <2> SUFFICES ASSUME Counting' PROVE Tells' \/ NotNoticed'
    BY DEF ViewCounts
  <2>1. Tells \/ NotNoticed
    BY <1>1, <1>4 DEF CountInv, ViewCounts, Counting
  <2>2. CASE Tells
    <3>1. /\ (IF view.left > view.since THEN view.left - view.since ELSE 0) - pinLeft \in 0..2
      BY <2>2 DEF Tells, Countdown
    <3>2. (IF view'.left > view'.since THEN view'.left - view'.since ELSE 0) - pinLeft' \in 0..2
      BY <1>2, <1>3, <1>4, <3>1
    <3> QED BY <3>2 DEF Tells, Countdown
  <2>3. CASE NotNoticed
    <3>1. ReadsBehind' = ReadsBehind + 1 /\ ReadsBehind \in Nat
      BY <1>1 DEF ReadsBehind, StatusInv, StatusTyped
    <3>2. view'.since >= steady' \/ view'.since = PinLife
      BY <1>2, <1>3, <1>4, <2>3 DEF NotNoticed
    <3>3. pinLeft' > 0 => pinLeft' + steady' <= HoldSeconds
      BY <1>2, <1>3, <2>3 DEF NotNoticed
    <3>4. \/ steady' <= ReadsBehind'
          \/ view'.left >= HoldSeconds - MaxUnread - 2 /\ steady' <= MaxUnread + 5 + ReadsBehind'
      BY <1>2, <1>3, <1>4, <2>3, <3>1 DEF NotNoticed
    <3> QED BY <3>2, <3>3, <3>4 DEF NotNoticed
  <2> QED BY <2>1, <2>2, <2>3
<1> QED BY <1>5, <1>6, <1>7, <1>8, <1>9 DEF CountInv

LEMMA CountInvInit == StatusInit => CountInv
PROOF
<1> USE CountBounds
<1> SUFFICES ASSUME StatusInit PROVE CountInv
  OBVIOUS
<1>1. /\ host = "down" /\ hostPin = 0 /\ pinLeft = 0 /\ steady = 0 /\ lastShown.pin = 0 /\ lastShown.left = -1
      /\ statusFile.says = "nothing" /\ statusFile.pin = 0 /\ statusFile.left = -1
      /\ view.link = "disconnected" /\ view.pin = 0 /\ view.left = -1 /\ view.since = 0
  BY DEF StatusInit, Stale
<1>2. CountTyped /\ PinsOfHost /\ NoPinNoTime
  BY <1>1 DEF CountTyped, PinsOfHost, NoPinNoTime
<1> QED BY <1>1, <1>2 DEF CountInv, FileAsShown, ShownIsClose, TimeRuns, ViewCounts, Counting, Waits

LEMMA CountInvStep == StatusInv /\ CountInv /\ [StatusNext]_statusVars => CountInv'
PROOF
<1> SUFFICES ASSUME StatusInv, CountInv, [StatusNext]_statusVars PROVE CountInv'
  OBVIOUS
<1>1. CASE HostStarts \/ BackoffEnds \/ HoldEnds
  BY <1>1, ListensCounts DEF HostStarts, BackoffEnds, HoldEnds
<1>2. CASE HandshakeBegins \/ HandshakeGivenUp \/ HostStops
  BY <1>2, HostMovesOnCounts DEF HandshakeBegins, HandshakeGivenUp, HostStops
<1>3. CASE ListenerFails
  BY <1>3, WaitEndsCounts DEF ListenerFails
<1>4. CASE StreamBegins
  BY <1>4, WaitEndsCounts DEF StreamBegins
<1>5. CASE Beats \/ PinRotates \/ StreamLost
  BY <1>5, BeatsCounts, PinRotatesCounts, StreamLostCounts
<1>6. CASE ReadEngineStatus \/ Opens \/ SecondPasses
  BY <1>6, ReadCounts, OpensCounts, SecondCounts
<1>7. CASE UNCHANGED statusVars
  <2>1. CountTyped' /\ PinsOfHost' /\ NoPinNoTime' /\ FileAsShown' /\ TimeRuns'
    BY <1>7 DEF statusVars, CountInv, CountTyped, PinsOfHost, NoPinNoTime, FileAsShown, TimeRuns, Waits
  <2>2. ShownIsClose' /\ ViewCounts'
    BY <1>7 DEF statusVars, CountInv, ShownIsClose, BeatsBehind, ViewCounts, Counting, Tells, NotNoticed,
                Countdown, ReadsBehind, Waits
  <2> QED BY <2>1, <2>2 DEF CountInv
<1> QED BY <1>1, <1>2, <1>3, <1>4, <1>5, <1>6, <1>7 DEF StatusNext

\* What the companion shows is recent: a session, a PIN and, once it has noticed
\* that the PIN was rearmed, the seconds the PIN has left; for any lives of PINs
\* and holds, staleness threshold and number of reads missed in a row
\* (apply_parsed_status(), apply_stale_status(), publish_pin_status()).
THEOREM ViewStaysRecent == StatusSpec => []ViewIsRecent
PROOF
<1>1. StatusInv /\ CountInv => CountsDown
  <2> SUFFICES ASSUME StatusInv, CountInv, Counting, steady > Grace PROVE Tells
    BY DEF CountsDown, Counting, Tells
  <2> USE CountBounds
  <2>1. steady \in Nat /\ ReadsBehind \in 0..MaxUnread + 1
    BY DEF CountInv, CountTyped, StatusInv, StatusTyped, ReadsBehind
  <2>2. ~NotNoticed
    BY <2>1 DEF NotNoticed
  <2> QED BY <2>2 DEF CountInv, ViewCounts
<1>2. StatusInv /\ CountInv /\ [StatusNext]_statusVars => CountInv'
  BY CountInvStep
<1>3. PinIsRecent /\ SessionIsRecent /\ CountsDown => ViewIsRecent
  BY DEF ViewIsRecent
<1> QED BY <1>1, <1>2, <1>3, ViewNeverOutdated, CountInvInit, StatusInvInit, StatusInvStep, PTL DEF StatusSpec

-----------------------------------------------------------------------------
(* Scenarios run one after the other, each with its own engine, headset and*)
(* stimulus thread.                                                        *)

HostActive == {"starting", "waiting", "session"}
HeadsetActive == {"connecting", "streaming"}

Runners ==
  [run : 0..MaxScenarios,
   at : {"idle", "engine", "pin", "client", "reset", "pumping", "join", "drop", "report"},
   scenario : [script : Seq(StimulusKinds), checked : BOOLEAN, wrong : BOOLEAN],
   left : SUBSET {"pin", "files"}]

Threads == [left : Seq(StimulusKinds), firing : BOOLEAN, cancelled : BOOLEAN]

Hosts ==
  [state : {"none", "gone"} \cup HostActive, sent : Nat,
   dropped : SUBSET (0..MaxScenarios), delayed : SUBSET (0..MaxScenarios)]

Headsets ==
  [state : {"none", "done", "rejected", "failed"} \cup HeadsetActive, pin : 0..MaxScenarios, last : Nat,
   received : Nat, lost : Int, haptics : SUBSET (0..MaxScenarios)]

Worlds ==
  [loss : 0..MaxScenarios, latency : 0..MaxScenarios, route : 0..MaxScenarios, pin : 0..MaxScenarios,
   files : SUBSET (0..MaxScenarios)]

ScenarioTyped ==
  /\ runner \in Runners /\ (runner.at # "idle" => runner.run \in Scenarios)
  /\ stimuli \in [Scenarios -> Threads]
  /\ hosts \in [Scenarios -> Hosts]
  /\ headsets \in [Scenarios -> Headsets]
  /\ world \in Worlds

\* Threads, engines and clients act only for the scenario that runs, between the
\* step of run_scenario() that starts them and the one that joins or drops them.
Alone(r) ==
  /\ stimuli[r].firing => stimuli[r].left # <<>>
  /\ stimuli[r].left # <<>> => r = runner.run /\ runner.at \in {"client", "reset", "pumping", "join"}
  /\ hosts[r].state \in HostActive =>
       r = runner.run /\ runner.at \in {"pin", "client", "reset", "pumping", "join", "drop"}
  /\ headsets[r].state \in HeadsetActive =>
       r = runner.run /\ runner.at \in {"reset", "pumping", "join"}

\* So what the process has once is the running scenario's, or nobody's, or what it could not delete.
WorldIsCurrent ==
  /\ {world.loss, world.route} \subseteq {Nobody, runner.run}
  /\ "pin" \notin runner.left => world.pin \in {Nobody, runner.run}
  /\ runner.at = "pumping" => world.latency \in {Nobody, runner.run}
  /\ world.route # Nobody => runner.at \in {"reset", "pumping", "join", "drop"}
  /\ runner.scenario.checked /\ "files" \notin runner.left => world.files \subseteq {runner.run}

\* What a scenario measures is its own, and without an injected loss its client
\* has every packet that was sent.
MeasuresItself(r) ==
  /\ hosts[r].dropped \cup headsets[r].haptics \subseteq {r}
  /\ hosts[r].delayed \subseteq {Nobody, r}
  /\ r > runner.run \/ (r = runner.run /\ "pin" \notin runner.left) => headsets[r].pin \in {Nobody, r}
  /\ hosts[r].dropped = {} => headsets[r].last = hosts[r].sent /\ headsets[r].lost = 0

ScenarioInv ==
  /\ ScenarioTyped /\ WorldIsCurrent
  /\ \A r \in Scenarios : Alone(r) /\ MeasuresItself(r)
  /\ "files" \notin runner.left => outcome.counted \subseteq {runner.run}

LEMMA ScenarioInvInit == ScenarioInit => ScenarioInv
PROOF
<1>1. SUFFICES ASSUME ScenarioInit PROVE ScenarioInv
  OBVIOUS
<1>0. MaxScenarios \in Nat
  BY ScenarioAssumption
<1>2. ScenarioTyped
  <2>1. runner \in Runners /\ runner.at = "idle" /\ world \in Worlds
    BY <1>0, <1>1 DEF ScenarioInit, Runners, Worlds, Nobody
  <2>2. stimuli \in [Scenarios -> Threads]
    BY <1>1 DEF ScenarioInit, Threads
  <2>3. hosts \in [Scenarios -> Hosts]
    BY <1>1 DEF ScenarioInit, Hosts, NoHost
  <2>4. headsets \in [Scenarios -> Headsets]
    BY <1>0, <1>1 DEF ScenarioInit, Headsets, NoHeadset, Nobody
  <2> QED BY <2>1, <2>2, <2>3, <2>4 DEF ScenarioTyped
<1>3. WorldIsCurrent
  BY <1>1 DEF ScenarioInit, WorldIsCurrent
<1>4. ASSUME NEW r \in Scenarios PROVE Alone(r) /\ MeasuresItself(r)
  <2>1. stimuli[r].left = <<>> /\ ~stimuli[r].firing /\ hosts[r] = NoHost /\ headsets[r] = NoHeadset
    BY <1>1 DEF ScenarioInit
  <2>2. Alone(r)
    BY <2>1 DEF Alone, NoHost, NoHeadset, HostActive, HeadsetActive
  <2>3. MeasuresItself(r)
    BY <2>1 DEF MeasuresItself, NoHost, NoHeadset
  <2> QED BY <2>2, <2>3
<1>5. outcome.counted \subseteq {runner.run}
  BY <1>1 DEF ScenarioInit, NoReport
<1> QED BY <1>2, <1>3, <1>4, <1>5 DEF ScenarioInv

\* What the invariant says of the scenario that runs and of any other.
LEMMA InvFacts ==
  ASSUME ScenarioInv
  PROVE  /\ runner \in Runners /\ (runner.at # "idle" => runner.run \in Scenarios)
         /\ stimuli \in [Scenarios -> Threads] /\ hosts \in [Scenarios -> Hosts]
         /\ headsets \in [Scenarios -> Headsets] /\ world \in Worlds
         /\ WorldIsCurrent /\ ("files" \notin runner.left => outcome.counted \subseteq {runner.run})
         /\ \A r \in Scenarios : Alone(r)
         /\ \A r \in Scenarios : MeasuresItself(r)
         /\ MaxScenarios \in Nat
PROOF
<1> QED BY ScenarioAssumption DEF ScenarioInv, ScenarioTyped

\* A step of the runner, of which the threads, engines and clients stay as they are.
LEMMA RunnerGoes ==
  ASSUME NEW from, NEW to, ScenarioInv, Goes(from, to), from # "idle",
         to \in {"idle", "engine", "pin", "client", "reset", "pumping", "join", "drop", "report"}
  PROVE  /\ runner.at = from /\ runner.run \in Scenarios
         /\ runner' \in Runners /\ runner'.at = to
         /\ runner'.run = runner.run /\ runner'.scenario = runner.scenario /\ runner'.left = runner.left
PROOF
<1> QED BY InvFacts DEF Goes, Runners

LEMMA BeginScenarioStep == ASSUME ScenarioInv, BeginScenario PROVE ScenarioInv'
PROOF
<1> USE InvFacts
<1>1. PICK scenario \in ScenarioFiles, to \in AfterOverrides, pin \in {Nobody, world.pin}, files \in SUBSET world.files :
        /\ Clean(scenario.checked, pin, files)
        /\ runner' = [run |-> runner.run + 1, at |-> to, scenario |-> scenario,
                      left |-> LeftOver(scenario.checked, pin, files)]
  BY Zenon DEF BeginScenario
<1>2. /\ runner.at = "idle" /\ runner.run < MaxScenarios /\ outcome' = NoReport
      /\ UNCHANGED <<stimuli, hosts, headsets>>
  BY DEF BeginScenario
<1>3. /\ runner.run + 1 \in Scenarios /\ runner.run + 1 \in 0..MaxScenarios
      /\ \A r \in Scenarios : r > runner.run + 1 \/ r = runner.run + 1 => r > runner.run
  BY <1>2 DEF Runners, Scenarios
<1> DEFINE left == LeftOver(scenario.checked, pin, files)
<1>4. /\ left \in SUBSET {"pin", "files"}
      /\ "pin" \notin left => pin = Nobody
      /\ "files" \notin left /\ scenario.checked => files = {}
  BY DEF LeftOver
<1> HIDE DEF left
<1>5. /\ runner' \in Runners /\ runner'.run \in Scenarios /\ runner'.run = runner.run + 1
      /\ runner'.at \in {"engine", "idle"} /\ runner'.scenario = scenario /\ runner'.left = left
  <2>1. runner' = [run |-> runner.run + 1, at |-> to, scenario |-> scenario, left |-> left]
    BY <1>1 DEF left
  <2>2. scenario \in [script : Seq(StimulusKinds), checked : BOOLEAN, wrong : BOOLEAN]
    BY ScenarioAssumption DEF ScenarioFiles
  <2> QED BY <1>3, <1>4, <2>1, <2>2 DEF Runners, AfterOverrides
<1>6. /\ world' \in Worlds /\ world'.pin = pin /\ world'.loss = Nobody
      /\ world'.route = world.route /\ world'.files = files
  <2>1. world \in Worlds /\ 0 \in 0..MaxScenarios
    BY ScenarioAssumption
  <2>2. pin \in 0..MaxScenarios /\ files \in SUBSET (0..MaxScenarios)
    BY <2>1 DEF Worlds, Nobody
  <2>3. world' = [world EXCEPT !.pin = pin, !.loss = Nobody, !.files = files]
    BY <1>1 DEF Clean
  <2> QED BY <2>1, <2>2, <2>3 DEF Worlds, Nobody
<1>7. ScenarioTyped'
  BY <1>2, <1>5, <1>6 DEF ScenarioTyped
<1>8. WorldIsCurrent'
  BY <1>2, <1>4, <1>5, <1>6 DEF WorldIsCurrent
<1>9. ASSUME NEW r \in Scenarios PROVE Alone(r)' /\ MeasuresItself(r)'
  <2>1. Alone(r)'
    BY <1>2 DEF Alone
  <2> QED BY <1>2, <1>3, <1>5, <2>1 DEF MeasuresItself
<1>10. outcome'.counted \subseteq {runner'.run}
  BY <1>2 DEF NoReport
<1> QED BY <1>7, <1>8, <1>9, <1>10 DEF ScenarioInv

LEMMA NewEngineStep == ASSUME ScenarioInv, NewEngine PROVE ScenarioInv'
PROOF
<1> USE InvFacts
<1> DEFINE run == runner.run
<1>1. CASE Goes("engine", "idle") /\ UNCHANGED <<stimuli, hosts, headsets, world, outcome>>
  <2>1. /\ runner.at = "engine" /\ runner' \in Runners /\ runner'.at = "idle"
        /\ runner'.run = run /\ runner'.scenario = runner.scenario /\ runner'.left = runner.left
    BY <1>1, RunnerGoes
  <2>2. ScenarioTyped' /\ WorldIsCurrent'
    BY <1>1, <2>1 DEF ScenarioTyped, WorldIsCurrent
  <2>3. \A r \in Scenarios : Alone(r)' /\ MeasuresItself(r)'
    BY <1>1, <2>1 DEF Alone, MeasuresItself
  <2> QED BY <1>1, <2>1, <2>2, <2>3 DEF ScenarioInv
<1>2. CASE /\ Goes("engine", "pin")
           /\ hosts' = [hosts EXCEPT ![run].state = "starting"]
           /\ world' = [world EXCEPT !.files = @ \cup {run}]
           /\ UNCHANGED <<stimuli, headsets, outcome>>
  <2>1. /\ runner.at = "engine" /\ run \in Scenarios /\ runner' \in Runners /\ runner'.at = "pin"
        /\ runner'.run = run /\ runner'.scenario = runner.scenario /\ runner'.left = runner.left
    BY <1>2, RunnerGoes
  <2>2. /\ hosts' \in [Scenarios -> Hosts]
        /\ \A r \in Scenarios : r # run => hosts'[r] = hosts[r]
        /\ hosts'[run].dropped = hosts[run].dropped /\ hosts'[run].delayed = hosts[run].delayed
        /\ hosts'[run].sent = hosts[run].sent
    BY <1>2, <2>1 DEF Hosts, HostActive
  <2>3. /\ world' \in Worlds /\ world'.loss = world.loss /\ world'.pin = world.pin
        /\ world'.route = world.route /\ world'.files = world.files \cup {run}
    BY <1>2, <2>1 DEF Worlds, Runners
  <2>4. ScenarioTyped' /\ WorldIsCurrent'
    BY <1>2, <2>1, <2>2, <2>3 DEF ScenarioTyped, WorldIsCurrent
  <2>5. ASSUME NEW r \in Scenarios PROVE Alone(r)' /\ MeasuresItself(r)'
    <3>1. Alone(r)'
      BY <1>2, <2>1, <2>2 DEF Alone
    <3>2. MeasuresItself(r)'
      BY <1>2, <2>1, <2>2 DEF MeasuresItself
    <3> QED BY <3>1, <3>2
  <2> QED BY <1>2, <2>1, <2>4, <2>5 DEF ScenarioInv
<1> QED BY <1>1, <1>2 DEF NewEngine

LEMMA PinFoundStep == ASSUME ScenarioInv, PinFound PROVE ScenarioInv'
PROOF
<1> USE InvFacts
<1> DEFINE run == runner.run
<1>1. /\ world.pin # Nobody /\ Goes("pin", "client")
      /\ headsets' = [headsets EXCEPT ![run].pin = world.pin]
      /\ stimuli' = [stimuli EXCEPT ![run].left = runner.scenario.script]
      /\ UNCHANGED <<hosts, world, outcome>>
  BY DEF PinFound
<1>2. /\ runner.at = "pin" /\ run \in Scenarios /\ runner' \in Runners /\ runner'.at = "client"
      /\ runner'.run = run /\ runner'.scenario = runner.scenario /\ runner'.left = runner.left
  BY <1>1, RunnerGoes
<1>3. ("pin" \notin runner.left => world.pin = run) /\ world.pin \in 0..MaxScenarios
  BY <1>1 DEF WorldIsCurrent, Worlds
<1>4. /\ headsets' \in [Scenarios -> Headsets]
      /\ \A r \in Scenarios : r # run => headsets'[r] = headsets[r]
      /\ headsets'[run] = [headsets[run] EXCEPT !.pin = world.pin]
  BY <1>1, <1>2, <1>3 DEF Headsets
<1>5. runner.scenario.script \in Seq(StimulusKinds)
  BY DEF Runners
<1>6. /\ stimuli' \in [Scenarios -> Threads]
      /\ \A r \in Scenarios : r # run => stimuli'[r] = stimuli[r]
      /\ stimuli'[run].firing = stimuli[run].firing
  BY <1>1, <1>2, <1>5 DEF Threads
<1>7. ScenarioTyped' /\ WorldIsCurrent'
  BY <1>1, <1>2, <1>4, <1>6 DEF ScenarioTyped, WorldIsCurrent
<1>8. stimuli[run].left = <<>> /\ ~stimuli[run].firing
  BY <1>2 DEF Alone
<1>9. headsets'[run].state = headsets[run].state /\ headsets'[run].haptics = headsets[run].haptics
       /\ headsets'[run].last = headsets[run].last /\ headsets'[run].lost = headsets[run].lost
       /\ headsets'[run].pin = world.pin
  BY <1>2, <1>4 DEF Headsets
<1>10. ASSUME NEW r \in Scenarios PROVE Alone(r)' /\ MeasuresItself(r)'
  <2>1. Alone(r)'
    BY <1>1, <1>2, <1>4, <1>6, <1>8, <1>9 DEF Alone
  <2>2. MeasuresItself(r)'
    BY <1>1, <1>2, <1>3, <1>4, <1>9 DEF MeasuresItself, Scenarios
  <2> QED BY <2>1, <2>2
<1> QED BY <1>1, <1>2, <1>7, <1>10 DEF ScenarioInv

\* An engine that is dropped takes its route along.
LEMMA EngineDropped ==
  ASSUME ScenarioInv, NEW from, NEW to, Goes(from, to), from \in {"pin", "drop"}, to \in {"idle", "report"},
         hosts' = [hosts EXCEPT ![runner.run].state = "gone"],
         world' = Unrouted(runner.run), UNCHANGED <<stimuli, headsets, outcome>>
  PROVE  ScenarioInv'
PROOF
<1> USE InvFacts
<1> DEFINE run == runner.run
<1>1. /\ runner.at = from /\ run \in Scenarios /\ runner' \in Runners /\ runner'.at = to
      /\ runner'.run = run /\ runner'.scenario = runner.scenario /\ runner'.left = runner.left
  BY RunnerGoes
<1>2. /\ hosts' \in [Scenarios -> Hosts]
      /\ \A r \in Scenarios : r # run => hosts'[r] = hosts[r]
      /\ hosts'[run].dropped = hosts[run].dropped /\ hosts'[run].delayed = hosts[run].delayed
      /\ hosts'[run].sent = hosts[run].sent /\ hosts'[run].state = "gone"
  BY <1>1 DEF Hosts
<1>3. /\ world' \in Worlds /\ world'.loss = world.loss /\ world'.pin = world.pin
      /\ world'.files = world.files /\ world'.route = Nobody
  <2>1. world.route \in {Nobody, run}
    BY DEF WorldIsCurrent
  <2>2. 0 \in 0..MaxScenarios
    OBVIOUS
  <2>3. CASE world.route = run
    BY <2>2, <2>3 DEF Unrouted, Worlds, Nobody
  <2>4. CASE world.route = Nobody
    BY <2>2, <2>4 DEF Unrouted, Worlds, Nobody
  <2> QED BY <2>1, <2>3, <2>4
<1>4. ScenarioTyped'
  BY <1>1, <1>2, <1>3 DEF ScenarioTyped
<1>5. WorldIsCurrent'
  BY <1>1, <1>3 DEF WorldIsCurrent
<1>6. ASSUME NEW r \in Scenarios PROVE Alone(r)' /\ MeasuresItself(r)'
  <2>1. Alone(r)'
    BY <1>1, <1>2 DEF Alone, HostActive
  <2>2. MeasuresItself(r)'
    BY <1>1, <1>2 DEF MeasuresItself
  <2> QED BY <2>1, <2>2
<1> QED BY <1>1, <1>4, <1>5, <1>6 DEF ScenarioInv

LEMMA StartClientStep == ASSUME ScenarioInv, StartClient PROVE ScenarioInv'
PROOF
<1> USE InvFacts
<1> DEFINE run == runner.run
<1>1. /\ Goes("client", "reset")
      /\ headsets' = [headsets EXCEPT ![run].state = "connecting"]
      /\ UNCHANGED <<stimuli, hosts, world, outcome>>
  BY DEF StartClient
<1>2. /\ runner.at = "client" /\ run \in Scenarios /\ runner' \in Runners /\ runner'.at = "reset"
      /\ runner'.run = run /\ runner'.scenario = runner.scenario /\ runner'.left = runner.left
  BY <1>1, RunnerGoes
<1>3. /\ headsets' \in [Scenarios -> Headsets]
      /\ \A r \in Scenarios : r # run => headsets'[r] = headsets[r]
      /\ headsets'[run].haptics = headsets[run].haptics /\ headsets'[run].pin = headsets[run].pin
      /\ headsets'[run].last = headsets[run].last /\ headsets'[run].lost = headsets[run].lost
  BY <1>1, <1>2 DEF Headsets, HeadsetActive
<1>4. ScenarioTyped' /\ WorldIsCurrent'
  BY <1>1, <1>2, <1>3 DEF ScenarioTyped, WorldIsCurrent
<1>5. ASSUME NEW r \in Scenarios PROVE Alone(r)' /\ MeasuresItself(r)'
  <2>1. Alone(r)'
    BY <1>1, <1>2, <1>3 DEF Alone
  <2>2. MeasuresItself(r)'
    BY <1>1, <1>2, <1>3 DEF MeasuresItself
  <2> QED BY <2>1, <2>2
<1> QED BY <1>1, <1>2, <1>4, <1>5 DEF ScenarioInv

LEMMA ResetLatencyStep == ASSUME ScenarioInv, ResetLatency PROVE ScenarioInv'
PROOF
<1> USE InvFacts
<1>1. /\ Goes("reset", "pumping") /\ world' = [world EXCEPT !.latency = Nobody]
      /\ UNCHANGED <<stimuli, hosts, headsets, outcome>>
  BY DEF ResetLatency
<1>2. /\ runner.at = "reset" /\ runner.run \in Scenarios /\ runner' \in Runners /\ runner'.at = "pumping"
      /\ runner'.run = runner.run /\ runner'.scenario = runner.scenario /\ runner'.left = runner.left
  BY <1>1, RunnerGoes
<1>3. /\ world' \in Worlds /\ world'.latency = Nobody /\ world'.loss = world.loss
      /\ world'.pin = world.pin /\ world'.route = world.route /\ world'.files = world.files
  BY <1>1 DEF Worlds, Nobody
<1>4. ScenarioTyped' /\ WorldIsCurrent'
  BY <1>1, <1>2, <1>3 DEF ScenarioTyped, WorldIsCurrent
<1>5. \A r \in Scenarios : Alone(r)'
  BY <1>1, <1>2 DEF Alone
<1>6. \A r \in Scenarios : MeasuresItself(r)'
  BY <1>1, <1>2 DEF MeasuresItself
<1> QED BY <1>1, <1>2, <1>4, <1>5, <1>6 DEF ScenarioInv

LEMMA WindowEndsStep == ASSUME ScenarioInv, WindowEnds PROVE ScenarioInv'
PROOF
<1> USE InvFacts
<1> DEFINE run == runner.run
<1>1. /\ Goes("pumping", "join") /\ stimuli' = [stimuli EXCEPT ![run].cancelled = TRUE]
      /\ UNCHANGED <<hosts, headsets, world, outcome>>
  BY DEF WindowEnds
<1>2. /\ runner.at = "pumping" /\ run \in Scenarios /\ runner' \in Runners /\ runner'.at = "join"
      /\ runner'.run = run /\ runner'.scenario = runner.scenario /\ runner'.left = runner.left
  BY <1>1, RunnerGoes
<1>3. /\ stimuli' \in [Scenarios -> Threads]
      /\ \A r \in Scenarios : stimuli'[r].left = stimuli[r].left /\ stimuli'[r].firing = stimuli[r].firing
  BY <1>1, <1>2 DEF Threads
<1>4. ScenarioTyped' /\ WorldIsCurrent'
  BY <1>1, <1>2, <1>3 DEF ScenarioTyped, WorldIsCurrent
<1>5. \A r \in Scenarios : Alone(r)'
  BY <1>1, <1>2, <1>3 DEF Alone
<1>6. \A r \in Scenarios : MeasuresItself(r)'
  BY <1>1, <1>2 DEF MeasuresItself
<1> QED BY <1>1, <1>2, <1>4, <1>5, <1>6 DEF ScenarioInv

\* The join is what keeps a scenario's stimuli out of the next one.
LEMMA JoinThreadsStep == ASSUME ScenarioInv, JoinThreads PROVE ScenarioInv'
PROOF
<1> USE InvFacts
<1>1. /\ Goes("join", "drop") /\ Joined(runner.run) /\ stimuli[runner.run].left = <<>>
      /\ UNCHANGED <<stimuli, hosts, headsets, world, outcome>>
  BY DEF JoinThreads
<1>2. /\ runner.at = "join" /\ runner.run \in Scenarios /\ runner' \in Runners /\ runner'.at = "drop"
      /\ runner'.run = runner.run /\ runner'.scenario = runner.scenario /\ runner'.left = runner.left
  BY <1>1, RunnerGoes
<1>3. ScenarioTyped' /\ WorldIsCurrent'
  BY <1>1, <1>2 DEF ScenarioTyped, WorldIsCurrent
<1>4. headsets[runner.run].state \notin HeadsetActive
  BY <1>1 DEF Joined, HeadsetActive
<1>5. \A r \in Scenarios : Alone(r)'
  BY <1>1, <1>2, <1>4 DEF Alone
<1>6. \A r \in Scenarios : MeasuresItself(r)'
  BY <1>1, <1>2 DEF MeasuresItself
<1> QED BY <1>1, <1>2, <1>3, <1>5, <1>6 DEF ScenarioInv

LEMMA ReportStep == ASSUME ScenarioInv, Report PROVE ScenarioInv'
PROOF
<1> USE InvFacts
<1>1. /\ Goes("report", "idle") /\ outcome'.counted \in {CountedFiles, {}}
      /\ UNCHANGED <<stimuli, hosts, headsets, world>>
  BY DEF Report
<1>2. /\ runner.at = "report" /\ runner.run \in Scenarios /\ runner' \in Runners /\ runner'.at = "idle"
      /\ runner'.run = runner.run /\ runner'.scenario = runner.scenario /\ runner'.left = runner.left
  BY <1>1, RunnerGoes
<1>3. ScenarioTyped' /\ WorldIsCurrent'
  BY <1>1, <1>2 DEF ScenarioTyped, WorldIsCurrent
<1>4. \A r \in Scenarios : Alone(r)'
  BY <1>1, <1>2 DEF Alone
<1>5. \A r \in Scenarios : MeasuresItself(r)'
  BY <1>1, <1>2 DEF MeasuresItself
<1>6. "files" \notin runner.left => CountedFiles \subseteq {runner.run}
  BY DEF CountedFiles, WorldIsCurrent
<1> QED BY <1>1, <1>2, <1>3, <1>4, <1>5, <1>6 DEF ScenarioInv

LEMMA PumpFrameStep == ASSUME ScenarioInv, PumpFrame PROVE ScenarioInv'
PROOF
<1> USE InvFacts
<1> DEFINE run == runner.run
<1> DEFINE mine == hosts[run]
<1> DEFINE delayed == [mine EXCEPT !.delayed = @ \cup {world.latency}]
<1> DEFINE lost == [delayed EXCEPT !.sent = @ + 1, !.dropped = @ \cup {world.loss}]
<1> DEFINE sent == [delayed EXCEPT !.sent = @ + 1]
<1> DEFINE got == Received(headsets[run], mine.sent + 1)
<1>1. /\ runner.at = "pumping" /\ run \in Scenarios
      /\ UNCHANGED <<runner, stimuli, world, outcome>>
      /\ \/ hosts' = [hosts EXCEPT ![run] = delayed] /\ headsets' = headsets
         \/ world.loss # Nobody /\ hosts' = [hosts EXCEPT ![run] = lost] /\ headsets' = headsets
         \/ hosts' = [hosts EXCEPT ![run] = sent] /\ headsets' = [headsets EXCEPT ![run] = got]
  <2>1. runner.at = "pumping" /\ UNCHANGED <<runner, stimuli, world, outcome>>
    BY DEF PumpFrame
  <2>2. run \in Scenarios
    BY <2>1
  <2>3. headsets' = [headsets EXCEPT ![run] = Received(@, mine.sent + 1)] => headsets' = [headsets EXCEPT ![run] = got]
    BY <2>2
  <2> QED BY <2>1, <2>2, <2>3 DEF PumpFrame
<1>2. world.latency \in {Nobody, run} /\ world.loss \in {Nobody, run} /\ world.latency \in 0..MaxScenarios
       /\ world.loss \in 0..MaxScenarios
  BY <1>1 DEF WorldIsCurrent, Worlds
<1>3. mine \in Hosts /\ headsets[run] \in Headsets /\ MeasuresItself(run) /\ Alone(run)
  BY <1>1
<1>4. /\ delayed \in Hosts /\ delayed.state = mine.state /\ delayed.sent = mine.sent
      /\ delayed.dropped = mine.dropped /\ delayed.delayed = mine.delayed \cup {world.latency}
  BY <1>2, <1>3 DEF Hosts
<1> HIDE DEF delayed
<1>a. delayed.sent + 1 \in Nat /\ delayed.dropped \cup {world.loss} \in SUBSET (0..MaxScenarios)
  BY <1>2, <1>4 DEF Hosts
<1>5. /\ lost \in Hosts /\ lost.state = mine.state /\ lost.dropped = mine.dropped \cup {world.loss}
      /\ lost.delayed = mine.delayed \cup {world.latency}
  BY <1>4, <1>a DEF Hosts
<1>6. /\ sent \in Hosts /\ sent.state = mine.state /\ sent.sent = mine.sent + 1
      /\ sent.dropped = mine.dropped /\ sent.delayed = mine.delayed \cup {world.latency}
  BY <1>4, <1>a DEF Hosts
<1>7. /\ got \in Headsets /\ got.state = headsets[run].state /\ got.pin = headsets[run].pin
      /\ got.haptics = headsets[run].haptics /\ got.last = mine.sent + 1
      /\ got.lost = IF headsets[run].last = 0 THEN headsets[run].lost
                    ELSE headsets[run].lost + mine.sent + 1 - 1 - headsets[run].last
  <2>1. mine.sent \in Nat /\ headsets[run].last \in Nat /\ headsets[run].lost \in Int
    BY <1>3 DEF Hosts, Headsets
  <2> DEFINE h == headsets[run]
  <2> DEFINE gap == IF h.last = 0 THEN h.lost ELSE h.lost + mine.sent + 1 - 1 - h.last
  <2>2. h \in Headsets /\ h.received + 1 \in Nat /\ mine.sent + 1 \in Nat /\ gap \in Int
    BY <1>3, <2>1 DEF Headsets
  <2>3. got = [h EXCEPT !.received = h.received + 1, !.last = mine.sent + 1, !.lost = gap]
    <3>1. mine.sent + 1 - 1 = mine.sent /\ h.lost + (mine.sent + 1) - 1 - h.last = h.lost + mine.sent + 1 - 1 - h.last
      BY <2>1
    <3> QED BY <3>1 DEF Received
  <2> HIDE DEF gap, h, got
  <2>4. /\ got \in Headsets /\ got.state = h.state /\ got.pin = h.pin
        /\ got.haptics = h.haptics /\ got.last = mine.sent + 1 /\ got.lost = gap
    BY <2>2, <2>3 DEF Headsets
  <2> QED BY <2>4 DEF gap, h
<1> HIDE DEF lost, sent, got
<1>8. /\ hosts' \in [Scenarios -> Hosts] /\ headsets' \in [Scenarios -> Headsets]
      /\ \A r \in Scenarios : r # run => hosts'[r] = hosts[r] /\ headsets'[r] = headsets[r]
      /\ hosts'[run].state = mine.state /\ headsets'[run].state = headsets[run].state
  BY <1>1, <1>4, <1>5, <1>6, <1>7
<1>9. ScenarioTyped' /\ WorldIsCurrent'
  BY <1>1, <1>8 DEF ScenarioTyped, WorldIsCurrent
<1>10. \A r \in Scenarios : Alone(r)'
  BY <1>1, <1>8 DEF Alone
<1>11. MeasuresItself(run)'
  <2>0. /\ mine.dropped \cup headsets[run].haptics \subseteq {run}
        /\ mine.delayed \subseteq {Nobody, run}
        /\ run > run \/ (run = run /\ "pin" \notin runner.left) => headsets[run].pin \in {Nobody, run}
        /\ mine.dropped = {} => headsets[run].last = mine.sent /\ headsets[run].lost = 0
    BY <1>3 DEF MeasuresItself
  <2>1. CASE hosts' = [hosts EXCEPT ![run] = delayed] /\ headsets' = headsets
    <3>1. hosts'[run] = delayed /\ headsets'[run] = headsets[run]
      BY <1>1, <2>1
    <3> QED BY <1>1, <1>2, <1>4, <2>0, <3>1 DEF MeasuresItself
  <2>2. CASE world.loss # Nobody /\ hosts' = [hosts EXCEPT ![run] = lost] /\ headsets' = headsets
    <3>1. hosts'[run] = lost /\ headsets'[run] = headsets[run]
      BY <1>1, <2>2
    <3> QED BY <1>1, <1>2, <1>5, <2>0, <2>2, <3>1 DEF MeasuresItself
  <2>3. CASE hosts' = [hosts EXCEPT ![run] = sent] /\ headsets' = [headsets EXCEPT ![run] = got]
    <3>1. hosts'[run] = sent /\ headsets'[run] = got
      BY <1>1, <2>3
    <3>2. mine.sent \in Nat /\ headsets[run].last \in Nat /\ headsets[run].lost \in Int
      BY <1>3 DEF Hosts, Headsets
    <3>3. mine.dropped = {} => got.lost = 0
      BY <1>7, <2>0, <3>2
    <3> QED BY <1>1, <1>2, <1>6, <1>7, <2>0, <3>1, <3>3 DEF MeasuresItself
  <2> QED BY <1>1, <2>1, <2>2, <2>3
<1>12. ASSUME NEW r \in Scenarios, r # run PROVE MeasuresItself(r)'
  BY <1>1, <1>8, <1>12 DEF MeasuresItself
<1> QED BY <1>1, <1>9, <1>10, <1>11, <1>12 DEF ScenarioInv

LEMMA StimulusDueStep == ASSUME ScenarioInv, NEW s \in Scenarios, StimulusDue(s) PROVE ScenarioInv'
PROOF
<1> USE InvFacts
<1>1. /\ stimuli[s].left # <<>> /\ UNCHANGED <<runner, hosts, headsets, world, outcome>>
      /\ \/ stimuli' = [stimuli EXCEPT ![s] = [@ EXCEPT !.left = <<>>]] /\ ~stimuli[s].firing
         \/ stimuli' = [stimuli EXCEPT ![s] = [@ EXCEPT !.firing = TRUE]]
  BY DEF StimulusDue
<1>a. stimuli[s] \in Threads /\ <<>> \in Seq(StimulusKinds)
  OBVIOUS
<1>2. /\ stimuli' \in [Scenarios -> Threads]
      /\ \A r \in Scenarios : r # s => stimuli'[r] = stimuli[r]
      /\ stimuli'[s].firing => stimuli'[s].left # <<>>
  <2>1. CASE stimuli' = [stimuli EXCEPT ![s] = [@ EXCEPT !.left = <<>>]] /\ ~stimuli[s].firing
    <3>1. stimuli'[s] = [stimuli[s] EXCEPT !.left = <<>>]
      BY <2>1
    <3>2. stimuli'[s] \in Threads /\ ~stimuli'[s].firing
      BY <1>a, <2>1, <3>1 DEF Threads
    <3> QED BY <2>1, <3>2
  <2>2. CASE stimuli' = [stimuli EXCEPT ![s] = [@ EXCEPT !.firing = TRUE]]
    <3>1. stimuli'[s] = [stimuli[s] EXCEPT !.firing = TRUE]
      BY <2>2
    <3>2. stimuli'[s] \in Threads /\ stimuli'[s].left = stimuli[s].left
      BY <1>a, <3>1 DEF Threads
    <3> QED BY <1>1, <2>2, <3>2
  <2> QED BY <1>1, <2>1, <2>2
<1>3. ScenarioTyped' /\ WorldIsCurrent'
  BY <1>1, <1>2 DEF ScenarioTyped, WorldIsCurrent
<1>4. \A r \in Scenarios : Alone(r)'
  BY <1>1, <1>2 DEF Alone
<1>5. \A r \in Scenarios : MeasuresItself(r)'
  BY <1>1 DEF MeasuresItself
<1> QED BY <1>1, <1>3, <1>4, <1>5 DEF ScenarioInv

LEMMA FireStep == ASSUME ScenarioInv, NEW s \in Scenarios, Fire(s) PROVE ScenarioInv'
PROOF
<1> USE InvFacts
<1> DEFINE stimulus == Head(stimuli[s].left)
<1>1. /\ stimuli[s].firing
      /\ stimuli' = [stimuli EXCEPT ![s].left = Tail(@), ![s].firing = FALSE]
      /\ world' = CASE stimulus = "loss" -> [world EXCEPT !.loss = s]
                    [] stimulus = "noLoss" -> [world EXCEPT !.loss = Nobody]
                    [] stimulus = "latency" -> [world EXCEPT !.latency = s]
                    [] stimulus = "noLatency" -> [world EXCEPT !.latency = Nobody]
                    [] stimulus = "haptic" -> world
      /\ \/ /\ world.route # Nobody /\ headsets[world.route].state = "streaming"
            /\ headsets' = [headsets EXCEPT ![world.route] = Captured(@, s)]
         \/ headsets' = headsets
      /\ UNCHANGED <<runner, hosts, outcome>>
  BY DEF Fire
<1>2. stimuli[s].left # <<>> /\ s = runner.run /\ runner.at \in {"client", "reset", "pumping", "join"}
  BY <1>1 DEF Alone
<1>3. stimuli[s].left \in Seq(StimulusKinds)
  BY DEF Threads
<1>4. Tail(stimuli[s].left) \in Seq(StimulusKinds) /\ stimulus \in StimulusKinds
  BY <1>2, <1>3
<1> HIDE DEF stimulus
<1>5. /\ stimuli' \in [Scenarios -> Threads]
      /\ \A r \in Scenarios : r # s => stimuli'[r] = stimuli[r]
      /\ ~stimuli'[s].firing
  BY <1>1, <1>4 DEF Threads
<1>6. /\ world' \in Worlds /\ world'.loss \in {world.loss, s, Nobody} /\ world'.latency \in {world.latency, s, Nobody}
      /\ world'.pin = world.pin /\ world'.route = world.route /\ world'.files = world.files
  <2>0. s \in 0..MaxScenarios /\ Nobody \in 0..MaxScenarios
    BY DEF Scenarios, Nobody
  <2>1. CASE stimulus = "loss" BY <1>1, <2>0, <2>1 DEF Worlds
  <2>2. CASE stimulus = "noLoss" BY <1>1, <2>0, <2>2 DEF Worlds
  <2>3. CASE stimulus = "latency" BY <1>1, <2>0, <2>3 DEF Worlds
  <2>4. CASE stimulus = "noLatency" BY <1>1, <2>0, <2>4 DEF Worlds
  <2>5. CASE stimulus = "haptic" BY <1>1, <2>5
  <2> QED BY <1>4, <2>1, <2>2, <2>3, <2>4, <2>5 DEF StimulusKinds
<1>7. /\ headsets' \in [Scenarios -> Headsets]
      /\ \A r \in Scenarios : r # s => headsets'[r] = headsets[r]
      /\ headsets'[s].state = headsets[s].state /\ headsets'[s].pin = headsets[s].pin
      /\ headsets'[s].last = headsets[s].last /\ headsets'[s].lost = headsets[s].lost
      /\ headsets'[s].haptics \subseteq headsets[s].haptics \cup {s}
  <2>1. CASE headsets' = headsets
    BY <2>1
  <2>2. CASE world.route # Nobody /\ headsets' = [headsets EXCEPT ![world.route] = Captured(@, s)]
    <3>1. world.route = s
      BY <1>2, <2>2 DEF WorldIsCurrent
    <3>2. headsets'[s] = [headsets[s] EXCEPT !.haptics = @ \cup {s}]
      BY <2>2, <3>1 DEF Captured
    <3>3. \A r \in Scenarios : r # s => headsets'[r] = headsets[r]
      BY <2>2, <3>1
    <3>4. headsets[s] \in Headsets /\ s \in 0..MaxScenarios
      BY DEF Scenarios
    <3>5. headsets'[s] \in Headsets
      BY <3>2, <3>4 DEF Headsets
    <3>6. headsets' \in [Scenarios -> Headsets]
      BY <2>2, <3>1, <3>2, <3>5
    <3> QED BY <3>2, <3>3, <3>4, <3>6 DEF Headsets
  <2> QED BY <1>1, <2>1, <2>2
<1>8. ScenarioTyped'
  BY <1>1, <1>5, <1>6, <1>7 DEF ScenarioTyped
<1>9. WorldIsCurrent'
  BY <1>1, <1>2, <1>6 DEF WorldIsCurrent
<1>10. \A r \in Scenarios : Alone(r)'
  BY <1>1, <1>2, <1>5, <1>7 DEF Alone
<1>11. ASSUME NEW r \in Scenarios PROVE MeasuresItself(r)'
  <2>1. CASE r = s
    BY <1>1, <1>7, <2>1 DEF MeasuresItself
  <2>2. CASE r # s
    BY <1>1, <1>7, <2>2 DEF MeasuresItself
  <2> QED BY <2>1, <2>2
<1> QED BY <1>1, <1>8, <1>9, <1>10, <1>11 DEF ScenarioInv

LEMMA PublishesPinStep == ASSUME ScenarioInv, NEW s \in Scenarios, PublishesPin(s) PROVE ScenarioInv'
PROOF
<1> USE InvFacts
<1>1. /\ hosts[s].state \in {"starting", "waiting"}
      /\ hosts' = [hosts EXCEPT ![s].state = "waiting"] /\ world' = [world EXCEPT !.pin = s]
      /\ UNCHANGED <<runner, stimuli, headsets, outcome>>
  BY DEF PublishesPin
<1>2. s = runner.run /\ runner.at \in {"pin", "client", "reset", "pumping", "join", "drop"}
  BY <1>1 DEF Alone, HostActive
<1>3. /\ hosts' \in [Scenarios -> Hosts]
      /\ \A r \in Scenarios : r # s => hosts'[r] = hosts[r]
      /\ hosts'[s].dropped = hosts[s].dropped /\ hosts'[s].delayed = hosts[s].delayed
      /\ hosts'[s].sent = hosts[s].sent
  BY <1>1 DEF Hosts, HostActive
<1>4. s \in 0..MaxScenarios
  BY DEF Scenarios
<1>5. /\ world' \in Worlds /\ world'.pin = s /\ world'.loss = world.loss /\ world'.latency = world.latency
      /\ world'.route = world.route /\ world'.files = world.files
  BY <1>1, <1>4 DEF Worlds
<1>6. ScenarioTyped'
  BY <1>1, <1>3, <1>5 DEF ScenarioTyped
<1>7. WorldIsCurrent'
  BY <1>1, <1>2, <1>5 DEF WorldIsCurrent
<1>8. \A r \in Scenarios : Alone(r)'
  BY <1>1, <1>2, <1>3 DEF Alone
<1>9. \A r \in Scenarios : MeasuresItself(r)'
  BY <1>1, <1>3 DEF MeasuresItself
<1> QED BY <1>1, <1>6, <1>7, <1>8, <1>9 DEF ScenarioInv

\* A client's new state touches nothing that it measured.
LEMMA HeadsetGoes ==
  ASSUME ScenarioInv, NEW s \in Scenarios, NEW to \in {"done", "rejected", "failed"} \cup HeadsetActive,
         headsets' = [headsets EXCEPT ![s].state = to]
  PROVE  /\ headsets' \in [Scenarios -> Headsets]
         /\ \A r \in Scenarios : r # s => headsets'[r] = headsets[r]
         /\ headsets'[s].state = to /\ headsets'[s].pin = headsets[s].pin
         /\ headsets'[s].last = headsets[s].last /\ headsets'[s].lost = headsets[s].lost
         /\ headsets'[s].haptics = headsets[s].haptics
PROOF
<1> QED BY InvFacts DEF Headsets

\* The connection of a client of the running scenario begins or ends.
LEMMA ConnectionChanges ==
  ASSUME ScenarioInv, NEW s \in Scenarios, headsets[s].state \in HeadsetActive,
         NEW to \in {"done", "rejected", "failed", "streaming"}, headsets' = [headsets EXCEPT ![s].state = to],
         \/ UNCHANGED <<hosts, world>>
         \/ /\ \E state \in {"session", "waiting"} : hosts' = [hosts EXCEPT ![s].state = state]
            /\ world' \in {[world EXCEPT !.pin = Nobody, !.route = s], Unrouted(s)},
         UNCHANGED <<runner, stimuli, outcome>>
  PROVE  ScenarioInv'
PROOF
<1> USE InvFacts
<1>1. s = runner.run /\ runner.at \in {"reset", "pumping", "join"}
  BY DEF Alone
<1>2. to \in {"done", "rejected", "failed"} \cup HeadsetActive
  BY DEF HeadsetActive
<1>3. /\ headsets' \in [Scenarios -> Headsets]
      /\ \A r \in Scenarios : r # s => headsets'[r] = headsets[r]
      /\ headsets'[s].pin = headsets[s].pin /\ headsets'[s].haptics = headsets[s].haptics
      /\ headsets'[s].last = headsets[s].last /\ headsets'[s].lost = headsets[s].lost
  BY <1>2, HeadsetGoes
<1>4. /\ hosts' \in [Scenarios -> Hosts]
      /\ \A r \in Scenarios : r # s => hosts'[r] = hosts[r]
      /\ hosts'[s].dropped = hosts[s].dropped /\ hosts'[s].delayed = hosts[s].delayed
      /\ hosts'[s].sent = hosts[s].sent
  <2>1. CASE hosts' = hosts
    BY <2>1
  <2>2. ASSUME NEW state \in {"session", "waiting"}, hosts' = [hosts EXCEPT ![s].state = state]
        PROVE  /\ hosts' \in [Scenarios -> Hosts]
               /\ \A r \in Scenarios : r # s => hosts'[r] = hosts[r]
               /\ hosts'[s].dropped = hosts[s].dropped /\ hosts'[s].delayed = hosts[s].delayed
               /\ hosts'[s].sent = hosts[s].sent
    <3>1. [hosts[s] EXCEPT !.state = state] \in Hosts
      BY <2>2 DEF Hosts, HostActive
    <3> QED BY <2>2, <3>1 DEF Hosts
  <2> QED BY <2>1, <2>2
<1>5. /\ world' \in Worlds /\ world'.pin \in {world.pin, Nobody} /\ world'.route \in {world.route, s, Nobody}
      /\ world'.loss = world.loss /\ world'.latency = world.latency /\ world'.files = world.files
  <2>0. s \in 0..MaxScenarios /\ Nobody \in 0..MaxScenarios
    BY DEF Scenarios, Nobody
  <2>1. CASE world' = world
    BY <2>1
  <2>2. CASE world' = [world EXCEPT !.pin = Nobody, !.route = s]
    BY <2>0, <2>2 DEF Worlds
  <2>3. CASE world' = Unrouted(s)
    BY <2>0, <2>3 DEF Worlds, Unrouted
  <2> QED BY <2>1, <2>2, <2>3
<1>6. ScenarioTyped'
  BY <1>3, <1>4, <1>5 DEF ScenarioTyped
<1>7. WorldIsCurrent'
  BY <1>1, <1>5 DEF WorldIsCurrent
<1>8. \A r \in Scenarios : Alone(r)'
  BY <1>1, <1>3, <1>4 DEF Alone
<1>9. \A r \in Scenarios : MeasuresItself(r)'
  BY <1>3, <1>4 DEF MeasuresItself
<1> QED BY <1>6, <1>7, <1>8, <1>9 DEF ScenarioInv

LEMMA ConnectsToStep == ASSUME ScenarioInv, NEW s \in Scenarios, ConnectsTo(s) PROVE ScenarioInv'
PROOF
<1>1. headsets[s].state \in HeadsetActive /\ UNCHANGED <<runner, stimuli, outcome>>
  BY DEF ConnectsTo, HeadsetActive
<1>2. CASE /\ headsets' = [headsets EXCEPT ![s].state = "streaming"]
           /\ hosts' = [hosts EXCEPT ![s].state = "session"]
           /\ world' = [world EXCEPT !.pin = Nobody, !.route = s]
  BY <1>1, <1>2, ConnectionChanges
<1>3. CASE headsets' = [headsets EXCEPT ![s].state = "rejected"] /\ UNCHANGED <<hosts, world>>
  BY <1>1, <1>3, ConnectionChanges
<1>4. CASE headsets' = [headsets EXCEPT ![s].state = "failed"] /\ UNCHANGED <<hosts, world>>
  BY <1>1, <1>4, ConnectionChanges
<1> QED BY <1>2, <1>3, <1>4 DEF ConnectsTo

LEMMA LeavesSessionStep == ASSUME ScenarioInv, NEW s \in Scenarios, LeavesSession(s) PROVE ScenarioInv'
PROOF
<1>1. /\ headsets[s].state \in HeadsetActive /\ headsets' = [headsets EXCEPT ![s].state = "done"]
      /\ hosts' = [hosts EXCEPT ![s].state = "waiting"] /\ world' = Unrouted(s)
      /\ UNCHANGED <<runner, stimuli, outcome>>
  BY DEF LeavesSession, HeadsetActive
<1> QED BY <1>1, ConnectionChanges

LEMMA ScenarioInvStep == ScenarioInv /\ [ScenarioNext]_scenarioVars => ScenarioInv'
PROOF
<1>1. SUFFICES ASSUME ScenarioInv, [ScenarioNext]_scenarioVars PROVE ScenarioInv'
  OBVIOUS
<1>2. CASE BeginScenario \/ NewEngine \/ PinFound \/ StartClient \/ ResetLatency
  BY <1>1, <1>2, BeginScenarioStep, NewEngineStep, PinFoundStep, StartClientStep, ResetLatencyStep
<1>3. CASE PumpFrame \/ WindowEnds \/ JoinThreads \/ Report
  BY <1>1, <1>3, PumpFrameStep, WindowEndsStep, JoinThreadsStep, ReportStep
<1>4. CASE NoPin \/ DropEngine
  BY <1>1, <1>4, EngineDropped DEF NoPin, DropEngine
<1>5. ASSUME NEW r \in Scenarios,
             StimulusDue(r) \/ Fire(r) \/ PublishesPin(r) \/ ConnectsTo(r) \/ LeavesSession(r)
      PROVE  ScenarioInv'
  BY <1>1, <1>5, StimulusDueStep, FireStep, PublishesPinStep, ConnectsToStep, LeavesSessionStep
<1>6. CASE UNCHANGED scenarioVars
  <2>1. ScenarioTyped' /\ WorldIsCurrent'
    BY <1>1, <1>6 DEF ScenarioInv, ScenarioTyped, WorldIsCurrent, scenarioVars
  <2>2. \A r \in Scenarios : Alone(r)' /\ MeasuresItself(r)'
    BY <1>1, <1>6 DEF ScenarioInv, Alone, MeasuresItself, scenarioVars
  <2> QED BY <1>1, <1>6, <2>1, <2>2 DEF ScenarioInv, scenarioVars
<1> QED BY <1>1, <1>2, <1>3, <1>4, <1>5, <1>6 DEF ScenarioNext

\* However many scenarios run one after another in one process, each measures
\* itself: the losses, delays and haptics of its report are its own, a loss its
\* client counts was injected, and so are the PIN and the recordings of a
\* scenario that could delete the ones that were there (run_scenario()).
THEOREM ScenariosStayApart == ScenarioSpec => []ScenariosApart
PROOF
<1>1. ScenarioInv => ScenariosApart
  <2>1. SUFFICES ASSUME ScenarioInv PROVE ScenariosApart
    OBVIOUS
  <2>2. ASSUME NEW r \in Scenarios, headsets[r].lost > 0 PROVE r \in hosts[r].dropped
    BY <2>1, <2>2, InvFacts DEF MeasuresItself
  <2> QED BY <2>1, <2>2, InvFacts DEF ScenariosApart, MeasuresItself
<1> QED BY <1>1, ScenarioInvInit, ScenarioInvStep, PTL DEF ScenarioSpec

-----------------------------------------------------------------------------
(* The settings of the companion app and its file.                         *)

\* What is common to every state: a local.toml that is not there is empty, and what the
\* app shows has every key it manages.
SettingsTyped ==
  /\ companion \in {"off", "idle", "saving", "resetting"}
  /\ userFile = Missing \/ userFile.kind \in {"table", "broken"}
  /\ legacy = Missing \/ legacy.kind = "table"
  /\ companion \in {"saving", "resetting"} =>
       merged.kind = "table" /\ DOMAIN merged.managed \subseteq ManagedKeys
  /\ DOMAIN userFile.managed \subseteq ManagedKeys /\ DOMAIN legacy.managed \subseteq ManagedKeys
  /\ ManagedKeys \subseteq DOMAIN showing
  /\ companion = "off" => unsaved = {}

\* Keys written by hand: of a broken file they are nowhere else, unless an older one had
\* none, and what is about to be renamed over the file has them, or its backup.
ManualInv ==
  /\ HandWrittenKept
  /\ userFile.kind = "broken" /\ manual # NoKeys => manual = userFile.manual
  /\ companion \in {"saving", "resetting"} /\ manual # NoKeys =>
       manual \in {merged.manual, backup.manual}

Holds(file, key) ==
  file.kind = "table" /\ key \in DOMAIN file.managed /\ file.managed[key] = chosen[key]

\* A setting the user chose is shown while it is pending, and is in the file when it is
\* not; a save writes both.
ChosenInv ==
  /\ \A key \in DOMAIN chosen \cap KeysOf(unsaved) : chosen[key] = showing[key]
  /\ \A key \in DOMAIN chosen \ KeysOf(unsaved) : Holds(userFile, key)
  /\ companion = "saving" => \A key \in DOMAIN chosen : Holds(merged, key)
  /\ companion = "resetting" => DOMAIN chosen = {}

SettingsInv == SettingsTyped /\ ManualInv /\ ChosenInv

\* Layers of keys.
LEMMA Layering ==
  ASSUME NEW f, NEW g
  PROVE  /\ DOMAIN Over(f, g) = DOMAIN f \cup DOMAIN g
         /\ \A x \in DOMAIN f : Over(f, g)[x] = f[x]
         /\ \A x \in DOMAIN g \ DOMAIN f : Over(f, g)[x] = g[x]
BY DEF Over

LEMMA KeyLayers ==
  ASSUME NEW layer, NEW keys
  PROVE  /\ DOMAIN Without(layer, keys) = DOMAIN layer \ keys
         /\ \A x \in DOMAIN layer \ keys : Without(layer, keys)[x] = layer[x]
         /\ DOMAIN Only(layer, keys) = DOMAIN layer \cap keys
         /\ \A x \in DOMAIN layer \cap keys : Only(layer, keys)[x] = layer[x]
BY DEF Without, Only

LEMMA DefaultsManaged ==
  ManagedKeys \subseteq DOMAIN CompanionDefaults
BY KeyLayers, SMT DEF Defaults, CompanionDefaults, ManagedKeys, Only

LEMMA Files ==
  /\ Missing.kind = "missing" /\ Missing.managed = NoKeys /\ Missing.manual = NoKeys
  /\ DOMAIN NoKeys = {}
  /\ \A m, h : /\ Table(m, h).kind = "table" /\ Table(m, h).managed = m /\ Table(m, h).manual = h
               /\ Table(m, h) # Missing
BY DEF Missing, Table, NoKeys

\* Where nothing but these changes, there is nothing to keep.
LEMMA SettingsQuiet ==
  ASSUME SettingsInv,
         UNCHANGED <<userFile, legacy, backup, showing, unsaved, chosen, manual>>,
         companion' \in {companion, "idle", "off"}, companion' = "off" => unsaved = {},
         companion' \in {"saving", "resetting"} => merged' = merged
  PROVE  SettingsInv'
<1>1. SettingsTyped'
  BY DEF SettingsInv, SettingsTyped
<1>2. ManualInv'
  BY DEF SettingsInv, SettingsTyped, ManualInv, HandWrittenKept
<1>3. ChosenInv'
  BY DEF SettingsInv, SettingsTyped, ChosenInv, Holds
<1> QED
  BY <1>1, <1>2, <1>3 DEF SettingsInv

\* The app goes away, and what the user chose and it has not saved with it.
LEMMA SettingsLeave ==
  ASSUME SettingsInv, Leaves, UNCHANGED <<userFile, legacy, backup, showing, manual>>
  PROVE  SettingsInv'
<1>1. /\ companion' = "off" /\ unsaved' = {}
      /\ DOMAIN chosen' = DOMAIN chosen \ KeysOf(unsaved)
      /\ \A key \in DOMAIN chosen' : chosen'[key] = chosen[key]
  <2> DEFINE pending == KeysOf(unsaved)
             kept == Without(chosen, pending)
  <2>1. /\ DOMAIN kept = DOMAIN chosen \ pending
        /\ \A key \in DOMAIN chosen \ pending : kept[key] = chosen[key]
    BY KeyLayers
  <2>2. chosen' = kept /\ companion' = "off" /\ unsaved' = {}
    BY DEF Leaves
  <2>3. DOMAIN chosen' = DOMAIN kept
    BY <2>2
  <2> HIDE DEF kept
  <2> QED
    BY <2>1, <2>2, <2>3
<1>2. SettingsTyped'
  BY <1>1 DEF SettingsInv, SettingsTyped
<1>3. ManualInv'
  BY <1>1 DEF SettingsInv, ManualInv, HandWrittenKept
<1>4. ChosenInv'
  <2>1. KeysOf(unsaved') = {}
    BY <1>1 DEF KeysOf
  <2> QED
    BY <1>1, <2>1 DEF SettingsInv, ChosenInv, Holds
<1> QED
  BY <1>2, <1>3, <1>4 DEF SettingsInv

LEMMA SettingsChange ==
  ASSUME SettingsInv, NEW key \in ManagedKeys, ChangeSetting(key)
  PROVE  SettingsInv'
<1>1. PICK value \in Options[key] \ {showing[key]} :
        /\ showing' = [showing EXCEPT ![key] = value]
        /\ chosen' = Over([k \in {key} |-> value], Without(chosen, Unseen(SectionOf(key))))
  BY DEF ChangeSetting
<1>2. /\ companion = "idle" /\ unsaved' = unsaved \cup {SectionOf(key)}
      /\ UNCHANGED <<userFile, legacy, backup, companion, merged, manual>>
  BY DEF ChangeSetting
<1>3. /\ DOMAIN showing' = DOMAIN showing /\ key \in DOMAIN showing
      /\ showing'[key] = value
      /\ \A k \in DOMAIN showing \ {key} : showing'[k] = showing[k]
  BY <1>1 DEF SettingsInv, SettingsTyped
<1>4. /\ DOMAIN chosen' = {key} \cup (DOMAIN chosen \ Unseen(SectionOf(key)))
      /\ chosen'[key] = value
      /\ \A k \in DOMAIN chosen' \ {key} : k \in DOMAIN chosen \ Unseen(SectionOf(key))
                                           /\ chosen'[k] = chosen[k]
  <2> DEFINE one == [k \in {key} |-> value]
             rest == Without(chosen, Unseen(SectionOf(key)))
  <2>1. DOMAIN one = {key} /\ one[key] = value
    OBVIOUS
  <2>2. /\ DOMAIN rest = DOMAIN chosen \ Unseen(SectionOf(key))
        /\ \A k \in DOMAIN chosen \ Unseen(SectionOf(key)) : rest[k] = chosen[k]
    BY KeyLayers
  <2>3. chosen' = Over(one, rest)
    BY <1>1
  <2> HIDE DEF one, rest
  <2> QED
    <3>1. /\ DOMAIN Over(one, rest) = DOMAIN one \cup DOMAIN rest
          /\ \A x \in DOMAIN one : Over(one, rest)[x] = one[x]
          /\ \A x \in DOMAIN rest \ DOMAIN one : Over(one, rest)[x] = rest[x]
      BY Layering
    <3>2. DOMAIN chosen' = {key} \cup (DOMAIN chosen \ Unseen(SectionOf(key)))
      BY <2>1, <2>2, <2>3, <3>1
    <3>3. chosen'[key] = value
      BY <2>1, <2>3, <3>1
    <3>4. \A k \in DOMAIN rest \ {key} : chosen'[k] = rest[k]
      BY <2>1, <2>3, <3>1
    <3> QED
      BY <2>2, <3>2, <3>3, <3>4
<1>5. \A k : k \in KeysOf(unsaved') <=>
               k \in KeysOf(unsaved) \/ (k \in ManagedKeys /\ SectionOf(k) = SectionOf(key))
  BY <1>2 DEF KeysOf
<1>6. key \in KeysOf(unsaved')
  BY <1>5
<1>7. SettingsTyped'
  BY <1>2, <1>3 DEF SettingsInv, SettingsTyped
<1>8. ManualInv'
  BY <1>2 DEF SettingsInv, ManualInv, HandWrittenKept
<1>9. \A k \in DOMAIN chosen' \cap KeysOf(unsaved') : chosen'[k] = showing'[k]
  <2> SUFFICES ASSUME NEW k \in DOMAIN chosen', k \in KeysOf(unsaved'), k # key
               PROVE  chosen'[k] = showing'[k]
    BY <1>3, <1>4
  <2>1. k \in DOMAIN chosen \ Unseen(SectionOf(key)) /\ chosen'[k] = chosen[k]
    BY <1>4
  <2>2. k \in ManagedKeys
    BY DEF KeysOf
  <2>3. chosen[k] = showing[k]
    <3>1. CASE k \in KeysOf(unsaved)
      BY <2>1, <3>1 DEF SettingsInv, ChosenInv
    <3>2. CASE SectionOf(k) = SectionOf(key)
      BY <2>1, <3>2 DEF Unseen
    <3> QED
      BY <1>5, <3>1, <3>2
  <2> QED
    BY <1>3, <2>1, <2>2, <2>3 DEF SettingsInv, SettingsTyped
<1>10. \A k \in DOMAIN chosen' \ KeysOf(unsaved') : Holds(userFile, k)'
  <2> SUFFICES ASSUME NEW k \in DOMAIN chosen', k \notin KeysOf(unsaved')
               PROVE  Holds(userFile, k)'
    OBVIOUS
  <2>1. k # key /\ k \in DOMAIN chosen /\ chosen'[k] = chosen[k] /\ k \notin KeysOf(unsaved)
    BY <1>4, <1>5, <1>6
  <2>2. Holds(userFile, k)
    BY <2>1 DEF SettingsInv, ChosenInv
  <2> QED
    BY <1>2, <2>1, <2>2 DEF Holds
<1>11. ChosenInv'
  BY <1>2, <1>9, <1>10 DEF ChosenInv, Holds
<1> QED
  BY <1>7, <1>8, <1>11 DEF SettingsInv

\* The file is read, and backed up if it is broken: what it held is not lost.
LEMMA ReadingKeeps ==
  ASSUME SettingsInv, NEW file \in Seeded, ReadTable(file), UNCHANGED manual
  PROVE  /\ userFile' = Missing \/ userFile'.kind \in {"table", "broken"}
         /\ DOMAIN userFile'.managed \subseteq ManagedKeys
         /\ DOMAIN TableOf(file).managed \subseteq ManagedKeys
         /\ HandWrittenKept'
         /\ userFile'.kind = "broken" /\ manual' # NoKeys => manual' = userFile'.manual
         /\ manual # NoKeys => manual \in {TableOf(file).manual, backup'.manual}
         /\ \A key \in DOMAIN chosen \ KeysOf(unsaved) :
              Holds(file, key) /\ Holds(TableOf(file), key)
<1>1. userFile' = file
  BY DEF ReadTable
<1> DOMAIN file.managed \subseteq ManagedKeys /\ DOMAIN TableOf(file).managed \subseteq ManagedKeys
  BY Files DEF Seeded, TableOf, SettingsInv, SettingsTyped
<1>2. CASE userFile = Missing
  <2>1. file = Missing \/ (file = legacy /\ file.kind = "table")
    BY <1>2 DEF Seeded, SettingsInv, SettingsTyped
  <2>2. backup' = backup /\ (file.kind = "table" \/ file = Missing) /\ file.kind # "broken"
    BY <2>1, Files DEF ReadTable
  <2>3. manual # NoKeys => manual = backup.manual
    BY <1>2, Files DEF SettingsInv, ManualInv, HandWrittenKept
  <2>4. \A key \in DOMAIN chosen \ KeysOf(unsaved) : FALSE
    BY <1>2, Files DEF SettingsInv, ChosenInv, Holds
  <2> QED
    BY <1>1, <2>2, <2>3, <2>4 DEF HandWrittenKept
<1>3. CASE userFile # Missing /\ userFile.kind = "table"
  <2>1. file = userFile /\ userFile' = userFile /\ backup' = backup /\ TableOf(file) = userFile
    BY <1>1, <1>3 DEF Seeded, ReadTable, TableOf
  <2>2. \A key \in DOMAIN chosen \ KeysOf(unsaved) : Holds(userFile, key)
    BY DEF SettingsInv, ChosenInv
  <2> QED
    BY <1>3, <2>1, <2>2 DEF SettingsInv, ManualInv, HandWrittenKept, Holds
<1>4. CASE userFile # Missing /\ userFile.kind = "broken"
  <2>1. file = userFile /\ userFile' = userFile /\ backup' = userFile
    BY <1>1, <1>4 DEF Seeded, ReadTable
  <2>2. \A key \in DOMAIN chosen \ KeysOf(unsaved) : FALSE
    BY <1>4 DEF SettingsInv, ChosenInv, Holds
  <2> QED
    BY <1>4, <2>1, <2>2 DEF SettingsInv, ManualInv, HandWrittenKept
<1> QED
  BY <1>2, <1>3, <1>4 DEF SettingsInv, SettingsTyped
LEMMA SettingsFlush ==
  ASSUME SettingsInv, FlushConfig
  PROVE  SettingsInv'
<1>1. PICK file \in Seeded : ReadTable(file) /\ merged' = SaveInto(file)
  BY DEF FlushConfig
<1>2. /\ companion' = "saving"
      /\ UNCHANGED <<legacy, showing, unsaved, chosen, manual>>
  BY DEF FlushConfig
<1> DEFINE table == TableOf(file)
           pending == KeysOf(unsaved)
           shown == Only(showing, pending)
<1>3. /\ userFile' = Missing \/ userFile'.kind \in {"table", "broken"}
      /\ DOMAIN userFile'.managed \subseteq ManagedKeys
      /\ DOMAIN table.managed \subseteq ManagedKeys
      /\ HandWrittenKept'
      /\ userFile'.kind = "broken" /\ manual' # NoKeys => manual' = userFile'.manual
      /\ manual # NoKeys => manual \in {table.manual, backup'.manual}
      /\ \A key \in DOMAIN chosen \ pending :
           Holds(file, key) /\ Holds(table, key)
  BY <1>1, <1>2, ReadingKeeps
<1>4. /\ DOMAIN shown = DOMAIN showing \cap pending
      /\ \A key \in DOMAIN showing \cap pending : shown[key] = showing[key]
  BY KeyLayers
<1>5. merged' = Table(Over(shown, table.managed), table.manual)
  BY <1>1 DEF SaveInto
<1>6. pending \subseteq ManagedKeys
  BY DEF KeysOf
<1> HIDE DEF table, pending, shown
<1>7. /\ merged'.kind = "table" /\ merged'.managed = Over(shown, table.managed)
      /\ merged'.manual = table.manual
  BY <1>5, Files
<1>8. /\ DOMAIN merged'.managed = DOMAIN shown \cup DOMAIN table.managed
      /\ \A x \in DOMAIN shown : merged'.managed[x] = shown[x]
      /\ \A x \in DOMAIN table.managed \ DOMAIN shown : merged'.managed[x] = table.managed[x]
  <2> DEFINE lower == table.managed
             upper == merged'.managed
  <2>1. upper = Over(shown, lower)
    BY <1>7
  <2> HIDE DEF lower, upper
  <2>2. /\ DOMAIN Over(shown, lower) = DOMAIN shown \cup DOMAIN lower
        /\ \A x \in DOMAIN shown : Over(shown, lower)[x] = shown[x]
        /\ \A x \in DOMAIN lower \ DOMAIN shown : Over(shown, lower)[x] = lower[x]
    BY Layering
  <2> QED
    BY <2>1, <2>2 DEF lower, upper
<1>9. SettingsTyped'
  <2>1. DOMAIN merged'.managed \subseteq ManagedKeys
    BY <1>3, <1>4, <1>6, <1>8
  <2> QED
    BY <1>2, <1>3, <1>7, <2>1 DEF SettingsInv, SettingsTyped
<1>10. ManualInv'
  BY <1>2, <1>3, <1>7 DEF ManualInv
<1>11. ASSUME NEW key \in DOMAIN chosen
       PROVE  key \in DOMAIN merged'.managed /\ merged'.managed[key] = chosen[key]
  <2>1. CASE key \in pending
    <3>1. key \in DOMAIN showing
      BY <1>6, <2>1 DEF SettingsInv, SettingsTyped
    <3>2. chosen[key] = showing[key]
      BY <2>1 DEF SettingsInv, ChosenInv, pending
    <3> QED
      BY <1>4, <1>8, <2>1, <3>1, <3>2
  <2>2. CASE key \notin pending
    BY <1>3, <1>4, <1>8, <2>2 DEF Holds
  <2> QED
    BY <2>1, <2>2
<1>12. ChosenInv'
  <2>1. \A key \in DOMAIN chosen' \cap KeysOf(unsaved') : chosen'[key] = showing'[key]
    BY <1>2 DEF SettingsInv, ChosenInv
  <2>2. \A key \in DOMAIN chosen' \ KeysOf(unsaved') : Holds(userFile, key)'
    BY <1>1, <1>2, <1>3 DEF pending, ReadTable, Holds
  <2>3. \A key \in DOMAIN chosen' : Holds(merged, key)'
    BY <1>2, <1>7, <1>11 DEF Holds
  <2> QED
    BY <1>2, <2>1, <2>2, <2>3 DEF ChosenInv
<1> QED
  BY <1>9, <1>10, <1>12 DEF SettingsInv

LEMMA SettingsReset ==
  ASSUME SettingsInv, ResetToDefaults
  PROVE  SettingsInv'
<1>1. /\ companion = "idle" /\ showing' = CompanionDefaults /\ unsaved' = {} /\ chosen' = NoKeys
      /\ UNCHANGED <<legacy, manual>>
  BY DEF ResetToDefaults
<1>2. ChosenInv'
  <2>1. DOMAIN chosen' = {}
    BY <1>1, Files
  <2> QED
    BY <1>1, <2>1 DEF ResetToDefaults, ChosenInv
<1>3. CASE \E file \in Seeded :
             /\ ReadTable(file)
             /\ merged' = Table(Without(TableOf(file).managed, ManagedKeys), TableOf(file).manual)
             /\ companion' = "resetting"
  <2>1. PICK file \in Seeded :
          /\ ReadTable(file)
          /\ merged' = Table(Without(TableOf(file).managed, ManagedKeys), TableOf(file).manual)
          /\ companion' = "resetting"
    BY <1>3
  <2>2. /\ userFile' = Missing \/ userFile'.kind \in {"table", "broken"}
        /\ DOMAIN userFile'.managed \subseteq ManagedKeys
        /\ HandWrittenKept'
        /\ userFile'.kind = "broken" /\ manual' # NoKeys => manual' = userFile'.manual
        /\ manual # NoKeys => manual \in {TableOf(file).manual, backup'.manual}
    BY <1>1, <2>1, ReadingKeeps
  <2>3. /\ merged'.kind = "table" /\ merged'.manual = TableOf(file).manual
        /\ merged'.managed = Without(TableOf(file).managed, ManagedKeys)
    BY <2>1, Files
  <2> DOMAIN merged'.managed \subseteq ManagedKeys
    <3> DEFINE lower == TableOf(file).managed
               upper == merged'.managed
    <3>1. lower = TableOf(file).managed /\ upper = Without(lower, ManagedKeys)
      BY <2>3
    <3>2. DOMAIN lower \subseteq ManagedKeys
      BY <1>1, <2>1, ReadingKeeps
    <3> HIDE DEF lower, upper
    <3>3. DOMAIN upper = DOMAIN lower \ ManagedKeys
      BY <3>1, KeyLayers
    <3> QED
      BY <3>2, <3>3 DEF upper
  <2>4. SettingsTyped'
    BY <1>1, <2>1, <2>2, <2>3, DefaultsManaged DEF SettingsInv, SettingsTyped
  <2>5. ManualInv'
    BY <1>1, <2>1, <2>2, <2>3 DEF ManualInv
  <2> QED
    BY <1>2, <2>4, <2>5 DEF SettingsInv
<1>4. CASE UNCHANGED <<userFile, backup, merged, companion>>
  <2>1. SettingsTyped'
    BY <1>1, <1>4, DefaultsManaged DEF SettingsInv, SettingsTyped
  <2>2. ManualInv'
    BY <1>1, <1>4 DEF SettingsInv, ManualInv, HandWrittenKept
  <2> QED
    BY <1>2, <2>1, <2>2 DEF SettingsInv
<1> QED
  BY <1>3, <1>4 DEF ResetToDefaults

LEMMA SettingsWrite ==
  ASSUME SettingsInv, WriteSucceeds
  PROVE  SettingsInv'
<1>1. /\ companion \in {"saving", "resetting"} /\ companion' \in {"off", "idle"}
      /\ userFile' = merged /\ unsaved' = {}
      /\ UNCHANGED <<legacy, backup, showing, chosen, manual>>
  BY DEF WriteSucceeds
<1>2. merged.kind = "table"
  BY <1>1 DEF SettingsInv, SettingsTyped
<1>3. SettingsTyped'
  BY <1>1, <1>2 DEF SettingsInv, SettingsTyped
<1>4. ManualInv'
  BY <1>1, <1>2 DEF SettingsInv, ManualInv, HandWrittenKept
<1>5. ChosenInv'
  <2>1. \A key \in DOMAIN chosen : Holds(merged, key)
    BY <1>1 DEF SettingsInv, ChosenInv
  <2>2. KeysOf(unsaved') = {}
    BY <1>1 DEF KeysOf
  <2> QED
    BY <1>1, <2>1, <2>2 DEF ChosenInv, Holds
<1> QED
  BY <1>3, <1>4, <1>5 DEF SettingsInv

LEMMA SettingsEdit ==
  ASSUME SettingsInv, EditByHand
  PROVE  SettingsInv'
<1>1. PICK kind \in ManualKinds, keys \in ManualKeys :
        /\ userFile' = [kind |-> kind, managed |-> userFile.managed, manual |-> keys]
        /\ manual' = IF companion \in {"saving", "resetting"} THEN NoKeys ELSE keys
        /\ chosen' = IF kind = "broken" THEN Only(chosen, KeysOf(unsaved)) ELSE chosen
  BY DEF EditByHand
<1>2. UNCHANGED <<legacy, backup, showing, unsaved, companion, merged>>
  BY DEF EditByHand
<1>3. /\ userFile'.kind = kind /\ userFile'.managed = userFile.managed /\ userFile'.manual = keys
      /\ kind \in {"table", "broken"}
  BY <1>1, SettingsAssumption DEF SettingsAssumption
<1>4. SettingsTyped'
  BY <1>2, <1>3 DEF SettingsInv, SettingsTyped
<1>5. ManualInv'
  BY <1>1, <1>2, <1>3 DEF ManualInv, HandWrittenKept
<1>6. /\ DOMAIN chosen' \subseteq DOMAIN chosen
      /\ \A key \in DOMAIN chosen' : chosen'[key] = chosen[key]
      /\ kind = "broken" => DOMAIN chosen' \subseteq KeysOf(unsaved)
  <2> DEFINE pending == KeysOf(unsaved)
             kept == Only(chosen, pending)
  <2>1. /\ DOMAIN kept = DOMAIN chosen \cap pending
        /\ \A key \in DOMAIN chosen \cap pending : kept[key] = chosen[key]
    BY KeyLayers
  <2>2. (kind = "broken" /\ chosen' = kept) \/ (kind # "broken" /\ chosen' = chosen)
    BY <1>1
  <2> HIDE DEF kept, pending
  <2>3. CASE kind = "broken" /\ chosen' = kept
    BY <2>1, <2>3 DEF pending
  <2> QED
    BY <2>2, <2>3
<1>7. ChosenInv'
  <2>1. \A key \in DOMAIN chosen' \cap KeysOf(unsaved') : chosen'[key] = showing'[key]
    BY <1>2, <1>6 DEF SettingsInv, ChosenInv
  <2>2. \A key \in DOMAIN chosen' \ KeysOf(unsaved') : Holds(userFile, key)'
    <3> SUFFICES ASSUME NEW key \in DOMAIN chosen', key \notin KeysOf(unsaved)
                 PROVE  Holds(userFile, key)'
      BY <1>2
    <3>1. kind = "table" /\ key \in DOMAIN chosen /\ chosen'[key] = chosen[key]
      BY <1>3, <1>6
    <3>2. Holds(userFile, key)
      BY <3>1 DEF SettingsInv, ChosenInv
    <3> QED
      BY <1>3, <3>1, <3>2 DEF Holds
  <2>3. companion = "saving" => \A key \in DOMAIN chosen' : Holds(merged, key)'
    BY <1>2, <1>6 DEF SettingsInv, ChosenInv, Holds
  <2>4. companion = "resetting" => DOMAIN chosen' = {}
    BY <1>6 DEF SettingsInv, ChosenInv
  <2> QED
    BY <1>2, <2>1, <2>2, <2>3, <2>4 DEF ChosenInv
<1> QED
  BY <1>4, <1>5, <1>7 DEF SettingsInv

LEMMA SettingsStart ==
  ASSUME SettingsInv, CompanionStarts
  PROVE  SettingsInv'
<1>1. /\ companion = "off" /\ companion' = "idle" /\ unsaved' = {}
      /\ showing' \in {CompanionDefaults, Loaded(IF userFile = Missing THEN legacy ELSE userFile)}
      /\ UNCHANGED <<userFile, legacy, backup, chosen, manual>>
  BY DEF CompanionStarts
<1>2. \A file : ManagedKeys \subseteq DOMAIN Loaded(file)
  BY DefaultsManaged, Layering DEF Loaded
<1>3. SettingsTyped'
  BY <1>1, <1>2, DefaultsManaged DEF SettingsInv, SettingsTyped
<1>4. ManualInv'
  BY <1>1 DEF SettingsInv, ManualInv, HandWrittenKept
<1>5. ChosenInv'
  <2>1. unsaved = {} /\ KeysOf(unsaved') = {} /\ KeysOf(unsaved) = {}
    BY <1>1 DEF SettingsInv, SettingsTyped, KeysOf
  <2> QED
    BY <1>1, <2>1 DEF SettingsInv, ChosenInv, Holds
<1> QED
  BY <1>3, <1>4, <1>5 DEF SettingsInv

LEMMA SettingsStep == SettingsInv /\ [SettingsNext]_settingsVars => SettingsInv'
<1> SUFFICES ASSUME SettingsInv, [SettingsNext]_settingsVars PROVE SettingsInv'
  OBVIOUS
<1>1. CASE \E key \in ManagedKeys : ChangeSetting(key)
  BY <1>1, SettingsChange
<1>2. CASE CompanionStarts \/ FlushConfig \/ ResetToDefaults \/ WriteSucceeds \/ EditByHand
  BY <1>2, SettingsStart, SettingsFlush, SettingsReset, SettingsWrite, SettingsEdit
<1>3. CASE SaveGivenUp \/ CompanionDies
  BY <1>3, SettingsLeave DEF SaveGivenUp, CompanionDies
<1>4. CASE WriteFails
  <2>1. CASE closing
    BY <1>4, <2>1, SettingsLeave DEF WriteFails
  <2>2. CASE ~closing
    BY <1>4, <2>2, SettingsQuiet DEF WriteFails
  <2> QED
    BY <2>1, <2>2
<1>5. CASE AppCloses
  BY <1>5, SettingsQuiet DEF AppCloses
<1>6. CASE EngineStartsUp \/ EngineStops \/ UNCHANGED settingsVars
  <2>1. /\ UNCHANGED <<userFile, legacy, backup, showing, unsaved, chosen, manual, merged, companion>>
    BY <1>6 DEF EngineStartsUp, EngineStops, settingsVars
  <2>2. companion = "off" => unsaved = {}
    BY DEF SettingsInv, SettingsTyped
  <2> QED
    BY <2>1, <2>2, SettingsQuiet
<1> QED
  BY <1>1, <1>2, <1>3, <1>4, <1>5, <1>6 DEF SettingsNext

\* Whatever the companion saves, resets, retries or loses on its way out, and however
\* local.toml is edited, broken or locked meanwhile: what the user chose is what the engine
\* starts from when it can read local.toml, and no key written by hand is lost.
THEOREM ChosenSettingsSurvive == SettingsSpec => []SettingsSurvive
<1>1. SettingsInit => SettingsInv
  <2> SUFFICES ASSUME SettingsInit PROVE SettingsInv
    OBVIOUS
  <2>1. SettingsTyped
    BY DefaultsManaged, Files DEF SettingsInit, SettingsTyped
  <2>2. ManualInv
    BY Files DEF SettingsInit, ManualInv, HandWrittenKept
  <2>3. ChosenInv
    BY Files DEF SettingsInit, ChosenInv
  <2> QED
    BY <2>1, <2>2, <2>3 DEF SettingsInv
<1>2. SettingsInv => SettingsSurvive
  <2> SUFFICES ASSUME SettingsInv, NEW key \in DOMAIN chosen \ KeysOf(unsaved),
                      "mistyped" \notin DOMAIN userFile.manual
               PROVE  RuntimeLayers(TRUE)[key] = chosen[key]
    BY DEF SettingsInv, ManualInv, SettingsSurvive, ChosenApplies
  <2> DEFINE own == userFile.managed
             hand == userFile.manual
             overlay == OverlayOf(userFile)
             config0 == RuntimeLayers(TRUE)
  <2>1. Holds(userFile, key)
    BY DEF SettingsInv, ChosenInv
  <2>2. overlay = Over(own, hand) /\ key \in DOMAIN own /\ own[key] = chosen[key]
    BY <2>1 DEF OverlayOf, Holds
  <2>3. "mistyped" \notin DOMAIN own /\ "mistyped" \notin DOMAIN hand
    BY DEF SettingsInv, SettingsTyped, ManagedKeys
  <2>4. config0 = IF "mistyped" \in DOMAIN overlay THEN Defaults ELSE Over(overlay, Defaults)
    BY DEF RuntimeLayers, Layered
  <2> HIDE DEF own, hand, overlay, config0
  <2>5. /\ DOMAIN Over(own, hand) = DOMAIN own \cup DOMAIN hand
        /\ \A x \in DOMAIN own : Over(own, hand)[x] = own[x]
    BY Layering
  <2>6. config0 = Over(overlay, Defaults)
    BY <2>2, <2>3, <2>4, <2>5
  <2>7. \A x \in DOMAIN overlay : Over(overlay, Defaults)[x] = overlay[x]
    BY Layering
  <2> QED
    BY <2>2, <2>5, <2>6, <2>7 DEF config0
<1> QED
  BY <1>1, <1>2, SettingsStep, PTL DEF SettingsSpec

-----------------------------------------------------------------------------
(* What validate() leaves.                                                 *)

ConfigKeys == {"codec", "audio", "rate", "tcp", "udp", "fecMin", "fecMax", "fec",
               "fovea", "mid", "warn", "limit", "emergency"}

IsConfig(c) == c = [k \in ConfigKeys |-> c[k]]

\* A rule changes no other key.
RuleKeeps(c, d, keys) == IsConfig(d) /\ \A k \in ConfigKeys \ keys : d[k] = c[k]

LEMMA InRangeRule ==
  ASSUME NEW c, IsConfig(c), NEW key \in ConfigKeys, NEW low, NEW high,
         NEW d, d = InRange(c, key, low, high)
  PROVE  /\ RuleKeeps(c, d, {key})
         /\ IF Outside(c[key], low, high) THEN d[key] = Defaults[key] ELSE d[key] = c[key]
<1>0. c = [k \in ConfigKeys |-> c[k]]
  BY DEF IsConfig
<1>1. CASE Outside(c[key], low, high)
  <2>1. d = [c EXCEPT ![key] = Defaults[key]]
    BY <1>1 DEF InRange
  <2>2. d = [k \in ConfigKeys |-> IF k = key THEN Defaults[key] ELSE c[k]]
    BY <1>0, <2>1
  <2> QED
    BY <1>1, <2>2 DEF RuleKeeps, IsConfig
<1>2. CASE ~Outside(c[key], low, high)
  BY <1>0, <1>2 DEF InRange, RuleKeeps, IsConfig
<1> QED
  BY <1>1, <1>2

LEMMA PortsRule ==
  ASSUME NEW c, IsConfig(c), c["tcp"] \in Int, c["udp"] \in Int, NEW e, e = PortsApart(c)
  PROVE  RuleKeeps(c, e, {"tcp", "udp"}) /\ PortsUsable(e)
<1> DEFINE t == InRange(c, "tcp", 1024, 65535)
           d == InRange(t, "udp", 1024, MaxUdp)
<1>1. /\ RuleKeeps(c, t, {"tcp"})
      /\ IF Outside(c["tcp"], 1024, 65535) THEN t["tcp"] = Defaults["tcp"] ELSE t["tcp"] = c["tcp"]
  BY InRangeRule DEF ConfigKeys
<1>2. /\ RuleKeeps(t, d, {"udp"})
      /\ IF Outside(t["udp"], 1024, MaxUdp) THEN d["udp"] = Defaults["udp"] ELSE d["udp"] = t["udp"]
  BY <1>1, InRangeRule DEF ConfigKeys, RuleKeeps
<1>3. e = IF d.tcp = d.udp THEN [d EXCEPT !.udp = IF d.tcp < MaxUdp THEN d.tcp + 1 ELSE d.tcp - 1]
          ELSE d
  BY DEF PortsApart
<1>4. Defaults["tcp"] = 9944 /\ Defaults["udp"] = 9945 /\ MaxUdp = 65532
  BY DEF Defaults, MaxUdp
<1> HIDE DEF t, d
<1>5. /\ d["tcp"] \in Int /\ 1024 <= d["tcp"] /\ d["tcp"] <= 65535
      /\ d["udp"] \in Int /\ 1024 <= d["udp"] /\ d["udp"] <= MaxUdp
  <2>1. d["tcp"] = t["tcp"] /\ t["udp"] = c["udp"]
    BY <1>1, <1>2 DEF RuleKeeps, ConfigKeys
  <2>2. d["tcp"] = 9944 \/ (d["tcp"] \in Int /\ ~(d["tcp"] < 1024 \/ d["tcp"] > 65535))
    BY <1>1, <1>4, <2>1 DEF Outside
  <2>3. d["udp"] = 9945 \/ (d["udp"] \in Int /\ ~(d["udp"] < 1024 \/ d["udp"] > 65532))
    BY <1>2, <1>4, <2>1 DEF Outside
  <2> QED
    BY <1>4, <2>2, <2>3
<1>6. RuleKeeps(c, d, {"tcp", "udp"})
  BY <1>1, <1>2 DEF RuleKeeps
<1>7. CASE d["tcp"] # d["udp"]
  <2>1. e = d
    BY <1>3, <1>7
  <2> QED
    BY <1>5, <1>6, <1>7, <2>1 DEF PortsUsable
<1>8. CASE d["tcp"] = d["udp"]
  <2> DEFINE other == IF d["tcp"] < MaxUdp THEN d["tcp"] + 1 ELSE d["tcp"] - 1
  <2>1. e = [d EXCEPT !["udp"] = other]
    BY <1>3, <1>8
  <2>2. 1024 <= other /\ other <= MaxUdp /\ other # d["tcp"]
    BY <1>4, <1>5, <1>8
  <2> HIDE DEF other
  <2>3. d = [k \in ConfigKeys |-> d[k]]
    BY <1>6 DEF RuleKeeps, IsConfig
  <2>4. e = [k \in ConfigKeys |-> IF k = "udp" THEN other ELSE d[k]]
    BY <2>1, <2>3
  <2>5. e["udp"] = other /\ e["tcp"] = d["tcp"]
    BY <2>4 DEF ConfigKeys
  <2>6. RuleKeeps(c, e, {"tcp", "udp"})
    BY <1>6, <2>4 DEF RuleKeeps, IsConfig
  <2> QED
    BY <1>5, <2>2, <2>5, <2>6 DEF PortsUsable
<1> QED
  BY <1>7, <1>8

LEMMA FecLimitsRule ==
  ASSUME NEW c, IsConfig(c), c["fecMin"] \in Int \cup {NaN}, c["fecMax"] \in Int \cup {NaN},
         NEW e, e = FecLimits(c)
  PROVE  /\ RuleKeeps(c, e, {"fecMin", "fecMax"})
         /\ e["fecMin"] \in 0 .. 100 /\ e["fecMax"] \in 0 .. 100
         /\ e["fecMin"] > e["fecMax"] => e["fecMin"] = c["fecMin"] /\ e["fecMax"] = Defaults["fecMax"]
<1> DEFINE d == InRange(c, "fecMin", 0, 100)
           low == d["fecMin"]
<1>1. /\ RuleKeeps(c, d, {"fecMin"})
      /\ IF Outside(c["fecMin"], 0, 100) THEN low = Defaults["fecMin"] ELSE low = c["fecMin"]
  BY InRangeRule DEF ConfigKeys
<1>2. e = InRange(d, "fecMax", low, 100)
  BY DEF FecLimits
<1> HIDE DEF d, low
<1>3. /\ RuleKeeps(d, e, {"fecMax"})
      /\ IF Outside(d["fecMax"], low, 100) THEN e["fecMax"] = Defaults["fecMax"] ELSE e["fecMax"] = d["fecMax"]
  BY <1>1, <1>2, InRangeRule DEF ConfigKeys, RuleKeeps
<1>4. d["fecMax"] = c["fecMax"] /\ e["fecMin"] = low
  BY <1>1, <1>3 DEF RuleKeeps, ConfigKeys, low
<1>5. Defaults["fecMin"] = 5 /\ Defaults["fecMax"] = 40
  BY DEF Defaults
<1>6. low \in 0 .. 100 /\ (low = 5 \/ low = c["fecMin"])
  BY <1>1, <1>5, ConfigAssumption DEF Outside, ConfigAssumption
<1>7. \/ e["fecMax"] = Defaults["fecMax"]
      \/ e["fecMax"] \in Int /\ low <= e["fecMax"] /\ e["fecMax"] <= 100
  BY <1>3, <1>4, <1>6, ConfigAssumption DEF Outside, ConfigAssumption
<1>8. RuleKeeps(c, e, {"fecMin", "fecMax"})
  BY <1>1, <1>3 DEF RuleKeeps
<1> QED
  BY <1>4, <1>5, <1>6, <1>7, <1>8

LEMMA FecRule ==
  ASSUME NEW c, IsConfig(c), c["fecMin"] \in Int, c["fecMax"] \in Int,
         c["fec"] \in Int \cup {NaN}, NEW e, e = FecInLimits(c)
  PROVE  /\ RuleKeeps(c, e, {"fec"})
         /\ ~FecPanics(c) /\ c["fec"] # NaN =>
              e["fec"] \in Int /\ e["fecMin"] <= e["fec"] /\ e["fec"] <= e["fecMax"]
<1> DEFINE out == Outside(c["fec"], c["fecMin"], c["fecMax"])
           clamped == ClampTo(c["fec"], c["fecMin"], c["fecMax"])
<1>1. e = IF out THEN [c EXCEPT !["fec"] = clamped] ELSE c
  BY DEF FecInLimits
<1>2. ASSUME ~FecPanics(c), c["fec"] # NaN, out
      PROVE  clamped \in Int /\ c["fecMin"] <= clamped /\ clamped <= c["fecMax"]
  BY <1>2 DEF FecPanics, ClampTo
<1>3. ASSUME c["fec"] # NaN, ~out
      PROVE  c["fec"] \in Int /\ c["fecMin"] <= c["fec"] /\ c["fec"] <= c["fecMax"]
  BY <1>3 DEF Outside
<1> HIDE DEF out, clamped
<1>4. c = [k \in ConfigKeys |-> c[k]]
  BY DEF IsConfig
<1>5. e = [k \in ConfigKeys |-> IF k = "fec" /\ out THEN clamped ELSE c[k]]
  BY <1>1, <1>4
<1>6. RuleKeeps(c, e, {"fec"})
  BY <1>5 DEF RuleKeeps, IsConfig
<1>7. /\ e["fecMin"] = c["fecMin"] /\ e["fecMax"] = c["fecMax"]
      /\ e["fec"] = IF out THEN clamped ELSE c["fec"]
  BY <1>5 DEF ConfigKeys
<1> QED
  BY <1>2, <1>3, <1>6, <1>7

\* The rules that come after leave ports and redundancies alone.
LEMMA LaterRules ==
  ASSUME NEW c, IsConfig(c),
         NEW e, e = ThermalOrder(ThermalRanges(RadiiNested(InRange(c, "rate", 32, 512))))
  PROVE  \A k \in {"tcp", "udp", "fecMin", "fecMax", "fec"} : e[k] = c[k]
<1> DEFINE rated == InRange(c, "rate", 32, 512)
           inner == InRange(rated, "fovea", 1, 50)
           fovea == inner.fovea + 1
           outer == InRange(inner, "mid", fovea, 100)
           warned == InRange(outer, "warn", 50, 100)
           limited == InRange(warned, "limit", 50, 105)
           ranged == InRange(limited, "emergency", 50, 110)
           ordered == IF ranged.warn >= ranged.limit THEN ToDefaults(ranged, {"warn", "limit"}) ELSE ranged
<1>1. e = IF ordered.limit >= ordered.emergency THEN ToDefaults(ordered, {"limit", "emergency"}) ELSE ordered
  BY DEF ThermalOrder, ThermalRanges, RadiiNested
<1>2. {"rate", "fovea", "mid", "warn", "limit", "emergency"} \subseteq ConfigKeys
  BY DEF ConfigKeys
<1> DEFINE later == {"rate", "fovea", "mid", "warn", "limit", "emergency"}
<1>3. ASSUME NEW x, NEW y, RuleKeeps(c, x, later), NEW key \in later, RuleKeeps(x, y, {key})
      PROVE  RuleKeeps(c, y, later)
  BY <1>3 DEF RuleKeeps
<1>4. RuleKeeps(c, c, later)
  BY DEF RuleKeeps
<1> HIDE DEF rated, inner, fovea, outer, warned, limited, ranged, later
<1>5. later \subseteq ConfigKeys
  BY <1>2 DEF later
<1>6. RuleKeeps(c, rated, later)
  <2>1. RuleKeeps(c, rated, {"rate"})
    BY <1>2, InRangeRule DEF rated
  <2> QED
    BY <1>3, <1>4, <2>1 DEF later
<1>7. RuleKeeps(c, inner, later)
  <2>1. RuleKeeps(rated, inner, {"fovea"})
    BY <1>2, <1>6, InRangeRule DEF inner, RuleKeeps
  <2> QED
    BY <1>3, <1>6, <2>1 DEF later
<1>8. RuleKeeps(c, outer, later)
  <2>1. RuleKeeps(inner, outer, {"mid"})
    BY <1>2, <1>7, InRangeRule DEF outer, RuleKeeps
  <2> QED
    BY <1>3, <1>7, <2>1 DEF later
<1>9. RuleKeeps(c, warned, later)
  <2>1. RuleKeeps(outer, warned, {"warn"})
    BY <1>2, <1>8, InRangeRule DEF warned, RuleKeeps
  <2> QED
    BY <1>3, <1>8, <2>1 DEF later
<1>10. RuleKeeps(c, limited, later)
  <2>1. RuleKeeps(warned, limited, {"limit"})
    BY <1>2, <1>9, InRangeRule DEF limited, RuleKeeps
  <2> QED
    BY <1>3, <1>9, <2>1 DEF later
<1>11. RuleKeeps(c, ranged, later)
  <2>1. RuleKeeps(limited, ranged, {"emergency"})
    BY <1>2, <1>10, InRangeRule DEF ranged, RuleKeeps
  <2> QED
    BY <1>3, <1>10, <2>1 DEF later
<1>12. ASSUME NEW x, RuleKeeps(c, x, later), NEW keys \in SUBSET later,
              NEW y, y = x \/ y = ToDefaults(x, keys)
       PROVE  RuleKeeps(c, y, later)
  <2>1. x = [k \in ConfigKeys |-> x[k]] /\ DOMAIN x = ConfigKeys
    BY <1>12 DEF RuleKeeps, IsConfig
  <2> QED
    BY <1>12, <2>1 DEF RuleKeeps, IsConfig, ToDefaults
<1>13. RuleKeeps(c, ordered, later)
  <2>1. ordered = ranged \/ ordered = ToDefaults(ranged, {"warn", "limit"})
    OBVIOUS
  <2> HIDE DEF ordered
  <2> QED
    BY <1>11, <1>12, <2>1 DEF later
<1> HIDE DEF ordered
<1>14. RuleKeeps(c, e, later)
  <2>1. e = ordered \/ e = ToDefaults(ordered, {"limit", "emergency"})
    BY <1>1
  <2> QED
    BY <1>12, <1>13, <2>1 DEF later
<1> QED
  BY <1>14 DEF RuleKeeps, later, ConfigKeys

\* Whatever the files set: the engine can bind its ports; the redundancies are in order, unless
\* a NaN stays what it is or validate() panics; and that takes a lower limit above the upper
\* one's default.
THEOREM ValidateLeavesUsable ==
  ASSUME NEW c, IsConfig(c), c["tcp"] \in Int, c["udp"] \in Int,
         c["fecMin"] \in Int \cup {NaN}, c["fecMax"] \in Int \cup {NaN},
         c["fec"] \in Int \cup {NaN}
  PROVE  /\ PortsUsable(Validated(c))
         /\ ~Panics(c) /\ c["fec"] # NaN => FecOrdered(Validated(c))
         /\ Panics(c) => c["fecMin"] \in Int /\ c["fecMin"] > Defaults["fecMax"]
<1> DEFINE bound == PortsApart(c)
           limits == FecLimits(bound)
           clamped == FecInLimits(limits)
           e == Validated(c)
<1>1. RuleKeeps(c, bound, {"tcp", "udp"}) /\ PortsUsable(bound)
  BY PortsRule
<1>2. e = ThermalOrder(ThermalRanges(RadiiNested(InRange(clamped, "rate", 32, 512))))
  BY DEF Validated
<1>3. Panics(c) <=> FecPanics(limits)
  BY DEF Panics
<1> HIDE DEF bound, e
<1>4. /\ bound["fecMin"] = c["fecMin"] /\ bound["fecMax"] = c["fecMax"] /\ bound["fec"] = c["fec"]
      /\ IsConfig(bound)
  BY <1>1 DEF RuleKeeps, ConfigKeys
<1>5. /\ RuleKeeps(bound, limits, {"fecMin", "fecMax"})
      /\ limits["fecMin"] \in Int /\ limits["fecMax"] \in Int
      /\ limits["fecMin"] > limits["fecMax"] =>
           limits["fecMin"] = c["fecMin"] /\ limits["fecMax"] = Defaults["fecMax"]
  BY <1>4, FecLimitsRule
<1> HIDE DEF limits
<1>6. /\ limits["fec"] = c["fec"] /\ limits["tcp"] = bound["tcp"] /\ limits["udp"] = bound["udp"]
      /\ IsConfig(limits)
  BY <1>4, <1>5 DEF RuleKeeps, ConfigKeys
<1>7. /\ RuleKeeps(limits, clamped, {"fec"})
      /\ ~FecPanics(limits) /\ limits["fec"] # NaN =>
           clamped["fec"] \in Int /\ clamped["fecMin"] <= clamped["fec"]
           /\ clamped["fec"] <= clamped["fecMax"]
  BY <1>5, <1>6, FecRule
<1> HIDE DEF clamped
<1>8. /\ \A k \in {"tcp", "udp", "fecMin", "fecMax", "fec"} : e[k] = clamped[k]
      /\ clamped["tcp"] = limits["tcp"] /\ clamped["udp"] = limits["udp"]
      /\ clamped["fecMin"] = limits["fecMin"] /\ clamped["fecMax"] = limits["fecMax"]
  BY <1>2, <1>7, LaterRules DEF RuleKeeps, ConfigKeys
<1>9. PortsUsable(e)
  BY <1>1, <1>6, <1>8 DEF PortsUsable
<1>10. ASSUME ~Panics(c), c["fec"] # NaN PROVE FecOrdered(e)
  <2>1. e["fec"] \in Int /\ e["fecMin"] <= e["fec"] /\ e["fec"] <= e["fecMax"]
    BY <1>3, <1>6, <1>7, <1>8, <1>10
  <2>2. e["fecMin"] \in Int /\ e["fecMax"] \in Int /\ e["fec"] # NaN
    BY <1>5, <1>8, <2>1, ConfigAssumption DEF ConfigAssumption
  <2> QED
    BY <2>1, <2>2 DEF FecOrdered, Outside
<1>11. ASSUME Panics(c) PROVE c["fecMin"] \in Int /\ c["fecMin"] > Defaults["fecMax"]
  BY <1>3, <1>5, <1>11 DEF FecPanics
<1> QED
  BY <1>9, <1>10, <1>11 DEF e

=========================================================================
