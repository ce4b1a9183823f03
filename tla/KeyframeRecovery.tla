-------------------------- MODULE KeyframeRecovery --------------------------
(***************************************************************************)
(* How the headset gets a keyframe again after a loss, across everything   *)
(* that takes part: SteamVR's Present() and the encoder (direct_mode.cpp,  *)
(* nvenc_encoder.cpp), the engine's frame channel, session and control     *)
(* channel (engine.rs), the network, and the client's assembler, receiver  *)
(* and session thread (frame_assembler.cpp, video_receiver.cpp,            *)
(* stream_session.cpp).                                                    *)
(*                                                                         *)
(* A frame is whether it is a keyframe and whether an index before it is   *)
(* missing; FrameAssembler has them in detail.  Each stage may lose a      *)
(* frame, and a request for a keyframe may be dropped by the client before *)
(* it streams, by the engine's rate limit, or with an encode that fails.   *)
(* The keyframe the encoder makes every m_idrInterval frames is left out:  *)
(* recovery must not wait for it.                                          *)
(***************************************************************************)
EXTENDS Naturals, Sequences

CONSTANTS
  FrameRoom,    \* the capacity of the channel between driver and engine
  MaxRequests,  \* bound: IDR_REQUESTs under way
  MaxSessions   \* bound: sessions

ASSUME RecoveryAssumption ==
  /\ FrameRoom \in Nat \ {0}
  /\ MaxRequests \in Nat \ {0}
  /\ MaxSessions \in Nat

VARIABLES
  idrRequested,  \* s_idrRequested of the encoder
  encoding,      \* the picture in encode(): "idr", "p", or "none"
  gap,           \* an index since the last frame in the channel has no frame
  channel,       \* the engine's frame_rx
  net,           \* the video frame under way, or NoFrame
  missed,        \* an index since the last frame the client saw is missing
  waiting,       \* m_waitingForKeyframe
  asked,         \* m_idrAsked, and less than kIdrRepeat ago
  pending,       \* StreamSession::m_idrPending
  requests,      \* IDR_REQUESTs under way
  recent,        \* last_idr_time of the engine is less than 500 ms ago
  session,       \* "off"; "receiving", when the client opened the receiver; "serving", when also the
                 \* engine's session runs; "streaming", when also isStreaming() holds
  sessions       \* sessions begun

encoderVars == <<idrRequested, encoding, gap>>
clientVars == <<missed, waiting, asked, pending>>
requestVars == <<requests, recent>>
sessionVars == <<session, sessions>>
recoveryVars == <<encoderVars, channel, net, clientVars, requestVars, sessionVars>>

Frames == [key : BOOLEAN, gap : BOOLEAN]

-----------------------------------------------------------------------------
(* Driver: Present() and NvencEncoder::encode().                           *)

\* The frame takes an index, and nothing is encoded: no layers, a texture that cannot be read, or the
\* compositor is late.
PresentSkips ==
  /\ encoding = "none"
  /\ gap' = TRUE
  /\ UNCHANGED <<idrRequested, encoding, channel, net, clientVars, requestVars, sessionVars>>

\* encode() takes the request before it encodes.
TakeRequest ==
  /\ encoding = "none"
  /\ encoding' = IF idrRequested THEN "idr" ELSE "p"
  /\ idrRequested' = FALSE
  /\ UNCHANGED <<gap, channel, net, clientVars, requestVars, sessionVars>>

\* No input, no picture, no bitstream: the request is gone with the frame.
EncodeFails ==
  /\ encoding # "none"
  /\ encoding' = "none"
  /\ gap' = TRUE
  /\ UNCHANGED <<idrRequested, channel, net, clientVars, requestVars, sessionVars>>

\* submit_frame(): a frame that does not fit is dropped.
SubmitFrame ==
  /\ encoding # "none"
  /\ encoding' = "none"
  /\ IF Len(channel) < FrameRoom
     THEN channel' = Append(channel, [key |-> encoding = "idr", gap |-> gap]) /\ gap' = FALSE
     ELSE gap' = TRUE /\ UNCHANGED channel
  /\ UNCHANGED <<idrRequested, net, clientVars, requestVars, sessionVars>>

-----------------------------------------------------------------------------
(* Engine.                                                                 *)
Serves == session \in {"serving", "streaming"}

SendFrame ==
  /\ Serves
  /\ channel # <<>>
  /\ net = <<>>
  /\ net' = <<Head(channel)>>
  /\ channel' = Tail(channel)
  /\ UNCHANGED <<encoderVars, clientVars, requestVars, sessionVars>>

\* IDR_REQUEST: at most one in 500 ms gets to the encoder.
HandleRequest ==
  /\ requests > 0
  /\ Serves
  /\ requests' = requests - 1
  /\ IF recent
     THEN UNCHANGED <<recent, idrRequested>>
     ELSE recent' = TRUE /\ idrRequested' = TRUE
  /\ UNCHANGED <<encoding, gap, channel, net, clientVars, sessionVars>>

EngineWindowEnds ==
  /\ recent
  /\ recent' = FALSE
  /\ UNCHANGED <<encoderVars, channel, net, clientVars, requests, sessionVars>>

-----------------------------------------------------------------------------
(* Client.                                                                 *)

\* askForIdr() and requestIdr(), which is lost before the stream is up.
Ask ==
  /\ asked' = TRUE
  /\ pending' = (pending \/ (~asked /\ session = "streaming"))

\* Mutant of Arrives: a frame that is skipped asks for nothing.
ArrivesInSilence(f) ==
  /\ missed' = FALSE
  /\ IF f.key THEN waiting' = FALSE ELSE waiting' = (waiting \/ f.gap \/ missed)
  /\ IF (f.gap \/ missed) /\ ~waiting THEN Ask ELSE UNCHANGED <<asked, pending>>

\* A complete frame: after a gap, or while a keyframe is waited for, one that is not a keyframe is
\* skipped, and a keyframe asked for; a gap before a keyframe asks for one, too.
Arrives(f) ==
  LET breaks == f.gap \/ missed
  IN /\ missed' = FALSE
     /\ waiting' = (~f.key /\ (waiting \/ breaks))
     /\ IF breaks \/ waiting' THEN Ask ELSE UNCHANGED <<asked, pending>>

FrameArrives ==
  /\ net # <<>>
  /\ net' = <<>>
  /\ Arrives(Head(net))
  /\ UNCHANGED <<encoderVars, channel, requestVars, sessionVars>>

\* Nothing of the frame arrives; or not enough, and it times out.
FrameLost ==
  /\ net # <<>>
  /\ net' = <<>>
  /\ \/ missed' = TRUE /\ UNCHANGED <<waiting, asked, pending>>
     \/ waiting' = TRUE /\ Ask /\ missed' = FALSE
  /\ UNCHANGED <<encoderVars, channel, requestVars, sessionVars>>

\* requireKeyframe(): the decoder lost a frame, or the queue overflowed.
ConsumerRequires ==
  /\ session # "off"
  /\ waiting' = TRUE
  /\ Ask
  /\ UNCHANGED <<encoderVars, channel, net, missed, requestVars, sessionVars>>

ClientWindowEnds ==
  /\ asked
  /\ asked' = FALSE
  /\ UNCHANGED <<encoderVars, channel, net, missed, waiting, pending, requestVars, sessionVars>>

\* serve(): the session thread takes the flag and sends IDR_REQUEST.
SendRequest ==
  /\ session = "streaming"
  /\ pending
  /\ requests < MaxRequests
  /\ pending' = FALSE
  /\ requests' = requests + 1
  /\ UNCHANGED <<encoderVars, channel, net, missed, waiting, asked, recent, sessionVars>>

-----------------------------------------------------------------------------
(* Sessions.  A flag that was set in the last one is kept.                 *)

ReceiverOpens ==
  /\ session = "off"
  /\ sessions < MaxSessions
  /\ session' = "receiving"
  /\ sessions' = sessions + 1
  /\ missed' = FALSE
  /\ waiting' = TRUE
  /\ asked' = FALSE
  /\ UNCHANGED <<encoderVars, channel, net, pending, requestVars>>

\* run_session() starts clean: the frames from before go, and a keyframe is requested.
EngineServes ==
  /\ session = "receiving"
  /\ session' = "serving"
  /\ channel' = <<>>
  /\ idrRequested' = TRUE
  /\ recent' = FALSE
  /\ UNCHANGED <<encoding, gap, net, clientVars, requests, sessions>>

StreamIsUp ==
  /\ session = "serving"
  /\ session' = "streaming"
  /\ UNCHANGED <<encoderVars, channel, net, clientVars, requestVars, sessions>>

SessionEnds ==
  /\ session # "off"
  /\ session' = "off"
  /\ net' = <<>>
  /\ requests' = 0
  /\ waiting' = FALSE
  /\ UNCHANGED <<encoderVars, channel, missed, asked, pending, recent, sessions>>

-----------------------------------------------------------------------------
RecoveryInit ==
  /\ idrRequested = FALSE /\ encoding = "none" /\ gap = FALSE
  /\ channel = <<>> /\ net = <<>>
  /\ missed = FALSE /\ waiting = FALSE /\ asked = FALSE /\ pending = FALSE
  /\ requests = 0 /\ recent = FALSE
  /\ session = "off" /\ sessions = 0

RecoveryNext ==
  \/ PresentSkips \/ TakeRequest \/ EncodeFails \/ SubmitFrame
  \/ SendFrame \/ HandleRequest \/ EngineWindowEnds
  \/ FrameArrives \/ FrameLost \/ ConsumerRequires \/ ClientWindowEnds \/ SendRequest
  \/ ReceiverOpens \/ EngineServes \/ StreamIsUp \/ SessionEnds

\* The threads run and the windows end.  SteamVR presents frames all the time.
RecoveryFairness ==
  /\ WF_recoveryVars(TakeRequest) /\ WF_recoveryVars(SubmitFrame) /\ WF_recoveryVars(SendFrame)
  /\ WF_recoveryVars(HandleRequest) /\ WF_recoveryVars(SendRequest)
  /\ WF_recoveryVars(EngineWindowEnds) /\ WF_recoveryVars(ClientWindowEnds)
  /\ WF_recoveryVars(EngineServes) /\ WF_recoveryVars(StreamIsUp)

\* Not every encode fails nor meets a full channel: of the pictures encoded again and again, one gets
\* into the channel.  Not every frame is lost on the network: of those sent again and again, one
\* arrives.  Both for keyframes.
FramesGetThrough ==
  /\ \A picture \in {"idr", "p"} :
       []<>(encoding = picture)
       => []<><<SubmitFrame /\ encoding = picture /\ Len(channel) < FrameRoom>>_recoveryVars
  /\ \A key \in BOOLEAN : SF_recoveryVars(FrameArrives /\ Head(net).key = key)

RecoverySpec == RecoveryInit /\ [][RecoveryNext]_recoveryVars /\ RecoveryFairness

-----------------------------------------------------------------------------
(* Properties.                                                             *)
RecoveryTypeOK ==
  /\ {idrRequested, gap, missed, waiting, asked, pending, recent} \subseteq BOOLEAN
  /\ encoding \in {"none", "idr", "p"}
  /\ channel \in Seq(Frames) /\ Len(channel) <= FrameRoom
  /\ net \in {<<>>} \cup {<<f>> : f \in Frames}
  /\ requests \in 0 .. MaxRequests
  /\ session \in {"off", "receiving", "serving", "streaming"}
  /\ sessions \in 0 .. MaxSessions

\* A client that waits for a keyframe gets one while its session lasts, whatever became of its
\* requests: dropped before the stream was up, suppressed by the engine, taken by an encode that failed.
KeyframeComes == FramesGetThrough => (waiting ~> ~waiting)

=============================================================================
