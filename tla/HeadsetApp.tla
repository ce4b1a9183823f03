----------------------------- MODULE HeadsetApp -----------------------------
(***************************************************************************)
(* The headset application's main thread (openxr_app.cpp, main.cpp): the   *)
(* launch request it takes up, the OpenXR session, and how a received      *)
(* frame goes through MediaCodec (video_decoder.cpp) to the eyes, turned   *)
(* from the orientation that the PC rendered it at (render_pose_log.h).    *)
(*                                                                         *)
(* The loop reads events, feeds the decoder and renders, in that order;    *)
(* the session thread, the receive thread, the decoder and Android go on   *)
(* meanwhile.  What happens to a stream is in StreamSession, and which     *)
(* frames are received in VideoReceiver: here streams open and end, and    *)
(* frames come in order.                                                   *)
(***************************************************************************)
EXTENDS Naturals, Sequences

CONSTANTS
  StreamConfigs,   \* STREAM_CONFIG: [size, duration, posed], for codec and size, frame
                   \* duration, and whether frames have their pose ahead
  LogSize,         \* RenderPoseLog::kSize
  InputBuffers,    \* of the codec
  MaxVideoStreams, \* bound
  MaxFrameIndex,   \* bound
  MaxLaunches      \* bound

ASSUME HeadsetAssumption ==
  /\ \A c \in StreamConfigs : c.duration \in Nat \ {0} /\ c.posed \in BOOLEAN
  /\ {LogSize, InputBuffers} \subseteq Nat \ {0}
  /\ {MaxVideoStreams, MaxFrameIndex, MaxLaunches} \subseteq Nat

VARIABLES
  appPhase,    \* of the main loop: "events", "feed" or "render"; "off" when the app is gone
  xrSession,   \* "idle" or "ready"
  rendering,   \* m_rendering
  launchFile,  \* LAUNCH_REQUEST_FILE: "none", "valid" or "malformed"
  launches,
  stream,      \* of StreamSession: [id, config, at], at one of "off", "asked", "opened", "on"
  streamEvents,\* its events: "streaming" and "down"
  received,    \* VideoReceiver's queue: [stream, index, posed, intact]
  nextIndex,
  codec,       \* MediaCodec: [on, size, input, output], frames with their timestamps
  poseLog,     \* m_renderPoses: for each entry, the frame it is of
  appConfig,   \* m_framePose and m_frameDurationUs: those of a stream, or the native ones
  configured,  \* history: the stream that was open when appConfig was set
  picture      \* what the eyes see: [frame, turnedFrom, shown], and whether no stream had
               \* opened that the loop had not configured for

launchVars == <<launchFile, launches>>
streamVars == <<stream, received, nextIndex>>
pictureVars == <<codec, poseLog, appConfig, configured>>
loopVars == <<appPhase, xrSession, rendering>>
headsetVars == <<loopVars, launchVars, streamVars, streamEvents, pictureVars, picture>>

Nothing == [stream |-> 0, index |-> 0]
NoPicture == [frame |-> Nothing, turnedFrom |-> Nothing, shown |-> FALSE, settled |-> TRUE]
NoLog == [e \in 0 .. LogSize - 1 |-> Nothing]
NoCodec == [on |-> FALSE, size |-> 0, input |-> <<>>, output |-> <<>>]
NativeConfig == [size |-> 0, duration |-> 1, posed |-> FALSE]
Of(f) == [stream |-> f.stream, index |-> f.index]

-----------------------------------------------------------------------------
(***************************************************************************)
(* The decoder.                                                            *)
(***************************************************************************)
Flushed(c) == [c EXCEPT !.input = <<>>, !.output = <<>>]

\* submitPacket(): no wait for an input buffer.
Submittable == codec.on /\ Len(codec.input) < InputBuffers

DecoderDecodes ==
  /\ codec.input # <<>>
  /\ codec' = [codec EXCEPT !.input = Tail(@), !.output = Append(@, Head(codec.input))]
  /\ UNCHANGED <<loopVars, launchVars, streamVars, streamEvents, poseLog, appConfig, configured, picture>>

\* configureDecoder(): the same codec and size are flushed, another decoder may fail to start.
ConfigureDecoder(config) ==
  /\ appConfig' = config /\ configured' = stream.id
  /\ poseLog' = NoLog
  /\ IF codec.on /\ codec.size = config.size
     THEN codec' = Flushed(codec) /\ UNCHANGED picture
     ELSE /\ \E ok \in BOOLEAN : codec' = [NoCodec EXCEPT !.on = ok, !.size = config.size]
          /\ picture' = NoPicture

-----------------------------------------------------------------------------
(***************************************************************************)
(* MainActivity, the session thread, the receive thread and OpenXR.        *)
(***************************************************************************)
\* saveLaunchRequest(): written and renamed; a later one replaces it.
Launch ==
  /\ launches < MaxLaunches
  /\ launches' = launches + 1
  /\ launchFile' \in {"valid", "malformed"}
  /\ UNCHANGED <<loopVars, streamVars, streamEvents, pictureVars, picture>>

\* The hook has the receiver clear its queue for the stream that starts.
StreamOpens ==
  /\ stream.at = "asked" /\ stream.id < MaxVideoStreams
  /\ \E config \in StreamConfigs :
       stream' = [id |-> stream.id + 1, config |-> config, at |-> "opened"]
  /\ received' = <<>> /\ nextIndex' \in {0, nextIndex}     \* 0: the engine was restarted
  /\ UNCHANGED <<loopVars, launchVars, streamEvents, pictureVars, picture>>

StreamStarted ==
  /\ stream.at = "opened"
  /\ stream' = [stream EXCEPT !.at = "on"]
  /\ streamEvents' = Append(streamEvents, "streaming")
  /\ UNCHANGED <<loopVars, launchVars, received, nextIndex, pictureVars, picture>>

\* It fails or is lost, and the session thread reconnects.
StreamDown ==
  /\ stream.at \in {"opened", "on"}
  /\ stream' = [stream EXCEPT !.at = "asked"]
  /\ streamEvents' = IF stream.at = "on" THEN Append(streamEvents, "down") ELSE streamEvents
  /\ received' = <<>>
  /\ UNCHANGED <<loopVars, launchVars, nextIndex, pictureVars, picture>>

\* Frames may be skipped; one may hold no NAL unit that the validator passes.
FrameReceived ==
  /\ stream.at \in {"opened", "on"}
  /\ \E i \in nextIndex .. MaxFrameIndex, intact \in BOOLEAN :
       /\ nextIndex' = i + 1
       /\ received' = Append(received, [stream |-> stream.id, index |-> i,
                                        posed |-> stream.config.posed, intact |-> intact])
  /\ UNCHANGED <<loopVars, launchVars, stream, streamEvents, pictureVars, picture>>

-----------------------------------------------------------------------------
(***************************************************************************)
(* The main loop.                                                          *)
(***************************************************************************)
Quit == appPhase' = "off" /\ UNCHANGED <<xrSession, rendering>>

\* pollAndroidEvents(), pollEvents(): destroyed, or the OpenXR session changes.
SessionChanges ==
  /\ appPhase = "events"
  /\ \/ Quit
     \/ /\ xrSession' = IF xrSession = "idle" THEN "ready" ELSE "idle"
        /\ UNCHANGED <<appPhase, rendering>>
  /\ UNCHANGED <<launchVars, streamVars, streamEvents, pictureVars, picture>>

\* checkLaunchRequest(), startStreamSession(): once a second, read and removed; stop()
\* ends the previous stream, and start() forgets its events.
CheckLaunch ==
  /\ appPhase = "events" /\ launchFile # "none"
  /\ launchFile' = "none"
  /\ IF launchFile = "valid"
     THEN /\ stream' = [stream EXCEPT !.at = "asked"]
          /\ received' = <<>> /\ streamEvents' = <<>>
     ELSE UNCHANGED <<stream, received, streamEvents>>
  /\ UNCHANGED <<loopVars, launches, nextIndex, pictureVars, picture>>

\* handleStreamEvents() configures for the latest stream, not for the one it is told of.
HandleStreamEvent ==
  /\ appPhase = "events" /\ streamEvents # <<>>
  /\ streamEvents' = Tail(streamEvents)
  /\ IF Head(streamEvents) = "streaming"
     THEN ConfigureDecoder(stream.config)
     ELSE UNCHANGED <<pictureVars, picture>>
  /\ UNCHANGED <<loopVars, launchVars, streamVars>>

\* Rendering or not: without a session the queue is thrown away, and with one again
\* requireKeyframe() does so.
EventsHandled ==
  /\ appPhase = "events" /\ streamEvents = <<>>
  /\ rendering' = (xrSession = "ready")
  /\ appPhase' = IF rendering' THEN "feed" ELSE "events"
  /\ received' = IF rendering /\ rendering' THEN received ELSE <<>>
  /\ UNCHANGED <<xrSession, launchVars, stream, nextIndex, streamEvents, pictureVars, picture>>

\* submitDecodedFrame(): a frame without its pose, without a NAL unit or without an input
\* buffer is dropped, and the queue with it (requireKeyframe).
FeedFrame ==
  /\ appPhase = "feed" /\ received # <<>>
  /\ LET f == Head(received)
         readable == appConfig.posed => f.posed
         taken == readable /\ f.intact /\ Submittable
     IN /\ poseLog' = IF appConfig.posed /\ readable
                      THEN [poseLog EXCEPT ![f.index % LogSize] = Of(f)] ELSE poseLog
        /\ received' = IF taken THEN Tail(received) ELSE <<>>
        /\ codec' = IF taken
                    THEN [codec EXCEPT !.input =
                            Append(@, [frame |-> Of(f), pts |-> f.index * appConfig.duration])]
                    ELSE IF readable /\ ~f.intact THEN Flushed(codec) ELSE codec
  /\ UNCHANGED <<loopVars, launchVars, stream, nextIndex, streamEvents, appConfig, configured, picture>>

AllFed ==
  /\ appPhase = "feed" /\ received = <<>>
  /\ appPhase' = "render"
  /\ UNCHANGED <<xrSession, rendering, launchVars, streamVars, streamEvents, pictureVars, picture>>

\* Mutant of PoseFor: the entry is taken without a look at its index.
PoseAnyway(pts) ==
  LET index == (pts + appConfig.duration \div 2) \div appConfig.duration
  IN IF appConfig.posed THEN poseLog[index % LogSize] ELSE Nothing

\* frameIndexOf() and find(): the entry of the frame with this timestamp.
PoseFor(pts) ==
  LET index == (pts + appConfig.duration \div 2) \div appConfig.duration
      entry == poseLog[index % LogSize]
  IN IF appConfig.posed /\ entry.index = index THEN entry ELSE Nothing

\* renderFrame(): the oldest frame the decoder has put out, if the connection is well.
RenderFrame ==
  /\ appPhase = "render"
  /\ appPhase' = "events"
  /\ \/ /\ codec.output # <<>>
        /\ LET out == Head(codec.output)
           IN picture' = [frame |-> out.frame, turnedFrom |-> PoseFor(out.pts), shown |-> TRUE,
                          settled |-> configured = stream.id]
        /\ codec' = [codec EXCEPT !.output = Tail(@)]
     \/ UNCHANGED <<codec, picture>>     \* nothing decoded, not to be rendered, or connectionLost
  /\ UNCHANGED <<xrSession, rendering, launchVars, streamVars, streamEvents, poseLog, appConfig, configured>>

-----------------------------------------------------------------------------
HeadsetInit ==
  /\ appPhase = "events" /\ xrSession = "idle" /\ rendering = FALSE
  /\ launchFile = "none" /\ launches = 0
  /\ stream = [id |-> 0, config |-> NativeConfig, at |-> "off"]
  /\ streamEvents = <<>> /\ received = <<>> /\ nextIndex = 0
  /\ codec \in {NoCodec, [NoCodec EXCEPT !.on = TRUE]}
  /\ poseLog = NoLog /\ appConfig = NativeConfig /\ configured = 0
  /\ picture = NoPicture

HeadsetNext ==
  \/ DecoderDecodes
  \/ Launch \/ StreamOpens \/ StreamStarted \/ StreamDown \/ FrameReceived
  \/ SessionChanges \/ CheckLaunch \/ HandleStreamEvent \/ EventsHandled
  \/ FeedFrame \/ AllFed \/ RenderFrame

HeadsetSpec == HeadsetInit /\ [][HeadsetNext]_headsetVars

-----------------------------------------------------------------------------
(***************************************************************************)
(* The eyes are not shown a frame turned from another frame's orientation  *)
(* (m_renderPoses keeps entries by index alone, and the decoder gives back *)
(* only a timestamp), over streams that number their frames alike and      *)
(* differ in frame duration, frames that the decoder refused or flushed,   *)
(* and a log that wraps; except while a stream has opened whose event the  *)
(* loop has not handled.                                                   *)
(***************************************************************************)
PictureTurnedFromItsPose ==
  picture.shown /\ picture.settled => picture.turnedFrom \in {Nothing, picture.frame}
=============================================================================
