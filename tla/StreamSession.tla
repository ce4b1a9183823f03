---------------------------- MODULE StreamSession ----------------------------
(***************************************************************************)
(* The client's connection to the engine (stream_session.cpp), between the *)
(* session thread that connects, pairs, streams and reconnects following   *)
(* ClientSession (client_session.h), and the app's main thread             *)
(* (openxr_app.cpp), which starts and stops it, queues messages and        *)
(* handles what it reports.                                                *)
(*                                                                         *)
(* What the threads share is guarded by m_mutex or atomic; one action is   *)
(* what a thread does between two points where the other could see or      *)
(* change something.  The engine is a peer that may refuse, reject, stop   *)
(* answering or go away at any step.  The length of a backoff, the         *)
(* heartbeats and the requests for a keyframe are left out; of the video,  *)
(* the receiver is on or off, and one frame at a time waits for the app.   *)
(***************************************************************************)
EXTENDS Naturals, Sequences

CONSTANTS
  Views,       \* payloads of VIEW_CONFIG
  NoView,      \* none yet
  MaxOutbox,   \* kMaxOutbox
  MaxEvents,   \* kMaxEvents
  MaxStreams,  \* bound: streams that are configured
  MaxStarts    \* bound: launches

ASSUME SessionAssumption ==
  /\ NoView \notin Views
  /\ MaxOutbox \in Nat \ {0} /\ MaxEvents \in Nat \ {0}
  /\ MaxStreams \in Nat /\ MaxStarts \in Nat

VARIABLES
  at,         \* where the session thread is in run(), "off" if there is none
  state,      \* m_state; at the top of run()'s loop also the state of its ClientSession
  stop,       \* m_stop
  outbox,     \* m_outbox: for each message, the stream it was queued in
  events,     \* m_events
  view,       \* m_view
  unsent,     \* m_viewUnsent
  streams,    \* how many streams were configured: m_config is that of the last
  receiving,  \* the stream that VideoReceiver receives, 0 for none
  frame,      \* the stream's frame that waits for the app
  app,        \* where the main thread is in its loop
  starts,     \* launches
  pairing,    \* OpenXRApp::m_pairingState
  sleeping,   \* OpenXRApp::m_sleeping
  framePose,  \* OpenXRApp::m_framePose
  decoder,    \* the stream whose frames the decoder can decode, 0 for none
  engine,     \* the engine's side of the connection
  overflowed  \* history: an event was dropped since the start

threadVars == <<at, state>>
queueVars == <<outbox, events, overflowed>>
viewVars == <<view, unsent>>
videoVars == <<receiving, frame, framePose, decoder>>
shownVars == <<pairing, sleeping>>
appVars == <<app, starts>>
sessionVars == <<threadVars, stop, queueVars, viewVars, streams, videoVars, shownVars, appVars, engine>>

NoFrame == [stream |-> 0, key |-> FALSE]

\* Of a connection: whether STREAM_START, which VIEW_CONFIG and whether
\* DISCONNECT came, and whether the engine sent a keyframe and sleeps.
NoConnection ==
  [link |-> "none", started |-> FALSE, view |-> NoView, left |-> FALSE, keySent |-> FALSE, asleep |-> FALSE]

Disconnects == engine' = NoConnection

\* pushEvent(): drops the oldest.
PushEvent(e) ==
  LET full == Len(events) >= MaxEvents
  IN /\ events' = Append(IF full THEN Tail(events) ELSE events, e)
     /\ overflowed' = (overflowed \/ full)
     /\ UNCHANGED outbox

\* The hooks: VideoReceiver::beginSession() and endSession().
BeginReceiving(s) == receiving' = s /\ frame' = NoFrame /\ UNCHANGED <<framePose, decoder>>
EndReceiving == BeginReceiving(0)

-----------------------------------------------------------------------------
(* Session thread: run().                                                  *)

\* The loop goes on, in the state that ClientSession is in.
AtTop(s) == at = "top" /\ state = s /\ ~stop
Becomes(s) == at' = "top" /\ state' = s

ConnectEnds ==
  /\ AtTop("Connecting")
  /\ \/ Becomes("Pairing") /\ engine' = [NoConnection EXCEPT !.link = "up"]
     \/ Becomes("Reconnecting") /\ UNCHANGED engine
  /\ UNCHANGED <<stop, queueVars, viewVars, streams, videoVars, shownVars, appVars>>

\* The PIN is accepted only while the bound leaves room for a stream.
HandshakeOk ==
  /\ AtTop("Pairing")
  /\ engine.link = "up"
  /\ streams < MaxStreams
  /\ Becomes("Configuring")
  /\ UNCHANGED <<stop, queueVars, viewVars, streams, videoVars, shownVars, appVars, engine>>

PinRejected ==
  /\ AtTop("Pairing")
  /\ engine.link = "up"
  /\ Becomes("Disconnected")
  /\ Disconnects
  /\ PushEvent("PinRejected")
  /\ UNCHANGED <<stop, viewVars, streams, videoVars, shownVars, appVars>>

HandshakeFails ==
  /\ AtTop("Pairing")
  /\ Becomes("Reconnecting")
  /\ Disconnects
  /\ UNCHANGED <<stop, queueVars, viewVars, streams, videoVars, shownVars, appVars>>

\* m_config is that of the new stream, and the receiver waits for it.
Configure ==
  /\ AtTop("Configuring")
  /\ at' = "configured"
  /\ streams' = streams + 1
  /\ BeginReceiving(streams')
  /\ UNCHANGED <<state, stop, queueVars, viewVars, shownVars, appVars, engine>>

\* STREAM_START is sent, or written to a connection that is already lost.
StartStream ==
  /\ at = "configured"
  /\ at' = "started"
  /\ engine' = [engine EXCEPT !.started = (engine.link = "up")]
  /\ UNCHANGED <<state, stop, queueVars, viewVars, streams, videoVars, shownVars, appVars>>

\* Mutant: the receiver stays on.
StartFailsReceiving ==
  /\ at = "configured"
  /\ engine.link = "lost"
  /\ Becomes("Reconnecting")
  /\ Disconnects
  /\ UNCHANGED <<stop, queueVars, viewVars, streams, videoVars, shownVars, appVars>>

StartFails ==
  /\ at = "configured"
  /\ engine.link = "lost"
  /\ Becomes("Reconnecting")
  /\ Disconnects
  /\ EndReceiving
  /\ UNCHANGED <<stop, queueVars, viewVars, streams, shownVars, appVars>>

\* isStreaming() before the app sees the event.
OpenStream ==
  /\ at = "started"
  /\ at' = "open"
  /\ state' = "Streaming"
  /\ UNCHANGED <<stop, queueVars, viewVars, streams, videoVars, shownVars, appVars, engine>>

Announce ==
  /\ at = "open"
  /\ Becomes("Streaming")
  /\ PushEvent("Streaming")
  /\ UNCHANGED <<stop, viewVars, streams, videoVars, shownVars, appVars, engine>>

-----------------------------------------------------------------------------
(* Session thread: runStreaming().                                         *)

\* Mutant: the view is only sent when it changes.
ServeAsBefore ==
  /\ AtTop("Streaming")
  /\ at' = "serving"
  /\ UNCHANGED <<state, stop, queueVars, viewVars, streams, videoVars, shownVars, appVars, engine>>

\* Every session gets the headset's view.
Serve ==
  /\ AtTop("Streaming")
  /\ at' = "serving"
  /\ unsent' = (view # NoView)
  /\ UNCHANGED <<state, stop, queueVars, view, streams, videoVars, shownVars, appVars, engine>>

Serving == at = "serving" /\ ~stop

\* The queued messages and the view go out, or into a connection that is
\* already lost.
SendQueued ==
  /\ Serving
  /\ outbox # <<>> \/ unsent
  /\ outbox' = <<>>
  /\ unsent' = FALSE
  /\ engine' = [engine EXCEPT !.view = IF unsent /\ engine.link = "up" THEN view ELSE @]
  /\ UNCHANGED <<threadVars, stop, events, overflowed, view, streams, videoVars, shownVars, appVars>>

\* dispatch() of SLEEP_ENTER or SLEEP_EXIT.  The other messages of the engine
\* only take room in the queue, as these do.
Dispatch ==
  /\ Serving
  /\ engine.link = "up" /\ engine.started
  /\ engine' = [engine EXCEPT !.asleep = ~@]
  /\ PushEvent(IF engine.asleep THEN "SleepExit" ELSE "SleepEnter")
  /\ UNCHANGED <<threadVars, stop, viewVars, streams, videoVars, shownVars, appVars>>

\* A write fails, the connection is closed, or nothing was heard for too long.
NoticeLoss ==
  /\ Serving
  /\ engine.link = "lost"
  /\ at' = "dropped"
  /\ UNCHANGED <<state, stop, queueVars, viewVars, streams, videoVars, shownVars, appVars, engine>>

-----------------------------------------------------------------------------
(* Session thread: the end of a stream, waiting, and leaving.              *)

EndStream ==
  /\ at = "dropped" /\ ~stop
  /\ at' = "ended"
  /\ Disconnects
  /\ outbox' = <<>>
  /\ EndReceiving
  /\ UNCHANGED <<state, stop, events, overflowed, viewVars, streams, shownVars, appVars>>

\* Mutant: only the screen's own check of isStreaming() tells.
ReportEndSilently ==
  /\ at = "ended"
  /\ at' = "closing"
  /\ UNCHANGED <<state, stop, queueVars, viewVars, streams, videoVars, shownVars, appVars, engine>>

ReportEnd ==
  /\ at = "ended"
  /\ at' = "closing"
  /\ PushEvent("Disconnected")
  /\ UNCHANGED <<state, stop, viewVars, streams, videoVars, shownVars, appVars, engine>>

CloseStream ==
  /\ at = "closing"
  /\ Becomes("Reconnecting")
  /\ UNCHANGED <<stop, queueVars, viewVars, streams, videoVars, shownVars, appVars, engine>>

\* Between the loop's look at m_stop and the wait.
GoToWait ==
  /\ AtTop("Reconnecting") \/ AtTop("Disconnected")
  /\ at' = "pausing"
  /\ UNCHANGED <<state, stop, queueVars, viewVars, streams, videoVars, shownVars, appVars, engine>>

\* Mutant: m_wake.wait() without its predicate.
WaitBlindly ==
  /\ at = "pausing"
  /\ at' = "waiting"
  /\ UNCHANGED <<state, stop, queueVars, viewVars, streams, videoVars, shownVars, appVars, engine>>

\* Under m_mutex, which the wait releases.
Wait ==
  /\ at = "pausing"
  /\ at' = IF stop THEN "woken" ELSE "waiting"
  /\ UNCHANGED <<state, stop, queueVars, viewVars, streams, videoVars, shownVars, appVars, engine>>

\* Only the wait of the backoff has a time limit.
BackoffElapses ==
  /\ at = "waiting" /\ state = "Reconnecting"
  /\ at' = "woken"
  /\ UNCHANGED <<state, stop, queueVars, viewVars, streams, videoVars, shownVars, appVars, engine>>

WakeUp ==
  /\ at = "woken"
  /\ Becomes(IF stop THEN state ELSE "Connecting")
  /\ UNCHANGED <<stop, queueVars, viewVars, streams, videoVars, shownVars, appVars, engine>>

\* Mutant: runStreaming() says goodbye, not run().
LeaveAfterServing ==
  /\ stop
  /\ at \in {"top", "serving", "dropped"}
  /\ at' = "off"
  /\ EndReceiving
  /\ engine' = [NoConnection EXCEPT !.left = at = "serving" /\ engine.link = "up"]
  /\ UNCHANGED <<state, stop, queueVars, viewVars, streams, shownVars, appVars>>

\* The loop is over: a stream is left with DISCONNECT.
Leave ==
  /\ stop
  /\ at \in {"top", "serving", "dropped"}
  /\ at' = "off"
  /\ IF state = "Streaming" THEN EndReceiving ELSE UNCHANGED videoVars
  /\ engine' = [NoConnection EXCEPT !.left = state = "Streaming" /\ engine.link = "up"]
  /\ UNCHANGED <<state, stop, queueVars, viewVars, streams, shownVars, appVars>>

SessionThread ==
  \/ ConnectEnds \/ HandshakeOk \/ PinRejected \/ HandshakeFails
  \/ Configure \/ StartStream \/ StartFails \/ OpenStream \/ Announce
  \/ Serve \/ SendQueued \/ NoticeLoss \/ EndStream \/ ReportEnd \/ CloseStream
  \/ GoToWait \/ Wait \/ BackoffElapses \/ WakeUp \/ Leave

-----------------------------------------------------------------------------
(* Main thread: OpenXRApp::mainLoop(), and StreamSession's calls in it.    *)

\* What m_pairingState and m_sleeping become with an event of the session.
Shows ==
  [Streaming |-> "Connected", Disconnected |-> "Disconnected", PinRejected |-> "Failed"]
Dims == [Streaming |-> FALSE, SleepEnter |-> TRUE, SleepExit |-> FALSE]

\* handleStreamEvents(): configureDecoder() flushes or remakes the decoder.
HandleEvent ==
  /\ app = "events"
  /\ events # <<>>
  /\ events' = Tail(events)
  /\ pairing' = IF Head(events) \in DOMAIN Shows THEN Shows[Head(events)] ELSE pairing
  /\ sleeping' = IF Head(events) \in DOMAIN Dims THEN Dims[Head(events)] ELSE sleeping
  /\ framePose' = (framePose \/ Head(events) = "Streaming")
  /\ decoder' = IF Head(events) = "Streaming" THEN 0 ELSE decoder
  /\ UNCHANGED <<threadVars, stop, outbox, overflowed, viewVars, streams, receiving, frame, appVars, engine>>

AppGoes(from, to) ==
  /\ app = from
  /\ app' = to
  /\ UNCHANGED <<threadVars, queueVars, viewVars, streams, videoVars, shownVars, starts, engine>>

EventsHandled == events = <<>> /\ AppGoes("events", "video") /\ UNCHANGED stop

FramesFed == frame = NoFrame /\ AppGoes("video", "render") /\ UNCHANGED stop

\* receiveAndDecodeVideo(): a frame that is not a keyframe needs those before it.
FeedDecoder ==
  /\ app = "video"
  /\ frame # NoFrame /\ framePose
  /\ decoder' = IF frame.key THEN frame.stream ELSE decoder
  /\ frame' = NoFrame
  /\ UNCHANGED <<threadVars, stop, queueVars, viewVars, streams, receiving, framePose, shownVars, appVars, engine>>

\* The decoder does not take the frame, or its pose is taken for its data, as
\* before the first stream: the next frame that comes is a keyframe.
RejectFrame ==
  /\ app = "video"
  /\ frame # NoFrame
  /\ decoder' = 0
  /\ frame' = NoFrame
  /\ engine' = [engine EXCEPT !.keySent = FALSE]
  /\ UNCHANGED <<threadVars, stop, queueVars, viewVars, streams, receiving, framePose, shownVars, appVars>>

\* setViewConfig(), in every rendered frame.
SetViewConfig(v) ==
  /\ app = "render"
  /\ v # view
  /\ view' = v
  /\ unsent' = TRUE
  /\ UNCHANGED <<threadVars, stop, queueVars, streams, videoVars, shownVars, appVars, engine>>

\* send() has seen isStreaming(), or there is no face to send.
Send == state = "Streaming" /\ AppGoes("render", "queue") /\ UNCHANGED stop
Rendered == AppGoes("render", "events") /\ UNCHANGED stop

\* Under m_mutex, the oldest message makes room.
Enqueue ==
  /\ app = "queue"
  /\ app' = "events"
  /\ outbox' = Append(IF Len(outbox) >= MaxOutbox THEN Tail(outbox) ELSE outbox, streams)
  /\ UNCHANGED <<threadVars, stop, events, overflowed, viewVars, streams, videoVars, shownVars, starts, engine>>

\* stop(), of startStreamSession() or of shutdown(), under m_mutex; ...
Stop ==
  /\ AppGoes("events", "notify")
  /\ stop' = TRUE

\* ... m_wake.notify_all(); ...
Notify ==
  /\ app = "notify"
  /\ app' = "join"
  /\ at' = IF at = "waiting" THEN "woken" ELSE at
  /\ UNCHANGED <<state, stop, queueVars, viewVars, streams, videoVars, shownVars, starts, engine>>

\* ... join().  The app starts again or ends.
Start ==
  /\ app = "join" /\ at = "off"
  /\ starts < MaxStarts
  /\ starts' = starts + 1
  /\ app' = "events"
  /\ stop' = FALSE
  /\ outbox' = <<>> /\ events' = <<>> /\ overflowed' = FALSE
  /\ pairing' = "Searching"
  /\ Becomes("Connecting")
  /\ UNCHANGED <<viewVars, streams, videoVars, sleeping, engine>>

Quit ==
  /\ app = "join" /\ at = "off"
  /\ app' = "gone"
  /\ state' = "Disconnected"
  /\ UNCHANGED <<at, stop, queueVars, viewVars, streams, videoVars, shownVars, starts, engine>>

-----------------------------------------------------------------------------
(* The engine and the network.                                             *)

LoseLink ==
  /\ engine.link = "up"
  /\ engine' = [engine EXCEPT !.link = "lost"]
  /\ UNCHANGED <<threadVars, stop, queueVars, viewVars, streams, videoVars, shownVars, appVars>>

\* The stream's keyframe comes first.
SendFrame ==
  /\ engine.link = "up" /\ engine.started
  /\ receiving # 0
  /\ frame = NoFrame
  /\ frame' = [stream |-> receiving, key |-> ~engine.keySent]
  /\ engine' = [engine EXCEPT !.keySent = TRUE]
  /\ UNCHANGED <<threadVars, stop, queueVars, viewVars, streams, receiving, framePose, decoder, shownVars, appVars>>

-----------------------------------------------------------------------------
SessionInit ==
  /\ at = "off" /\ state = "Disconnected" /\ stop = FALSE
  /\ outbox = <<>> /\ events = <<>> /\ overflowed = FALSE
  /\ view = NoView /\ unsent = FALSE
  /\ streams = 0
  /\ receiving = 0 /\ frame = NoFrame /\ framePose = FALSE /\ decoder = 0
  /\ app = "events" /\ starts = 0
  /\ pairing = "Idle" /\ sleeping = FALSE
  /\ engine = NoConnection

SessionNext ==
  \/ SessionThread \/ Dispatch
  \/ HandleEvent \/ EventsHandled \/ FeedDecoder \/ RejectFrame \/ FramesFed
  \/ \E v \in Views : SetViewConfig(v)
  \/ Send \/ Enqueue \/ Rendered
  \/ Stop \/ Notify \/ Start \/ Quit
  \/ LoseLink \/ SendFrame

\* Every call of the session thread has a time limit, and a lost connection
\* is noticed (livenessTimeoutMs) whatever there is to send.
SessionSpec ==
  /\ SessionInit /\ [][SessionNext]_sessionVars
  /\ WF_sessionVars(SessionThread)
  /\ WF_sessionVars(NoticeLoss)
  /\ WF_sessionVars(Notify)
  /\ WF_sessionVars(Start \/ Quit)

-----------------------------------------------------------------------------
EventNames == {"Streaming", "Disconnected", "PinRejected", "SleepEnter", "SleepExit"}

Connections ==
  [link : {"none", "up", "lost"}, started : BOOLEAN, view : Views \cup {NoView},
   left : BOOLEAN, keySent : BOOLEAN, asleep : BOOLEAN]

SessionTypeOK ==
  /\ at \in {"off", "top", "configured", "started", "open", "serving", "dropped", "ended",
             "closing", "pausing", "waiting", "woken"}
  /\ state \in {"Connecting", "Pairing", "Configuring", "Streaming", "Reconnecting", "Disconnected"}
  /\ {stop, unsent, sleeping, overflowed, framePose} \subseteq BOOLEAN
  /\ outbox \in Seq(1..streams) /\ Len(outbox) <= MaxOutbox
  /\ events \in Seq(EventNames) /\ Len(events) <= MaxEvents
  /\ view \in Views \cup {NoView}
  /\ streams \in 0..MaxStreams /\ starts \in 0..MaxStarts
  /\ {receiving, decoder} \subseteq 0..streams
  /\ frame \in [stream : 0..streams, key : BOOLEAN]
  /\ app \in {"events", "video", "render", "queue", "notify", "join", "gone"}
  /\ pairing \in {"Idle", "Searching", "Connected", "Disconnected", "Failed"}
  /\ engine \in Connections

\* Once every event is handled, what the last of those that set it made of it, or what
\* it is already.
WillBe(sets, now, value) ==
  \/ now = value /\ \A i \in 1..Len(events) : events[i] \notin DOMAIN sets
  \/ \E i \in 1..Len(events) :
       /\ events[i] \in DOMAIN sets /\ sets[events[i]] = value
       /\ \A j \in i + 1..Len(events) : events[j] \notin DOMAIN sets

\* What the app shows once it has handled every event, if none was dropped.
WillShow(p) == WillBe(Shows, pairing, p)
WillSleep == WillBe(Dims, sleeping, TRUE)

(* The receiver takes video from before STREAM_START to the end of the     *)
(* stream and at no other time, whichever way the stream ends or fails to  *)
(* start: it is never left open after the session that opened it.          *)
ReceivesWhileStreaming ==
  receiving = IF \/ at \in {"configured", "started", "open", "serving", "dropped"}
                 \/ at = "top" /\ state = "Streaming"
              THEN streams ELSE 0

(* "Sent when a session starts and whenever it changes" (setViewConfig):   *)
(* the engine of every session renders with the headset's view, or will    *)
(* be sent it, also a PC that restarted between two sessions.              *)
EngineHasView == at = "serving" /\ engine.link = "up" => unsent \/ engine.view = view

(* Once it has handled every event, the app shows what the connection is:  *)
(* connected when and only when a stream runs, a rejected PIN until it     *)
(* starts again, and the headset dims when the engine sleeps and not a     *)
(* session longer.                                                         *)
AppSeesState ==
  ~overflowed /\ ~stop /\ at # "off" =>
    /\ WillShow("Connected") <=>
         at \in {"serving", "dropped", "ended"} \/ (at = "top" /\ state = "Streaming")
    /\ WillShow("Failed") <=> state = "Disconnected"
    /\ at = "serving" => (WillSleep <=> engine.asleep)

(* Receiver, engine and app stay in step with the connection, whoever ends *)
(* it and however often it comes back.                                     *)
StaysInStep == ReceivesWhileStreaming /\ EngineHasView /\ AppSeesState

(* "Leave: send DISCONNECT if streaming (so the engine does not hold the   *)
(* session for a reconnect)" (stop): a stream whose connection stands is   *)
(* never closed without it, wherever the session thread is at the time.    *)
LeavesWithDisconnect ==
  [][engine.link = "up" /\ engine.started /\ engine'.link = "none" => engine'.left]_sessionVars

(* The session thread ends exactly when it is asked to: stop() returns, so *)
(* a new launch and the end of the app wait for it only so long; and "the  *)
(* client never permanently gives up on a dropped Wi-Fi link"              *)
(* (client_session.h): every backoff ends in another attempt.              *)
EndsOnlyWhenStopped ==
  /\ app = "notify" ~> app \in {"events", "gone"}
  /\ (state = "Reconnecting" /\ ~stop) ~> (state = "Connecting" \/ stop)

(* "a new session starts from a keyframe" (configureDecoder): the decoder  *)
(* that is flushed for a stream gets the stream's keyframe before any of   *)
(* the frames that refer to it.                                            *)
DecoderStartsAtKeyframe ==
  [][FeedDecoder /\ ~frame.key => decoder = frame.stream]_sessionVars
=============================================================================
