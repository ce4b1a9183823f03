------------------------ MODULE StreamSessionProofs ------------------------
(***************************************************************************)
(* Proofs about StreamSession for every set of views, queue limits and     *)
(* number of streams and launches: its types with the bounds of its        *)
(* queues, that the receiver is open exactly for a stream, that the engine *)
(* gets the view, that a stream is left with DISCONNECT, and that the app  *)
(* sees the state that the session is in.                                  *)
(***************************************************************************)
EXTENDS StreamSession, TLAPS

\* ClientSession's state at the positions of the session thread in the loop's body.
PositionInv ==
  /\ at \in {"configured", "started"} => state = "Configuring"
  /\ at \in {"open", "serving", "dropped", "ended", "closing"} => state = "Streaming"
  /\ at \in {"pausing", "waiting", "woken"} => state \in {"Reconnecting", "Disconnected"}

\* STREAM_START went out on this connection, VIEW_CONFIG later than it, and
\* runStreaming() only gives up a connection that is lost.
ConnectionInv ==
  /\ engine.started => \/ at \in {"started", "open", "serving", "dropped"}
                       \/ at = "top" /\ state = "Streaming"
  /\ engine.view # NoView => at \in {"serving", "dropped"}
  /\ at = "dropped" => engine.link = "lost"

\* A message is queued, or about to be, in a stream; the bound on the streams
\* was checked when the PIN was accepted.
StreamsInv ==
  /\ \/ streams >= 1
     \/ app # "queue" /\ at \notin {"configured", "started"} /\ state # "Streaming"
  /\ at = "top" /\ state = "Configuring" => streams < MaxStreams

SessionInv ==
  /\ SessionTypeOK
  /\ ReceivesWhileStreaming
  /\ EngineHasView
  /\ PositionInv
  /\ ConnectionInv
  /\ StreamsInv

-----------------------------------------------------------------------------
LEMMA NoConnectionTyped == NoConnection \in Connections
BY DEF NoConnection, Connections

THEOREM SessionInitInv == SessionInit => SessionInv
<1> SUFFICES ASSUME SessionInit PROVE SessionInv
  OBVIOUS
<1> USE DEF SessionInit
<1>1. outbox \in Seq(1..streams) /\ Len(outbox) = 0 /\ events \in Seq(EventNames) /\ Len(events) = 0
  BY SMT
<1>2. SessionTypeOK
  <2>1. engine \in Connections
    BY NoConnectionTyped
  <2>2. frame \in [stream : 0..streams, key : BOOLEAN]
    BY DEF NoFrame
  <2>3. {stop, unsent, sleeping, overflowed, framePose} \subseteq BOOLEAN
    BY Zenon
  <2>4. /\ streams \in 0..MaxStreams /\ starts \in 0..MaxStarts
        /\ {receiving, decoder} \subseteq 0..streams
        /\ Len(outbox) <= MaxOutbox /\ Len(events) <= MaxEvents
    BY <1>1, SessionAssumption, SMT DEF SessionAssumption
  <2> QED
    BY <1>1, <2>1, <2>2, <2>3, <2>4, Zenon DEF SessionTypeOK
<1>3. ReceivesWhileStreaming /\ EngineHasView /\ PositionInv /\ ConnectionInv /\ StreamsInv
  BY DEF ReceivesWhileStreaming, EngineHasView, PositionInv, ConnectionInv, StreamsInv,
         NoConnection
<1> QED
  BY <1>2, <1>3 DEF SessionInv

\* Every action keeps the invariant.
THEOREM SessionStep == SessionInv /\ [SessionNext]_sessionVars => SessionInv'
<1> SUFFICES ASSUME SessionInv, [SessionNext]_sessionVars PROVE SessionInv'
  OBVIOUS
<1> USE DEF PositionInv, AtTop, Becomes, Serving, Disconnects, PushEvent, BeginReceiving,
            EndReceiving, AppGoes, threadVars, queueVars, viewVars, videoVars, shownVars, appVars
<1>1. CASE ConnectEnds
  <2>1. engine' \in Connections
    BY <1>1, NoConnectionTyped, Zenon
       DEF Connections, NoConnection, SessionInv, SessionTypeOK, ConnectEnds
  <2>2. SessionTypeOK'
    BY <1>1, <2>1, SMT DEF SessionInv, SessionTypeOK, ConnectEnds
  <2>3. ReceivesWhileStreaming' /\ PositionInv' /\ StreamsInv'
    BY <1>1, SMT DEF SessionInv, SessionTypeOK, ReceivesWhileStreaming, StreamsInv, ConnectEnds
  <2>4. EngineHasView' /\ ConnectionInv'
    BY <1>1, SMT
       DEF SessionInv, SessionTypeOK, Connections, EngineHasView, ConnectionInv, NoConnection,
           ConnectEnds
  <2> QED
    BY <2>2, <2>3, <2>4 DEF SessionInv
<1>2. CASE HandshakeOk
  <2>1. SessionTypeOK'
    BY <1>2, SMT DEF SessionInv, SessionTypeOK, HandshakeOk
  <2>2. ReceivesWhileStreaming' /\ PositionInv' /\ StreamsInv'
    BY <1>2, SMT DEF SessionInv, SessionTypeOK, ReceivesWhileStreaming, StreamsInv, HandshakeOk
  <2>3. EngineHasView' /\ ConnectionInv'
    BY <1>2, SMT DEF SessionInv, SessionTypeOK, EngineHasView, ConnectionInv, HandshakeOk
  <2> QED
    BY <2>1, <2>2, <2>3 DEF SessionInv
<1>3. CASE PinRejected
  <2>1. SessionTypeOK'
    BY <1>3, NoConnectionTyped, SessionAssumption, SMT
       DEF SessionAssumption, SessionInv, SessionTypeOK, EventNames, PinRejected
  <2>2. ReceivesWhileStreaming' /\ PositionInv' /\ StreamsInv'
    BY <1>3, SMT DEF SessionInv, SessionTypeOK, ReceivesWhileStreaming, StreamsInv, PinRejected
  <2>3. EngineHasView' /\ ConnectionInv'
    BY <1>3, SMT
       DEF SessionInv, SessionTypeOK, Connections, EngineHasView, ConnectionInv, NoConnection,
           PinRejected
  <2> QED
    BY <2>1, <2>2, <2>3 DEF SessionInv
<1>4. CASE HandshakeFails
  <2>1. SessionTypeOK'
    BY <1>4, NoConnectionTyped, SMT DEF SessionInv, SessionTypeOK, HandshakeFails
  <2>2. ReceivesWhileStreaming' /\ PositionInv' /\ StreamsInv'
    BY <1>4, SMT DEF SessionInv, SessionTypeOK, ReceivesWhileStreaming, StreamsInv, HandshakeFails
  <2>3. EngineHasView' /\ ConnectionInv'
    BY <1>4, SMT
       DEF SessionInv, SessionTypeOK, Connections, EngineHasView, ConnectionInv, NoConnection,
           HandshakeFails
  <2> QED
    BY <2>1, <2>2, <2>3 DEF SessionInv
<1>5. CASE Configure
  <2>1. streams \in Nat /\ 1..streams \subseteq 1..streams' /\ 0..streams \subseteq 0..streams'
    BY <1>5, SMT DEF SessionInv, SessionTypeOK, Configure
  <2>2. outbox' \in Seq(1..streams') /\ Len(outbox') <= MaxOutbox
    BY <1>5, <2>1, SMT DEF SessionInv, SessionTypeOK, Configure, queueVars
  <2>3. frame' \in [stream : 0..streams', key : BOOLEAN]
    BY <1>5, <2>1, SMT DEF Configure, BeginReceiving, NoFrame
  <2>4. streams' \in 0..MaxStreams /\ receiving' \in 0..streams'
    BY <1>5, <2>1, SessionAssumption, SMT
       DEF SessionAssumption, SessionInv, SessionTypeOK, StreamsInv, Configure
  <2>5. decoder' \in 0..streams'
    BY <1>5, <2>1, Zenon DEF SessionInv, SessionTypeOK, Configure
  <2>6. SessionTypeOK'
    BY <1>5, <2>1, <2>2, <2>3, <2>4, <2>5, Zenon DEF SessionInv, SessionTypeOK, Configure
  <2>7. ReceivesWhileStreaming' /\ PositionInv' /\ StreamsInv'
    BY <1>5, SMT DEF SessionInv, SessionTypeOK, ReceivesWhileStreaming, StreamsInv, Configure
  <2>8. EngineHasView' /\ ConnectionInv'
    BY <1>5, SMT DEF SessionInv, SessionTypeOK, EngineHasView, ConnectionInv, Configure
  <2> QED
    BY <2>6, <2>7, <2>8 DEF SessionInv
<1>6. CASE StartStream
  <2>1. engine' \in Connections
    BY <1>6, Zenon DEF SessionInv, SessionTypeOK, Connections, StartStream
  <2>2. SessionTypeOK'
    BY <1>6, <2>1, SMT DEF SessionInv, SessionTypeOK, StartStream
  <2>3. ReceivesWhileStreaming' /\ PositionInv' /\ StreamsInv'
    BY <1>6, SMT DEF SessionInv, SessionTypeOK, ReceivesWhileStreaming, StreamsInv, StartStream
  <2>4. EngineHasView' /\ ConnectionInv'
    BY <1>6, SMT
       DEF SessionInv, SessionTypeOK, Connections, EngineHasView, ConnectionInv, NoConnection,
           StartStream
  <2> QED
    BY <2>2, <2>3, <2>4 DEF SessionInv
<1>7. CASE StartFails
  <2>1. SessionTypeOK'
    BY <1>7, NoConnectionTyped, SMT DEF SessionInv, SessionTypeOK, NoFrame, StartFails
  <2>2. ReceivesWhileStreaming' /\ PositionInv' /\ StreamsInv'
    BY <1>7, SMT DEF SessionInv, SessionTypeOK, ReceivesWhileStreaming, StreamsInv, StartFails
  <2>3. EngineHasView' /\ ConnectionInv'
    BY <1>7, SMT
       DEF SessionInv, SessionTypeOK, Connections, EngineHasView, ConnectionInv, NoConnection,
           StartFails
  <2> QED
    BY <2>1, <2>2, <2>3 DEF SessionInv
<1>8. CASE OpenStream
  <2>1. SessionTypeOK'
    BY <1>8, SMT DEF SessionInv, SessionTypeOK, OpenStream
  <2>2. ReceivesWhileStreaming' /\ PositionInv' /\ StreamsInv'
    BY <1>8, SMT DEF SessionInv, SessionTypeOK, ReceivesWhileStreaming, StreamsInv, OpenStream
  <2>3. EngineHasView' /\ ConnectionInv'
    BY <1>8, SMT DEF SessionInv, SessionTypeOK, EngineHasView, ConnectionInv, OpenStream
  <2> QED
    BY <2>1, <2>2, <2>3 DEF SessionInv
<1>9. CASE Announce
  <2>1. SessionTypeOK'
    BY <1>9, SessionAssumption, SMT
       DEF SessionAssumption, SessionInv, SessionTypeOK, EventNames, Announce
  <2>2. ReceivesWhileStreaming' /\ PositionInv' /\ StreamsInv'
    BY <1>9, SMT DEF SessionInv, SessionTypeOK, ReceivesWhileStreaming, StreamsInv, Announce
  <2>3. EngineHasView' /\ ConnectionInv'
    BY <1>9, SMT DEF SessionInv, SessionTypeOK, EngineHasView, ConnectionInv, Announce
  <2> QED
    BY <2>1, <2>2, <2>3 DEF SessionInv
<1>10. CASE Serve
  <2>1. SessionTypeOK'
    BY <1>10, SMT DEF SessionInv, SessionTypeOK, Serve
  <2>2. ReceivesWhileStreaming' /\ PositionInv' /\ StreamsInv'
    BY <1>10, SMT DEF SessionInv, SessionTypeOK, ReceivesWhileStreaming, StreamsInv, Serve
  <2>3. EngineHasView' /\ ConnectionInv'
    <3>1. engine.view = NoView
      BY <1>10 DEF SessionInv, ConnectionInv, Serve
    <3>2. view = NoView \/ unsent' = TRUE
      BY <1>10 DEF Serve
    <3> QED
      BY <1>10, <3>1, <3>2 DEF SessionInv, EngineHasView, ConnectionInv, Serve
  <2> QED
    BY <2>1, <2>2, <2>3 DEF SessionInv
<1>11. CASE SendQueued
  <2>1. engine' \in Connections
    BY <1>11, Zenon DEF SessionInv, SessionTypeOK, Connections, SendQueued
  <2>2. outbox' \in Seq(1..streams') /\ Len(outbox') <= MaxOutbox
    BY <1>11, SessionAssumption, SMT DEF SessionAssumption, SessionInv, SessionTypeOK, SendQueued
  <2>3. SessionTypeOK'
    BY <1>11, <2>1, <2>2, Zenon DEF SessionInv, SessionTypeOK, SendQueued
  <2>4. ReceivesWhileStreaming' /\ PositionInv' /\ StreamsInv'
    BY <1>11, SMT DEF SessionInv, SessionTypeOK, ReceivesWhileStreaming, StreamsInv, SendQueued
  <2>5. EngineHasView' /\ ConnectionInv'
    BY <1>11, SMT
       DEF SessionInv, SessionTypeOK, Connections, EngineHasView, ConnectionInv, NoConnection,
           SendQueued
  <2> QED
    BY <2>3, <2>4, <2>5 DEF SessionInv
<1>12. CASE NoticeLoss
  <2>1. SessionTypeOK'
    BY <1>12, SMT DEF SessionInv, SessionTypeOK, NoticeLoss
  <2>2. ReceivesWhileStreaming' /\ PositionInv' /\ StreamsInv'
    BY <1>12, SMT DEF SessionInv, SessionTypeOK, ReceivesWhileStreaming, StreamsInv, NoticeLoss
  <2>3. EngineHasView' /\ ConnectionInv'
    BY <1>12, SMT DEF SessionInv, SessionTypeOK, EngineHasView, ConnectionInv, NoticeLoss
  <2> QED
    BY <2>1, <2>2, <2>3 DEF SessionInv
<1>13. CASE EndStream
  <2>1. SessionTypeOK'
    BY <1>13, NoConnectionTyped, SessionAssumption, SMT
       DEF SessionAssumption, SessionInv, SessionTypeOK, NoFrame, EndStream
  <2>2. ReceivesWhileStreaming' /\ PositionInv' /\ StreamsInv'
    BY <1>13, SMT DEF SessionInv, SessionTypeOK, ReceivesWhileStreaming, StreamsInv, EndStream
  <2>3. EngineHasView' /\ ConnectionInv'
    BY <1>13, SMT
       DEF SessionInv, SessionTypeOK, Connections, EngineHasView, ConnectionInv, NoConnection,
           EndStream
  <2> QED
    BY <2>1, <2>2, <2>3 DEF SessionInv
<1>14. CASE ReportEnd
  <2>1. SessionTypeOK'
    BY <1>14, SessionAssumption, SMT
       DEF SessionAssumption, SessionInv, SessionTypeOK, EventNames, ReportEnd
  <2>2. ReceivesWhileStreaming' /\ PositionInv' /\ StreamsInv'
    BY <1>14, SMT DEF SessionInv, SessionTypeOK, ReceivesWhileStreaming, StreamsInv, ReportEnd
  <2>3. EngineHasView' /\ ConnectionInv'
    BY <1>14, SMT DEF SessionInv, SessionTypeOK, EngineHasView, ConnectionInv, ReportEnd
  <2> QED
    BY <2>1, <2>2, <2>3 DEF SessionInv
<1>15. CASE CloseStream
  <2>1. SessionTypeOK'
    BY <1>15, SMT DEF SessionInv, SessionTypeOK, CloseStream
  <2>2. ReceivesWhileStreaming' /\ PositionInv' /\ StreamsInv'
    BY <1>15, SMT DEF SessionInv, SessionTypeOK, ReceivesWhileStreaming, StreamsInv, CloseStream
  <2>3. EngineHasView' /\ ConnectionInv'
    BY <1>15, SMT DEF SessionInv, SessionTypeOK, EngineHasView, ConnectionInv, CloseStream
  <2> QED
    BY <2>1, <2>2, <2>3 DEF SessionInv
<1>16. CASE GoToWait
  <2>1. SessionTypeOK'
    BY <1>16, SMT DEF SessionInv, SessionTypeOK, GoToWait
  <2>2. ReceivesWhileStreaming' /\ PositionInv' /\ StreamsInv'
    BY <1>16, SMT DEF SessionInv, SessionTypeOK, ReceivesWhileStreaming, StreamsInv, GoToWait
  <2>3. EngineHasView' /\ ConnectionInv'
    BY <1>16, SMT DEF SessionInv, SessionTypeOK, EngineHasView, ConnectionInv, GoToWait
  <2> QED
    BY <2>1, <2>2, <2>3 DEF SessionInv
<1>17. CASE Wait
  <2>1. SessionTypeOK'
    BY <1>17, SMT DEF SessionInv, SessionTypeOK, Wait
  <2>2. ReceivesWhileStreaming' /\ PositionInv' /\ StreamsInv'
    BY <1>17, SMT DEF SessionInv, SessionTypeOK, ReceivesWhileStreaming, StreamsInv, Wait
  <2>3. EngineHasView' /\ ConnectionInv'
    BY <1>17, SMT DEF SessionInv, SessionTypeOK, EngineHasView, ConnectionInv, Wait
  <2> QED
    BY <2>1, <2>2, <2>3 DEF SessionInv
<1>18. CASE BackoffElapses
  <2>1. SessionTypeOK'
    BY <1>18, SMT DEF SessionInv, SessionTypeOK, BackoffElapses
  <2>2. ReceivesWhileStreaming' /\ PositionInv' /\ StreamsInv'
    BY <1>18, SMT
       DEF SessionInv, SessionTypeOK, ReceivesWhileStreaming, StreamsInv, BackoffElapses
  <2>3. EngineHasView' /\ ConnectionInv'
    BY <1>18, SMT DEF SessionInv, SessionTypeOK, EngineHasView, ConnectionInv, BackoffElapses
  <2> QED
    BY <2>1, <2>2, <2>3 DEF SessionInv
<1>19. CASE WakeUp
  <2>1. SessionTypeOK'
    BY <1>19, SMT DEF SessionInv, SessionTypeOK, WakeUp
  <2>2. ReceivesWhileStreaming' /\ PositionInv' /\ StreamsInv'
    BY <1>19, SMT DEF SessionInv, SessionTypeOK, ReceivesWhileStreaming, StreamsInv, WakeUp
  <2>3. EngineHasView' /\ ConnectionInv'
    BY <1>19, SMT DEF SessionInv, SessionTypeOK, EngineHasView, ConnectionInv, WakeUp
  <2> QED
    BY <2>1, <2>2, <2>3 DEF SessionInv
<1>20. CASE Leave
  <2>1. engine' \in Connections
    BY <1>20, NoConnectionTyped, Zenon DEF Connections, Leave
  <2>2. NoFrame \in [stream : 0..streams, key : BOOLEAN] /\ 0 \in 0..streams
    BY <1>20, SMT DEF SessionInv, SessionTypeOK, NoFrame
  <2>3. /\ receiving' \in 0..streams
        /\ frame' \in [stream : 0..streams, key : BOOLEAN]
        /\ UNCHANGED <<framePose, decoder>>
    BY <1>20, <2>2, Zenon DEF SessionInv, SessionTypeOK, Leave
  <2>4. SessionTypeOK'
    BY <1>20, <2>1, <2>2, <2>3, Zenon DEF SessionInv, SessionTypeOK, Leave
  <2>5. ReceivesWhileStreaming' /\ PositionInv' /\ StreamsInv'
    BY <1>20, SMT DEF SessionInv, SessionTypeOK, ReceivesWhileStreaming, StreamsInv, Leave
  <2>6. EngineHasView' /\ ConnectionInv'
    BY <1>20, SMT
       DEF SessionInv, SessionTypeOK, Connections, EngineHasView, ConnectionInv, NoConnection,
           Leave
  <2> QED
    BY <2>4, <2>5, <2>6 DEF SessionInv
<1>21. CASE Dispatch
  <2>1. engine' \in Connections
    BY <1>21, Zenon DEF SessionInv, SessionTypeOK, Connections, Dispatch
  <2>2. events' \in Seq(EventNames) /\ Len(events') <= MaxEvents /\ overflowed' \in BOOLEAN
    BY <1>21, SessionAssumption, SMT
       DEF SessionAssumption, SessionInv, SessionTypeOK, EventNames, Dispatch, PushEvent
  <2>3. SessionTypeOK'
    BY <1>21, <2>1, <2>2, SessionAssumption, SMT
       DEF SessionAssumption, SessionInv, SessionTypeOK, EventNames, Dispatch
  <2>4. ReceivesWhileStreaming' /\ PositionInv' /\ StreamsInv'
    BY <1>21, SMT DEF SessionInv, SessionTypeOK, ReceivesWhileStreaming, StreamsInv, Dispatch
  <2>5. EngineHasView' /\ ConnectionInv'
    BY <1>21, SMT
       DEF SessionInv, SessionTypeOK, Connections, EngineHasView, ConnectionInv, NoConnection,
           Dispatch
  <2> QED
    BY <2>3, <2>4, <2>5 DEF SessionInv
<1>22. CASE HandleEvent
  <2>1. Head(events) \in EventNames /\ events' \in Seq(EventNames) /\ Len(events') <= MaxEvents
    BY <1>22, SessionAssumption, SMT DEF SessionAssumption, SessionInv, SessionTypeOK, HandleEvent
  <2>2. pairing' \in {"Idle", "Searching", "Connected", "Disconnected", "Failed"}
    BY <1>22, SMT DEF SessionInv, SessionTypeOK, HandleEvent, Shows
  <2>3. sleeping' \in BOOLEAN
    <3>1. sleeping \in BOOLEAN
      BY Zenon DEF SessionInv, SessionTypeOK
    <3>2. /\ DOMAIN Dims = {"Streaming", "SleepEnter", "SleepExit"}
          /\ Dims["Streaming"] = FALSE /\ Dims["SleepEnter"] = TRUE /\ Dims["SleepExit"] = FALSE
      BY DEF Dims
    <3>3. \A e \in DOMAIN Dims : Dims[e] \in BOOLEAN
      BY <3>2, Zenon
    <3> QED BY <1>22, <3>1, <3>3, Zenon DEF HandleEvent
  <2>4. framePose' \in BOOLEAN
    BY <1>22, Zenon DEF SessionInv, SessionTypeOK, HandleEvent
  <2>5. decoder' \in 0..streams'
    BY <1>22, SMT DEF SessionInv, SessionTypeOK, HandleEvent
  <2>6. SessionTypeOK'
    BY <1>22, <2>1, <2>2, <2>3, <2>4, <2>5, Zenon DEF SessionInv, SessionTypeOK, HandleEvent
  <2>7. ReceivesWhileStreaming' /\ PositionInv' /\ StreamsInv'
    BY <1>22, SMT DEF SessionInv, SessionTypeOK, ReceivesWhileStreaming, StreamsInv, HandleEvent
  <2>8. EngineHasView' /\ ConnectionInv'
    BY <1>22, SMT DEF SessionInv, SessionTypeOK, EngineHasView, ConnectionInv, HandleEvent
  <2> QED
    BY <2>6, <2>7, <2>8 DEF SessionInv
<1>23. CASE EventsHandled
  <2>1. SessionTypeOK'
    BY <1>23, SMT DEF SessionInv, SessionTypeOK, EventsHandled
  <2>2. ReceivesWhileStreaming' /\ PositionInv' /\ StreamsInv'
    BY <1>23, SMT DEF SessionInv, SessionTypeOK, ReceivesWhileStreaming, StreamsInv, EventsHandled
  <2>3. EngineHasView' /\ ConnectionInv'
    BY <1>23, SMT DEF SessionInv, SessionTypeOK, EngineHasView, ConnectionInv, EventsHandled
  <2> QED
    BY <2>1, <2>2, <2>3 DEF SessionInv
<1>24. CASE FeedDecoder
  <2>1. SessionTypeOK'
    BY <1>24, SMT DEF SessionInv, SessionTypeOK, NoFrame, FeedDecoder
  <2>2. ReceivesWhileStreaming' /\ PositionInv' /\ StreamsInv'
    BY <1>24, SMT DEF SessionInv, SessionTypeOK, ReceivesWhileStreaming, StreamsInv, FeedDecoder
  <2>3. EngineHasView' /\ ConnectionInv'
    BY <1>24, SMT DEF SessionInv, SessionTypeOK, EngineHasView, ConnectionInv, FeedDecoder
  <2> QED
    BY <2>1, <2>2, <2>3 DEF SessionInv
<1>25. CASE RejectFrame
  <2>1. engine' \in Connections
    BY <1>25, Zenon DEF SessionInv, SessionTypeOK, Connections, RejectFrame
  <2>2. SessionTypeOK'
    BY <1>25, <2>1, SMT DEF SessionInv, SessionTypeOK, NoFrame, RejectFrame
  <2>3. ReceivesWhileStreaming' /\ PositionInv' /\ StreamsInv'
    BY <1>25, SMT DEF SessionInv, SessionTypeOK, ReceivesWhileStreaming, StreamsInv, RejectFrame
  <2>4. EngineHasView' /\ ConnectionInv'
    BY <1>25, SMT
       DEF SessionInv, SessionTypeOK, Connections, EngineHasView, ConnectionInv, NoConnection,
           RejectFrame
  <2> QED
    BY <2>2, <2>3, <2>4 DEF SessionInv
<1>26. CASE FramesFed
  <2>1. SessionTypeOK'
    BY <1>26, SMT DEF SessionInv, SessionTypeOK, NoFrame, FramesFed
  <2>2. ReceivesWhileStreaming' /\ PositionInv' /\ StreamsInv'
    BY <1>26, SMT DEF SessionInv, SessionTypeOK, ReceivesWhileStreaming, StreamsInv, FramesFed
  <2>3. EngineHasView' /\ ConnectionInv'
    BY <1>26, SMT DEF SessionInv, SessionTypeOK, EngineHasView, ConnectionInv, FramesFed
  <2> QED
    BY <2>1, <2>2, <2>3 DEF SessionInv
<1>27. ASSUME NEW v \in Views, SetViewConfig(v) PROVE SessionInv'
  <2>1. SessionTypeOK'
    BY <1>27, SMT DEF SessionInv, SessionTypeOK, SetViewConfig
  <2>2. ReceivesWhileStreaming' /\ PositionInv' /\ StreamsInv'
    BY <1>27, SMT DEF SessionInv, SessionTypeOK, ReceivesWhileStreaming, StreamsInv, SetViewConfig
  <2>3. EngineHasView' /\ ConnectionInv'
    BY <1>27, SMT DEF SessionInv, SessionTypeOK, EngineHasView, ConnectionInv, SetViewConfig
  <2> QED
    BY <2>1, <2>2, <2>3 DEF SessionInv
<1>28. CASE Send
  <2>1. SessionTypeOK'
    BY <1>28, SMT DEF SessionInv, SessionTypeOK, Send
  <2>2. ReceivesWhileStreaming' /\ PositionInv' /\ StreamsInv'
    BY <1>28, SMT DEF SessionInv, SessionTypeOK, ReceivesWhileStreaming, StreamsInv, Send
  <2>3. EngineHasView' /\ ConnectionInv'
    BY <1>28, SMT DEF SessionInv, SessionTypeOK, EngineHasView, ConnectionInv, Send
  <2> QED
    BY <2>1, <2>2, <2>3 DEF SessionInv
<1>29. CASE Enqueue
  <2>1. streams \in 1..streams
    BY <1>29, SMT DEF SessionInv, SessionTypeOK, StreamsInv, Enqueue
  <2>2. /\ outbox \in Seq(1..streams) /\ Len(outbox) \in Nat
        /\ Len(outbox) <= MaxOutbox /\ MaxOutbox \in Nat \ {0}
    BY <1>29, SessionAssumption, SMT DEF SessionAssumption, SessionInv, SessionTypeOK
  <2>3. PICK b \in Seq(1..streams) :
          Len(b) \in Nat /\ Len(b) < MaxOutbox /\ outbox' = Append(b, streams)
    <3>1. CASE Len(outbox) < MaxOutbox
      BY <1>29, <2>2, <3>1, SMT DEF Enqueue
    <3>2. CASE Len(outbox) >= MaxOutbox
      <4>1. Tail(outbox) \in Seq(1..streams) /\ Len(Tail(outbox)) = Len(outbox) - 1
        BY <2>2, <3>2, SMT
      <4>2. outbox' = Append(Tail(outbox), streams)
        BY <1>29, <3>2 DEF Enqueue
      <4>3. Len(Tail(outbox)) \in Nat /\ Len(Tail(outbox)) < MaxOutbox
        BY <2>2, <3>2, <4>1, SMT
      <4> QED
        BY <4>1, <4>2, <4>3, Zenon
    <3> QED
      BY <2>2, <3>1, <3>2, SMT
  <2>4. Append(b, streams) \in Seq(1..streams) /\ Len(Append(b, streams)) <= MaxOutbox
    BY <1>29, <2>1, <2>2, <2>3, SMT
  <2>5. outbox' \in Seq(1..streams') /\ Len(outbox') <= MaxOutbox
    BY <1>29, <2>3, <2>4, Zenon DEF Enqueue
  <2>6. SessionTypeOK'
    BY <1>29, <2>1, <2>2, <2>3, <2>4, <2>5, SMT DEF SessionInv, SessionTypeOK, Enqueue
  <2>7. ReceivesWhileStreaming' /\ PositionInv' /\ StreamsInv'
    BY <1>29, SMT DEF SessionInv, SessionTypeOK, ReceivesWhileStreaming, StreamsInv, Enqueue
  <2>8. EngineHasView' /\ ConnectionInv'
    BY <1>29, SMT DEF SessionInv, SessionTypeOK, EngineHasView, ConnectionInv, Enqueue
  <2> QED
    BY <2>6, <2>7, <2>8 DEF SessionInv
<1>30. CASE Rendered
  <2>1. SessionTypeOK'
    BY <1>30, SMT DEF SessionInv, SessionTypeOK, Rendered
  <2>2. ReceivesWhileStreaming' /\ PositionInv' /\ StreamsInv'
    BY <1>30, SMT DEF SessionInv, SessionTypeOK, ReceivesWhileStreaming, StreamsInv, Rendered
  <2>3. EngineHasView' /\ ConnectionInv'
    BY <1>30, SMT DEF SessionInv, SessionTypeOK, EngineHasView, ConnectionInv, Rendered
  <2> QED
    BY <2>1, <2>2, <2>3 DEF SessionInv
<1>31. CASE Stop
  <2>1. SessionTypeOK'
    BY <1>31, SMT DEF SessionInv, SessionTypeOK, Stop
  <2>2. ReceivesWhileStreaming' /\ PositionInv' /\ StreamsInv'
    BY <1>31, SMT DEF SessionInv, SessionTypeOK, ReceivesWhileStreaming, StreamsInv, Stop
  <2>3. EngineHasView' /\ ConnectionInv'
    BY <1>31, SMT DEF SessionInv, SessionTypeOK, EngineHasView, ConnectionInv, Stop
  <2> QED
    BY <2>1, <2>2, <2>3 DEF SessionInv
<1>32. CASE Notify
  <2>1. SessionTypeOK'
    BY <1>32, SMT DEF SessionInv, SessionTypeOK, Notify
  <2>2. ReceivesWhileStreaming' /\ PositionInv' /\ StreamsInv'
    BY <1>32, SMT DEF SessionInv, SessionTypeOK, ReceivesWhileStreaming, StreamsInv, Notify
  <2>3. EngineHasView' /\ ConnectionInv'
    BY <1>32, SMT DEF SessionInv, SessionTypeOK, EngineHasView, ConnectionInv, Notify
  <2> QED
    BY <2>1, <2>2, <2>3 DEF SessionInv
<1>33. CASE Start
  <2>1. outbox' \in Seq(1..streams') /\ Len(outbox') <= MaxOutbox
    BY <1>33, SessionAssumption, SMT DEF SessionAssumption, SessionInv, SessionTypeOK, Start
  <2>2. events' \in Seq(EventNames) /\ Len(events') <= MaxEvents
    BY <1>33, SessionAssumption, SMT DEF SessionAssumption, Start
  <2>3. starts' \in 0..MaxStarts
    BY <1>33, SessionAssumption, SMT DEF SessionAssumption, SessionInv, SessionTypeOK, Start
  <2>4. SessionTypeOK'
    BY <1>33, <2>1, <2>2, <2>3, Zenon DEF SessionInv, SessionTypeOK, Start
  <2>5. ReceivesWhileStreaming' /\ PositionInv' /\ StreamsInv'
    BY <1>33, SMT DEF SessionInv, SessionTypeOK, ReceivesWhileStreaming, StreamsInv, Start
  <2>6. EngineHasView' /\ ConnectionInv'
    BY <1>33, SMT DEF SessionInv, SessionTypeOK, EngineHasView, ConnectionInv, Start
  <2> QED
    BY <2>4, <2>5, <2>6 DEF SessionInv
<1>34. CASE Quit
  <2>1. SessionTypeOK'
    BY <1>34, SMT DEF SessionInv, SessionTypeOK, Quit
  <2>2. ReceivesWhileStreaming' /\ PositionInv' /\ StreamsInv'
    BY <1>34, SMT DEF SessionInv, SessionTypeOK, ReceivesWhileStreaming, StreamsInv, Quit
  <2>3. EngineHasView' /\ ConnectionInv'
    BY <1>34, SMT DEF SessionInv, SessionTypeOK, EngineHasView, ConnectionInv, Quit
  <2> QED
    BY <2>1, <2>2, <2>3 DEF SessionInv
<1>35. CASE LoseLink
  <2>1. engine' \in Connections
    BY <1>35, Zenon DEF SessionInv, SessionTypeOK, Connections, LoseLink
  <2>2. SessionTypeOK'
    BY <1>35, <2>1, SMT DEF SessionInv, SessionTypeOK, LoseLink
  <2>3. ReceivesWhileStreaming' /\ PositionInv' /\ StreamsInv'
    BY <1>35, SMT DEF SessionInv, SessionTypeOK, ReceivesWhileStreaming, StreamsInv, LoseLink
  <2>4. EngineHasView' /\ ConnectionInv'
    BY <1>35, SMT
       DEF SessionInv, SessionTypeOK, Connections, EngineHasView, ConnectionInv, NoConnection,
           LoseLink
  <2> QED
    BY <2>2, <2>3, <2>4 DEF SessionInv
<1>36. CASE SendFrame
  <2>1. engine' \in Connections
    BY <1>36, Zenon DEF SessionInv, SessionTypeOK, Connections, SendFrame
  <2>2. frame' \in [stream : 0..streams, key : BOOLEAN]
    BY <1>36, Zenon DEF SessionInv, SessionTypeOK, Connections, SendFrame
  <2>3. SessionTypeOK'
    BY <1>36, <2>1, <2>2, SMT DEF SessionInv, SessionTypeOK, NoFrame, SendFrame
  <2>4. ReceivesWhileStreaming' /\ PositionInv' /\ StreamsInv'
    BY <1>36, SMT DEF SessionInv, SessionTypeOK, ReceivesWhileStreaming, StreamsInv, SendFrame
  <2>5. EngineHasView' /\ ConnectionInv'
    BY <1>36, SMT
       DEF SessionInv, SessionTypeOK, Connections, EngineHasView, ConnectionInv, NoConnection,
           SendFrame
  <2> QED
    BY <2>3, <2>4, <2>5 DEF SessionInv
<1>37. CASE UNCHANGED sessionVars
  <2>1. SessionTypeOK'
    BY <1>37 DEF sessionVars, SessionInv, SessionTypeOK
  <2>2. ReceivesWhileStreaming' /\ PositionInv' /\ StreamsInv' /\ EngineHasView' /\ ConnectionInv'
    BY <1>37
       DEF sessionVars, SessionInv, ReceivesWhileStreaming, StreamsInv, EngineHasView,
           ConnectionInv
  <2> QED
    BY <2>1, <2>2 DEF SessionInv
<1> QED
  BY <1>1, <1>2, <1>3, <1>4, <1>5, <1>6, <1>7, <1>8, <1>9, <1>10, <1>11, <1>12, <1>13, <1>14,
     <1>15, <1>16, <1>17, <1>18, <1>19, <1>20, <1>21, <1>22, <1>23, <1>24, <1>25, <1>26, <1>27,
     <1>28, <1>29, <1>30, <1>31, <1>32, <1>33, <1>34, <1>35, <1>36, <1>37 DEF SessionNext,
     SessionThread

-----------------------------------------------------------------------------
(* Theorems.                                                               *)

\* The invariant of every interleaving of the session thread and the app.
THEOREM SessionInvariant == SessionSpec => []SessionInv
<1>1. SessionInv /\ [SessionNext]_sessionVars => SessionInv'
  BY SessionStep
<1> QED
  BY <1>1, SessionInitInv, PTL DEF SessionSpec

\* The outbox and the event queue keep within kMaxOutbox and kMaxEvents.
THEOREM SessionTypeCorrect == SessionSpec => []SessionTypeOK
<1>1. SessionInv => SessionTypeOK
  BY DEF SessionInv
<1> QED
  BY <1>1, SessionInvariant, PTL

\* The hooks open and close VideoReceiver exactly around a stream, whichever
\* way it ends.
THEOREM ReceiverOpenForStream == SessionSpec => []ReceivesWhileStreaming
<1>1. SessionInv => ReceivesWhileStreaming
  BY DEF SessionInv
<1> QED
  BY <1>1, SessionInvariant, PTL

\* Every session's engine has the view that setViewConfig() was last given, or
\* runStreaming() still has it to send.
THEOREM EveryEngineHasView == SessionSpec => []EngineHasView
<1>1. SessionInv => EngineHasView
  BY DEF SessionInv
<1> QED
  BY <1>1, SessionInvariant, PTL

\* A connection on which STREAM_START went out and which still stands is only
\* closed after DISCONNECT, wherever stop() finds the session thread.
THEOREM LeavesPolitely == SessionSpec => LeavesWithDisconnect
<1>1. SessionInv /\ [SessionNext]_sessionVars =>
        [engine.link = "up" /\ engine.started /\ engine'.link = "none" => engine'.left]_sessionVars
  <2> SUFFICES ASSUME SessionInv, SessionNext,
                      engine.link = "up", engine.started, engine'.link = "none"
               PROVE  engine'.left
    BY Zenon
  <2>1. /\ at \in {"started", "open", "serving", "dropped"} \/ (at = "top" /\ state = "Streaming")
        /\ at # "dropped"
        /\ at \in {"open", "serving"} => state = "Streaming"
    BY DEF SessionInv, ConnectionInv, PositionInv
  <2>2. engine \in Connections
    BY DEF SessionInv, SessionTypeOK
  <2>3. engine'.link # engine.link
    BY Zenon
  <2>4. CASE Leave
    BY <2>1, <2>4, Zenon DEF Leave, NoConnection
  <2>5. ~(ConnectEnds \/ PinRejected \/ HandshakeFails \/ StartFails \/ EndStream)
    BY <2>1, SMT DEF ConnectEnds, PinRejected, HandshakeFails, StartFails, EndStream, AtTop
  <2>6. ~(StartStream \/ SendQueued \/ Dispatch \/ RejectFrame \/ LoseLink \/ SendFrame)
    BY <2>2, SMT
       DEF Connections, StartStream, SendQueued, Dispatch, RejectFrame, LoseLink, SendFrame
  <2>7. engine' # engine
    BY Zenon
  <2>8. ~(\E v \in Views : SetViewConfig(v))
    BY <2>7 DEF SetViewConfig
  <2>9. ~(\/ HandshakeOk \/ Configure \/ OpenStream \/ Announce \/ Serve \/ NoticeLoss
          \/ ReportEnd \/ CloseStream \/ GoToWait \/ Wait \/ BackoffElapses \/ WakeUp)
    BY <2>7, Zenon
       DEF HandshakeOk, Configure, OpenStream, Announce, Serve, NoticeLoss,
           ReportEnd, CloseStream, GoToWait, Wait, BackoffElapses, WakeUp
  <2>10. ~(\/ HandleEvent \/ EventsHandled \/ FeedDecoder \/ FramesFed \/ Send \/ Enqueue
           \/ Rendered \/ Stop \/ Notify \/ Start \/ Quit)
    BY <2>7, Zenon
       DEF HandleEvent, EventsHandled, FeedDecoder, FramesFed, Send, Enqueue,
           Rendered, Stop, Notify, Start, Quit, AppGoes
  <2> QED
    BY <2>4, <2>5, <2>6, <2>8, <2>9, <2>10, Zenon DEF SessionNext, SessionThread
<1> QED
  BY <1>1, SessionInvariant, PTL DEF SessionSpec, LeavesWithDisconnect

-----------------------------------------------------------------------------
(* What the app will show once it has handled every event: the event that  *)
(* a step queues is the one it should see, and handling one takes nothing  *)
(* away.                                                                   *)

\* The engine sleeps in a stream only, and a rejected PIN waits for stop().
SleepInv ==
  /\ engine.asleep => at \in {"serving", "dropped"}
  /\ app \in {"notify", "join"} \/ (at = "woken" /\ state = "Disconnected") => stop
  /\ ~overflowed /\ ~stop /\ at = "top" /\ state = "Streaming" => ~WillSleep

AppInv == AppSeesState /\ SleepInv

\* An event that is queued is the last.
LEMMA QueuedEventIsLast ==
  ASSUME events \in Seq(EventNames), NEW e \in EventNames, events' = Append(events, e),
         NEW sets, NEW was, NEW value
  PROVE  WillBe(sets, was, value)' <=> IF e \in DOMAIN sets THEN sets[e] = value ELSE WillBe(sets, was, value)
PROOF
<1> DEFINE n == Len(events)
           names == DOMAIN sets
<1>1. /\ n \in Nat /\ Len(events') = n + 1 /\ events'[n + 1] = e
      /\ \A i \in 1..n : events'[i] = events[i] /\ i \in Nat
  OBVIOUS
<1>2. WillBe(sets, was, value)' <=>
        \/ was = value /\ \A i \in 1..n + 1 : events'[i] \notin names
        \/ \E i \in 1..n + 1 : /\ events'[i] \in names /\ sets[events'[i]] = value
                               /\ \A j \in i + 1..n + 1 : events'[j] \notin names
  BY <1>1 DEF WillBe
<1>3. WillBe(sets, was, value) <=>
        \/ was = value /\ \A i \in 1..n : events[i] \notin names
        \/ \E i \in 1..n : /\ events[i] \in names /\ sets[events[i]] = value
                           /\ \A j \in i + 1..n : events[j] \notin names
  BY DEF WillBe
<1> HIDE DEF n, names
<1>4. ASSUME e \in names PROVE WillBe(sets, was, value)' <=> sets[e] = value
  <2>1. ASSUME sets[e] = value PROVE WillBe(sets, was, value)'
    BY <1>1, <1>2, <1>4, <2>1
  <2>2. ASSUME WillBe(sets, was, value)' PROVE sets[e] = value
    <3>1. PICK i \in 1..n + 1 : /\ events'[i] \in names /\ sets[events'[i]] = value
                                /\ \A j \in i + 1..n + 1 : events'[j] \notin names
      BY <1>1, <1>2, <1>4, <2>2
    <3>2. i = n + 1
      BY <1>1, <1>4, <3>1
    <3> QED BY <1>1, <3>1, <3>2
  <2> QED BY <2>1, <2>2
<1>5. ASSUME e \notin names PROVE WillBe(sets, was, value)' <=> WillBe(sets, was, value)
  <2>1. ASSUME WillBe(sets, was, value) PROVE WillBe(sets, was, value)'
    <3>1. CASE was = value /\ \A i \in 1..n : events[i] \notin names
      BY <1>1, <1>2, <1>5, <3>1
    <3>2. CASE \E i \in 1..n : /\ events[i] \in names /\ sets[events[i]] = value
                               /\ \A j \in i + 1..n : events[j] \notin names
      <4>1. PICK i \in 1..n : /\ events[i] \in names /\ sets[events[i]] = value
                              /\ \A j \in i + 1..n : events[j] \notin names
        BY <3>2
      <4>2. \A j \in i + 1..n + 1 : events'[j] \notin names
        BY <1>1, <1>5, <4>1
      <4> QED BY <1>1, <1>2, <4>1, <4>2
    <3> QED BY <1>3, <2>1, <3>1, <3>2
  <2>2. ASSUME WillBe(sets, was, value)' PROVE WillBe(sets, was, value)
    <3>1. CASE was = value /\ \A i \in 1..n + 1 : events'[i] \notin names
      BY <1>1, <1>3, <3>1
    <3>2. CASE \E i \in 1..n + 1 : /\ events'[i] \in names /\ sets[events'[i]] = value
                                   /\ \A j \in i + 1..n + 1 : events'[j] \notin names
      <4>1. PICK i \in 1..n + 1 : /\ events'[i] \in names /\ sets[events'[i]] = value
                                  /\ \A j \in i + 1..n + 1 : events'[j] \notin names
        BY <3>2
      <4>2. i \in 1..n
        BY <1>1, <1>5, <4>1
      <4>3. \A j \in i + 1..n : events[j] \notin names
        BY <1>1, <4>1, <4>2
      <4> QED BY <1>1, <1>3, <4>1, <4>2, <4>3
    <3> QED BY <1>2, <2>2, <3>1, <3>2
  <2> QED BY <2>1, <2>2
<1> QED BY <1>4, <1>5 DEF names

\* Handling an event does what it was going to do.
LEMMA HandledEventIsFirst ==
  ASSUME events \in Seq(EventNames), events # <<>>, events' = Tail(events),
         NEW sets, NEW was, NEW is, NEW value,
         is = IF Head(events) \in DOMAIN sets THEN sets[Head(events)] ELSE was
  PROVE  WillBe(sets, is, value)' <=> WillBe(sets, was, value)
PROOF
<1> DEFINE n == Len(events)
           names == DOMAIN sets
<1>1. /\ n \in Nat /\ n > 0 /\ Len(events') = n - 1 /\ Head(events) = events[1]
      /\ \A i \in 1..n - 1 : events'[i] = events[i + 1]
  OBVIOUS
<1>2. WillBe(sets, is, value)' <=>
        \/ is = value /\ \A i \in 1..n - 1 : events'[i] \notin names
        \/ \E i \in 1..n - 1 : /\ events'[i] \in names /\ sets[events'[i]] = value
                               /\ \A j \in i + 1..n - 1 : events'[j] \notin names
  BY <1>1 DEF WillBe
<1>3. WillBe(sets, was, value) <=>
        \/ was = value /\ \A i \in 1..n : events[i] \notin names
        \/ \E i \in 1..n : /\ events[i] \in names /\ sets[events[i]] = value
                           /\ \A j \in i + 1..n : events[j] \notin names
  BY DEF WillBe
<1>4. is = IF events[1] \in names THEN sets[events[1]] ELSE was
  BY <1>1
<1> HIDE DEF n, names
<1>5. \A i \in 2..n : i - 1 \in 1..n - 1 /\ events'[i - 1] = events[i]
  BY <1>1
<1>6. ASSUME WillBe(sets, was, value) PROVE WillBe(sets, is, value)'
  <2>1. CASE was = value /\ \A i \in 1..n : events[i] \notin names
    <3>1. is = value
      BY <1>1, <1>4, <2>1
    <3> QED BY <1>1, <1>2, <2>1, <3>1
  <2>2. CASE \E i \in 1..n : /\ events[i] \in names /\ sets[events[i]] = value
                             /\ \A j \in i + 1..n : events[j] \notin names
    <3>1. PICK i \in 1..n : /\ events[i] \in names /\ sets[events[i]] = value
                            /\ \A j \in i + 1..n : events[j] \notin names
      BY <2>2
    <3>2. CASE i = 1
      <4>1. is = value
        BY <1>4, <3>1, <3>2
      <4>2. \A k \in 1..n - 1 : events'[k] \notin names
        BY <1>1, <3>1, <3>2
      <4> QED BY <1>2, <4>1, <4>2
    <3>3. CASE i > 1
      <4>1. /\ i - 1 \in 1..n - 1 /\ events'[i - 1] \in names /\ sets[events'[i - 1]] = value
        BY <1>1, <1>5, <3>1, <3>3
      <4>2. \A j \in i - 1 + 1..n - 1 : events'[j] \notin names
        BY <1>1, <3>1, <3>3
      <4> QED BY <1>2, <4>1, <4>2
    <3> QED BY <3>2, <3>3
  <2> QED BY <1>3, <1>6, <2>1, <2>2
<1>7. ASSUME WillBe(sets, is, value)' PROVE WillBe(sets, was, value)
  <2>1. CASE is = value /\ \A i \in 1..n - 1 : events'[i] \notin names
    <3>1. \A i \in 2..n : events[i] \notin names
      BY <1>1, <1>5, <2>1
    <3>2. CASE events[1] \in names
      <4>1. 1 \in 1..n /\ sets[events[1]] = value /\ \A j \in 1 + 1..n : events[j] \notin names
        BY <1>1, <1>4, <2>1, <3>1, <3>2
      <4> QED BY <1>3, <3>2, <4>1
    <3>3. CASE events[1] \notin names
      <4>1. was = value /\ \A i \in 1..n : events[i] \notin names
        BY <1>1, <1>4, <2>1, <3>1, <3>3
      <4> QED BY <1>3, <4>1
    <3> QED BY <3>2, <3>3
  <2>2. CASE \E i \in 1..n - 1 : /\ events'[i] \in names /\ sets[events'[i]] = value
                                 /\ \A j \in i + 1..n - 1 : events'[j] \notin names
    <3>1. PICK i \in 1..n - 1 : /\ events'[i] \in names /\ sets[events'[i]] = value
                                /\ \A j \in i + 1..n - 1 : events'[j] \notin names
      BY <2>2
    <3>2. i + 1 \in 1..n /\ events[i + 1] \in names /\ sets[events[i + 1]] = value
      BY <1>1, <3>1
    <3>3. \A j \in i + 1 + 1..n : events[j] \notin names
      <4>1. ASSUME NEW j \in i + 1 + 1..n PROVE events[j] \notin names
        <5>1. j - 1 \in i + 1..n - 1 /\ j \in 2..n
          BY <1>1, <3>1
        <5> QED BY <1>5, <3>1, <5>1
      <4> QED BY <4>1
    <3> QED BY <1>3, <3>2, <3>3
  <2> QED BY <1>2, <1>7, <2>1, <2>2
<1> QED BY <1>6, <1>7

\* A step that leaves the queue and the app's view of it alone.
LEMMA NothingTold ==
  ASSUME UNCHANGED <<events, pairing, sleeping>>
  PROVE  /\ WillShow("Connected")' <=> WillShow("Connected")
         /\ WillShow("Failed")' <=> WillShow("Failed")
         /\ WillSleep' <=> WillSleep
PROOF BY DEF WillShow, WillSleep, WillBe

\* pushEvent() with room in the queue.
LEMMA Told ==
  ASSUME SessionInv, NEW e \in EventNames, PushEvent(e), ~overflowed', pairing' = pairing, sleeping' = sleeping
  PROVE  /\ WillShow("Connected")' <=> IF e \in DOMAIN Shows THEN Shows[e] = "Connected" ELSE WillShow("Connected")
         /\ WillShow("Failed")' <=> IF e \in DOMAIN Shows THEN Shows[e] = "Failed" ELSE WillShow("Failed")
         /\ WillSleep' <=> IF e \in DOMAIN Dims THEN Dims[e] = TRUE ELSE WillSleep
PROOF
<1>1. events \in Seq(EventNames) /\ events' = Append(events, e)
  BY DEF PushEvent, SessionInv, SessionTypeOK
<1>2. PICK shown, dimmed : shown = pairing /\ dimmed = sleeping
  OBVIOUS
<1>3. \A value : WillBe(Shows, shown, value)' <=>
                   IF e \in DOMAIN Shows THEN Shows[e] = value ELSE WillBe(Shows, shown, value)
  BY <1>1, QueuedEventIsLast
<1>4. \A value : WillBe(Dims, dimmed, value)' <=>
                   IF e \in DOMAIN Dims THEN Dims[e] = value ELSE WillBe(Dims, dimmed, value)
  BY <1>1, QueuedEventIsLast
<1>5. \A value : WillShow(value)' <=> WillBe(Shows, shown, value)'
  BY <1>2 DEF WillShow, WillBe
<1>6. \A value : WillShow(value) <=> WillBe(Shows, shown, value)
  BY <1>2 DEF WillShow
<1>7. WillSleep' <=> WillBe(Dims, dimmed, TRUE)'
  BY <1>2 DEF WillSleep, WillBe
<1>8. WillSleep <=> WillBe(Dims, dimmed, TRUE)
  BY <1>2 DEF WillSleep
<1> QED BY <1>3, <1>4, <1>5, <1>6, <1>7, <1>8

LEMMA Handled ==
  ASSUME SessionInv, HandleEvent
  PROVE  /\ WillShow("Connected")' <=> WillShow("Connected")
         /\ WillShow("Failed")' <=> WillShow("Failed")
         /\ WillSleep' <=> WillSleep
PROOF
<1>1. events \in Seq(EventNames) /\ events # <<>> /\ events' = Tail(events)
  BY DEF HandleEvent, SessionInv, SessionTypeOK
<1>2. PICK shown, dimmed, shows, dims : shown = pairing /\ dimmed = sleeping /\ shows = pairing' /\ dims = sleeping'
  OBVIOUS
<1>3. /\ shows = IF Head(events) \in DOMAIN Shows THEN Shows[Head(events)] ELSE shown
      /\ dims = IF Head(events) \in DOMAIN Dims THEN Dims[Head(events)] ELSE dimmed
  BY <1>2 DEF HandleEvent
<1>4. \A value : WillBe(Shows, shows, value)' <=> WillBe(Shows, shown, value)
  BY <1>1, <1>3, HandledEventIsFirst
<1>5. \A value : WillBe(Dims, dims, value)' <=> WillBe(Dims, dimmed, value)
  BY <1>1, <1>3, HandledEventIsFirst
<1>6. \A value : WillShow(value)' <=> WillBe(Shows, shows, value)'
  BY <1>2 DEF WillShow, WillBe
<1>7. \A value : WillShow(value) <=> WillBe(Shows, shown, value)
  BY <1>2 DEF WillShow
<1>8. WillSleep' <=> WillBe(Dims, dims, TRUE)'
  BY <1>2 DEF WillSleep, WillBe
<1>9. WillSleep <=> WillBe(Dims, dimmed, TRUE)
  BY <1>2 DEF WillSleep
<1> QED BY <1>4, <1>5, <1>6, <1>7, <1>8, <1>9

\* With no event queued the app shows what it has.
LEMMA NothingQueued ==
  ASSUME events = <<>>
  PROVE  (\A p : WillShow(p) <=> pairing = p) /\ (WillSleep <=> sleeping = TRUE)
PROOF BY DEF WillShow, WillSleep, WillBe

LEMMA AppInvInit == SessionInit => AppInv
PROOF
<1> SUFFICES ASSUME SessionInit PROVE AppInv
  OBVIOUS
<1>1. at = "off" /\ app = "events" /\ engine.asleep = FALSE
  BY DEF SessionInit, NoConnection
<1> QED BY <1>1 DEF AppInv, AppSeesState, SleepInv

\* A step tells the app of every change that it should see.
LEMMA AppInvStep == SessionInv /\ AppInv /\ [SessionNext]_sessionVars => AppInv'
PROOF
<1> SUFFICES ASSUME SessionInv, AppInv, [SessionNext]_sessionVars PROVE AppInv'
  OBVIOUS
<1> USE DEF AtTop, Becomes, Serving, Disconnects, BeginReceiving, EndReceiving, AppGoes,
            threadVars, queueVars, viewVars, videoVars, shownVars, appVars
<1>1. /\ PositionInv /\ ConnectionInv
      /\ engine \in Connections /\ overflowed \in BOOLEAN
  BY DEF SessionInv, SessionTypeOK
<1>3. CASE PinRejected
  <2>1. UNCHANGED <<pairing, sleeping>> /\ PushEvent("PinRejected")
    BY <1>3 DEF PinRejected
  <2>2. CASE overflowed'
    BY <1>1, <1>3, <2>2 DEF AppInv, AppSeesState, SleepInv, PositionInv, PinRejected, NoConnection
  <2>3. CASE ~overflowed'
    <3>1. ~WillShow("Connected")' /\ WillShow("Failed")' /\ (WillSleep' <=> WillSleep)
      BY <2>1, <2>3, Told DEF EventNames, Shows, Dims
    <3>2. ~overflowed
      BY <2>1, <2>3 DEF PushEvent
    <3> QED BY <1>1, <1>3, <2>3, <3>1, <3>2 DEF AppInv, AppSeesState, SleepInv, PositionInv, ConnectionInv, PinRejected, NoConnection
  <2> QED BY <2>2, <2>3
<1>4. CASE Announce
  <2>1. UNCHANGED <<pairing, sleeping>> /\ PushEvent("Streaming")
    BY <1>4 DEF Announce
  <2>2. CASE overflowed'
    BY <1>1, <1>4, <2>2 DEF AppInv, AppSeesState, SleepInv, PositionInv, Announce
  <2>3. CASE ~overflowed'
    <3>1. WillShow("Connected")' /\ ~WillShow("Failed")' /\ ~WillSleep'
      BY <2>1, <2>3, Told DEF EventNames, Shows, Dims
    <3>2. ~overflowed
      BY <2>1, <2>3 DEF PushEvent
    <3> QED BY <1>1, <1>4, <2>3, <3>1, <3>2 DEF AppInv, AppSeesState, SleepInv, PositionInv, ConnectionInv, Announce
  <2> QED BY <2>2, <2>3
<1>6. CASE ReportEnd
  <2>1. UNCHANGED <<pairing, sleeping>> /\ PushEvent("Disconnected")
    BY <1>6 DEF ReportEnd
  <2>2. CASE overflowed'
    BY <1>1, <1>6, <2>2 DEF AppInv, AppSeesState, SleepInv, PositionInv, ReportEnd
  <2>3. CASE ~overflowed'
    <3>1. ~WillShow("Connected")' /\ ~WillShow("Failed")' /\ (WillSleep' <=> WillSleep)
      BY <2>1, <2>3, Told DEF EventNames, Shows, Dims
    <3>2. ~overflowed
      BY <2>1, <2>3 DEF PushEvent
    <3> QED BY <1>1, <1>6, <2>3, <3>1, <3>2 DEF AppInv, AppSeesState, SleepInv, PositionInv, ConnectionInv, ReportEnd
  <2> QED BY <2>2, <2>3
<1>5. CASE Dispatch
  <2>1. /\ UNCHANGED <<pairing, sleeping>> /\ engine.asleep \in BOOLEAN
        /\ engine'.asleep = ~engine.asleep
        /\ PushEvent(IF engine.asleep THEN "SleepExit" ELSE "SleepEnter")
    BY <1>1, <1>5 DEF Dispatch, Connections
  <2>2. CASE overflowed'
    BY <1>1, <1>5, <2>2 DEF AppInv, AppSeesState, SleepInv, PositionInv, Dispatch
  <2>3. CASE ~overflowed'
    <3>1. /\ WillShow("Connected")' <=> WillShow("Connected")
          /\ WillShow("Failed")' <=> WillShow("Failed")
          /\ WillSleep' <=> ~engine.asleep
      <4>1. CASE engine.asleep
        BY <2>1, <2>3, <4>1, Told DEF EventNames, Shows, Dims
      <4>2. CASE ~engine.asleep
        BY <2>1, <2>3, <4>2, Told DEF EventNames, Shows, Dims
      <4> QED BY <4>1, <4>2
    <3>2. ~overflowed
      BY <2>1, <2>3 DEF PushEvent
    <3> QED BY <1>1, <1>5, <2>1, <2>3, <3>1, <3>2 DEF AppInv, AppSeesState, SleepInv, PositionInv, Dispatch
  <2> QED BY <2>2, <2>3
<1>7. CASE HandleEvent
  <2>1. /\ WillShow("Connected")' <=> WillShow("Connected")
        /\ WillShow("Failed")' <=> WillShow("Failed")
        /\ WillSleep' <=> WillSleep
    BY <1>7, Handled
  <2> QED BY <1>1, <1>7, <2>1 DEF AppInv, AppSeesState, SleepInv, HandleEvent
<1>8. CASE Start
  <2>1. events' = <<>> /\ pairing' = "Searching"
    BY <1>8 DEF Start
  <2>2. ~WillShow("Connected")' /\ ~WillShow("Failed")'
    BY <2>1 DEF WillShow, WillBe
  <2> QED BY <1>1, <1>8, <2>2 DEF AppInv, AppSeesState, SleepInv, ConnectionInv, Start
<1>9. CASE UNCHANGED <<events, pairing, sleeping>>
  <2>1. /\ WillShow("Connected")' <=> WillShow("Connected")
        /\ WillShow("Failed")' <=> WillShow("Failed")
        /\ WillSleep' <=> WillSleep
    BY <1>9, NothingTold
  <2>2. CASE ConnectEnds
    BY <1>1, <2>1, <2>2 DEF AppInv, AppSeesState, SleepInv, PositionInv, ConnectEnds, NoConnection
  <2>3. CASE HandshakeOk
    BY <1>1, <2>1, <2>3 DEF AppInv, AppSeesState, SleepInv, PositionInv, HandshakeOk
  <2>4. CASE HandshakeFails
    BY <1>1, <2>1, <2>4 DEF AppInv, AppSeesState, SleepInv, PositionInv, HandshakeFails, NoConnection
  <2>5. CASE Configure
    BY <1>1, <2>1, <2>5 DEF AppInv, AppSeesState, SleepInv, PositionInv, Configure
  <2>6. CASE StartStream
    BY <1>1, <2>1, <2>6 DEF AppInv, AppSeesState, SleepInv, PositionInv, StartStream, Connections
  <2>7. CASE StartFails
    BY <1>1, <2>1, <2>7 DEF AppInv, AppSeesState, SleepInv, PositionInv, StartFails, NoConnection
  <2>8. CASE OpenStream
    BY <1>1, <2>1, <2>8 DEF AppInv, AppSeesState, SleepInv, PositionInv, OpenStream
  <2>9. CASE Serve
    BY <1>1, <2>1, <2>9 DEF AppInv, AppSeesState, SleepInv, PositionInv, Serve
  <2>10. CASE SendQueued
    BY <1>1, <2>1, <2>10 DEF AppInv, AppSeesState, SleepInv, PositionInv, SendQueued, Connections
  <2>11. CASE NoticeLoss
    BY <1>1, <2>1, <2>11 DEF AppInv, AppSeesState, SleepInv, PositionInv, NoticeLoss
  <2>12. CASE EndStream
    BY <1>1, <2>1, <2>12 DEF AppInv, AppSeesState, SleepInv, PositionInv, EndStream, NoConnection
  <2>13. CASE CloseStream
    BY <1>1, <2>1, <2>13 DEF AppInv, AppSeesState, SleepInv, PositionInv, CloseStream
  <2>14. CASE GoToWait
    BY <1>1, <2>1, <2>14 DEF AppInv, AppSeesState, SleepInv, PositionInv, GoToWait
  <2>15. CASE Wait
    BY <1>1, <2>1, <2>15 DEF AppInv, AppSeesState, SleepInv, PositionInv, Wait
  <2>16. CASE BackoffElapses
    BY <1>1, <2>1, <2>16 DEF AppInv, AppSeesState, SleepInv, PositionInv, BackoffElapses
  <2>17. CASE WakeUp
    BY <1>1, <2>1, <2>17 DEF AppInv, AppSeesState, SleepInv, PositionInv, WakeUp
  <2>18. CASE Leave
    BY <1>1, <2>1, <2>18 DEF AppInv, AppSeesState, SleepInv, PositionInv, Leave, NoConnection
  <2>19. CASE EventsHandled
    BY <1>1, <2>1, <2>19 DEF AppInv, AppSeesState, SleepInv, PositionInv, EventsHandled
  <2>20. CASE FeedDecoder
    BY <1>1, <2>1, <2>20 DEF AppInv, AppSeesState, SleepInv, PositionInv, FeedDecoder
  <2>21. CASE RejectFrame
    BY <1>1, <2>1, <2>21 DEF AppInv, AppSeesState, SleepInv, PositionInv, RejectFrame, Connections
  <2>22. CASE FramesFed
    BY <1>1, <2>1, <2>22 DEF AppInv, AppSeesState, SleepInv, PositionInv, FramesFed
  <2>23. CASE Send
    BY <1>1, <2>1, <2>23 DEF AppInv, AppSeesState, SleepInv, PositionInv, Send
  <2>24. CASE Enqueue
    BY <1>1, <2>1, <2>24 DEF AppInv, AppSeesState, SleepInv, PositionInv, Enqueue
  <2>25. CASE Rendered
    BY <1>1, <2>1, <2>25 DEF AppInv, AppSeesState, SleepInv, PositionInv, Rendered
  <2>26. CASE Stop
    BY <1>1, <2>1, <2>26 DEF AppInv, AppSeesState, SleepInv, PositionInv, Stop
  <2>27. CASE Notify
    BY <1>1, <2>1, <2>27 DEF AppInv, AppSeesState, SleepInv, PositionInv, Notify
  <2>28. CASE Quit
    BY <1>1, <2>1, <2>28 DEF AppInv, AppSeesState, SleepInv, PositionInv, Quit
  <2>29. CASE LoseLink
    BY <1>1, <2>1, <2>29 DEF AppInv, AppSeesState, SleepInv, PositionInv, LoseLink, Connections
  <2>30. CASE SendFrame
    BY <1>1, <2>1, <2>30 DEF AppInv, AppSeesState, SleepInv, PositionInv, SendFrame, Connections
  <2>31. CASE \E v \in Views : SetViewConfig(v)
    BY <2>1, <2>31 DEF AppInv, AppSeesState, SleepInv, SetViewConfig
  <2>32. CASE UNCHANGED sessionVars
    BY <2>1, <2>32 DEF AppInv, AppSeesState, SleepInv, sessionVars
  <2> QED
    BY <2>2, <2>3, <2>4, <2>5, <2>6, <2>7, <2>8, <2>9, <2>10, <2>11, <2>12, <2>13, <2>14, <2>15, <2>16, <2>17, <2>18, <2>19, <2>20, <2>21, <2>22, <2>23, <2>24, <2>25, <2>26, <2>27, <2>28, <2>29, <2>30, <2>31, <2>32,
       <1>3, <1>4, <1>5, <1>6, <1>7, <1>8 DEF SessionNext, SessionThread
<1> QED
  <2>1. UNCHANGED <<events, pairing, sleeping>> \/ PinRejected \/ Announce \/ Dispatch \/ ReportEnd \/ HandleEvent \/ Start
    BY DEF SessionNext, SessionThread, sessionVars, ConnectEnds, HandshakeOk, HandshakeFails, Configure, StartStream, StartFails,
           OpenStream, Serve, SendQueued, NoticeLoss, EndStream, CloseStream, GoToWait, Wait, BackoffElapses,
           WakeUp, Leave, EventsHandled, FeedDecoder, RejectFrame, FramesFed, SetViewConfig, Send, Enqueue,
           Rendered, Stop, Notify, Quit, LoseLink, SendFrame
  <2> QED BY <1>3, <1>4, <1>5, <1>6, <1>7, <1>8, <1>9, <2>1

(***************************************************************************)
(* For any limits, views, streams and launches: once it has handled every  *)
(* event, the app shows "Connected" exactly while a stream runs, "Failed"  *)
(* exactly after a rejected PIN, and dims with the engine (pushEvent() and *)
(* handleStreamEvents()), as long as the queue dropped none.               *)
(***************************************************************************)
THEOREM AppSeesEveryState == SessionSpec => []AppSeesState
PROOF
<1>1. AppInv => AppSeesState
  BY DEF AppInv
<1>2. SessionInv /\ AppInv /\ [SessionNext]_sessionVars => AppInv'
  BY AppInvStep
<1> QED BY <1>1, <1>2, AppInvInit, SessionInvariant, PTL DEF SessionSpec

(***************************************************************************)
(* For any limits, views, streams and launches: however sessions end and   *)
(* come back, the receiver is open exactly for a stream, every engine has  *)
(* the headset's view, and the app shows what the connection is.           *)
(***************************************************************************)
THEOREM SessionStaysInStep == SessionSpec => []StaysInStep
PROOF
<1>1. ReceivesWhileStreaming /\ EngineHasView /\ AppSeesState => StaysInStep
  BY DEF StaysInStep
<1> QED BY <1>1, ReceiverOpenForStream, EveryEngineHasView, AppSeesEveryState, PTL

=============================================================================
