--------------------------- MODULE VideoReceiver ---------------------------
(***************************************************************************)
(* The client's video receiver (video_receiver.cpp) between its three      *)
(* threads: the receive thread that assembles and queues frames, the       *)
(* render thread that takes them to the decoder (openxr_app.cpp), and the  *)
(* session thread that begins and ends sessions (stream_session.cpp).      *)
(*                                                                         *)
(* The frame assembler is that of the module FrameAssembler, guarded by    *)
(* m_assemblyMutex; the queue has m_queueMutex.  One action is what a      *)
(* thread does in one critical section, so that everything another thread  *)
(* can do between two of them is a behavior of the model.  What becomes of *)
(* the requests for a keyframe is left out.                                *)
(***************************************************************************)
EXTENDS FrameAssembler, Sequences

CONSTANTS
  MaxQueued,     \* kMaxQueuedFrames
  MaxSessions,   \* bound: sessions
  ConsumerFails  \* FALSE: the decoder takes every frame and rendering never pauses

ASSUME ReceiverAssumption ==
  /\ MaxQueued \in Nat \ {0}
  /\ MaxSessions \in Nat \ {0}
  /\ ConsumerFails \in BOOLEAN

VARIABLES
  generation,  \* m_generation
  active,      \* m_sessionActive
  queue,       \* m_frames; each with its reference and the generation it was assembled in
  receiving,   \* where the receive thread is in run()
  assembled,   \* its locals: the frame of `out`, and `generation`
  rendering,   \* OpenXRApp::m_rendering
  consuming,   \* where the render thread is in requireKeyframe()
  session,     \* where the session thread is in beginSession() and endSession()
  fed,         \* the frame the decoder got last, or NoFrame if it lost one since
  popped       \* history: the last frame the render thread took off the queue

threadVars == <<receiving, assembled, rendering, consuming, session>>
receiverVars ==
  <<assemblerVars, generation, active, queue, threadVars, fed, popped>>

NoAssembled == [index |-> NoIndex, key |-> FALSE, ref |-> NoIndex, gen |-> 0]

-----------------------------------------------------------------------------
(* Receive thread: run().                                                  *)

\* Under m_assemblyMutex, with a packet of the server or without, onPacket()
\* and onTick().  The timeout can only hit if the packet did not count for the
\* frame in progress.
Assembles(r, refreshed) ==
  LET ticks == {r} \cup (IF r.have /\ ~r.finished /\ ~refreshed THEN {TimedOut(r)} ELSE {})
  IN \E t \in ticks :
       /\ Returns(t)
       /\ IF t.out = NoFrame
          THEN UNCHANGED <<receiving, assembled>>
          ELSE /\ receiving' = "push"
               /\ assembled' = [index |-> t.out.index, key |-> t.out.key,
                                ref |-> sent[t.out.index].ref, gen |-> generation]

Receive ==
  /\ receiving = "read"
  /\ \/ ~active /\ UNCHANGED <<asm, handed, receiving, assembled>>
     \/ active /\ Assembles(asm, FALSE)
     \/ active /\ \E p \in Arrivable : Assembles(OnPacket(asm, p, TRUE), ~TooLate(asm, p))
  /\ UNCHANGED <<senderVars, generation, active, queue, rendering, consuming, session, fed, popped>>

\* Mutants of PushFrame: does not look whether the session ended meanwhile;
\* drops what does not fit and carries on.
PushAnyGeneration ==
  /\ receiving = "push"
  /\ queue' = IF Len(queue) < MaxQueued THEN Append(queue, assembled) ELSE <<>>
  /\ receiving' = IF Len(queue) < MaxQueued THEN "read" ELSE "overflow"

PushAndForget ==
  /\ receiving = "push"
  /\ receiving' = "read"
  /\ queue' = IF assembled.gen = generation /\ Len(queue) < MaxQueued
              THEN Append(queue, assembled) ELSE <<>>

\* Under m_queueMutex.
PushFrame ==
  /\ receiving = "push"
  /\ IF assembled.gen # generation
     THEN /\ receiving' = "read"
          /\ UNCHANGED queue
     ELSE IF Len(queue) < MaxQueued
     THEN /\ receiving' = "read"
          /\ queue' = Append(queue, assembled)
     ELSE /\ receiving' = "overflow"
          /\ queue' = <<>>

Push ==
  /\ PushFrame
  /\ assembled' = NoAssembled
  /\ UNCHANGED <<assemblerVars, generation, active, rendering, consuming, session, fed, popped>>

\* The decoder is behind: every queued frame was dropped.
Overflow ==
  /\ receiving = "overflow"
  /\ receiving' = "read"
  /\ Returns(RequireKeyframe(asm))
  /\ UNCHANGED <<senderVars, generation, active, queue, assembled, rendering, consuming,
                 session, fed, popped>>

-----------------------------------------------------------------------------
(* Render thread: OpenXRApp::mainLoop().                                   *)

Pop ==
  /\ consuming = "idle"
  /\ queue # <<>>
  /\ popped' = Head(queue)
  /\ queue' = Tail(queue)
  /\ UNCHANGED <<assemblerVars, generation, active, receiving, assembled, session>>

\* receiveAndDecodeVideo(): the decoder takes the frame, ...
Feed ==
  /\ rendering
  /\ Pop
  /\ fed' = popped'
  /\ UNCHANGED <<rendering, consuming>>

\* ... or it is lost there: no render pose, an invalid NAL, no input buffer.
Reject ==
  /\ ConsumerFails
  /\ rendering
  /\ Pop
  /\ fed' = NoAssembled
  /\ consuming' = "require"
  /\ UNCHANGED rendering

\* The OpenXR session is not ready: nothing is rendered, ...
Pause ==
  /\ ConsumerFails
  /\ consuming = "idle"
  /\ rendering
  /\ rendering' = FALSE
  /\ UNCHANGED <<assemblerVars, generation, active, queue, receiving, assembled, consuming,
                 session, fed, popped>>

\* ... and frames are taken off the queue and thrown away.
Discard ==
  /\ ~rendering
  /\ Pop
  /\ fed' = NoAssembled
  /\ UNCHANGED <<rendering, consuming>>

Resume ==
  /\ ~rendering
  /\ rendering' = TRUE
  /\ consuming' = "require"
  /\ UNCHANGED <<assemblerVars, generation, active, queue, receiving, assembled,
                 session, fed, popped>>

\* requireKeyframe(), its two critical sections.
RequireRestart ==
  /\ consuming = "require"
  /\ IF active
     THEN /\ Returns(RequireKeyframe(asm))
          /\ consuming' = "clear"
     ELSE /\ consuming' = "idle"
          /\ UNCHANGED <<asm, handed>>
  /\ UNCHANGED <<senderVars, generation, active, queue, receiving, assembled, rendering,
                 session, fed, popped>>

ClearQueue ==
  /\ consuming = "clear"
  /\ consuming' = "idle"
  /\ queue' = <<>>
  /\ fed' = IF queue = <<>> THEN fed ELSE NoAssembled
  /\ UNCHANGED <<assemblerVars, generation, active, receiving, assembled, rendering,
                 session, popped>>

-----------------------------------------------------------------------------
(* Session thread: StreamSession::run() through its two hooks.             *)

\* beginSession(): before STREAM_START, and at least the backoff after the end
\* of the last session, so no packet is under way.
BeginSession ==
  /\ session = "off"
  /\ generation < 2 * MaxSessions
  /\ session' = "beginning"
  /\ generation' = generation + 1
  /\ asm' = Reset(asm)
  /\ handed' = NoFrame
  /\ active' = TRUE
  /\ sent' = <<>>
  /\ UNCHANGED <<run, next, encoded, queue, receiving, assembled, rendering, consuming,
                 fed, popped>>

EndSession ==
  /\ session = "on"
  /\ session' = "ending"
  /\ generation' = generation + 1
  /\ active' = FALSE
  /\ UNCHANGED <<assemblerVars, queue, receiving, assembled, rendering, consuming, fed, popped>>

SessionClearsQueue ==
  /\ \/ session = "beginning" /\ session' = "on"
     \/ session = "ending" /\ session' = "off"
  /\ queue' = <<>>
  /\ UNCHANGED <<assemblerVars, generation, active, receiving, assembled, rendering,
                 consuming, fed, popped>>

-----------------------------------------------------------------------------
\* The driver presents all the time, the engine sends only in a session.
StreamedPresents ==
  /\ Presents
  /\ session # "on" => UNCHANGED sent
  /\ UNCHANGED <<generation, active, queue, threadVars, fed, popped>>

\* SteamVR starts again between two sessions.
RestartedEngine ==
  /\ session = "off"
  /\ EngineRestart
  /\ UNCHANGED <<generation, active, queue, threadVars, fed, popped>>

ReceiverInit ==
  /\ AssemblerInit
  /\ generation = 0
  /\ active = FALSE
  /\ queue = <<>>
  /\ receiving = "read"
  /\ assembled = NoAssembled
  /\ rendering = TRUE
  /\ consuming = "idle"
  /\ session = "off"
  /\ fed = NoAssembled
  /\ popped = NoAssembled

ReceiverNext ==
  \/ StreamedPresents
  \/ RestartedEngine
  \/ Receive \/ Push \/ Overflow
  \/ Feed \/ Reject \/ Pause \/ Discard \/ Resume \/ RequireRestart \/ ClearQueue
  \/ BeginSession \/ EndSession \/ SessionClearsQueue

ReceiverSpec == ReceiverInit /\ [][ReceiverNext]_receiverVars

-----------------------------------------------------------------------------
(* Properties.                                                             *)
Queueable == [index : Indices, key : BOOLEAN, ref : {NoIndex} \cup Indices, gen : 1 .. 2 * MaxSessions]

\* Types; in particular the queue never holds more than kMaxQueuedFrames.
ReceiverTypeOK ==
  /\ AssemblerTypeOK
  /\ generation \in 0 .. 2 * MaxSessions
  /\ active \in BOOLEAN
  /\ queue \in Seq(Queueable)
  /\ Len(queue) <= MaxQueued
  /\ receiving \in {"read", "push", "overflow"}
  /\ assembled \in Queueable \cup {NoAssembled}
  /\ rendering \in BOOLEAN
  /\ consuming \in {"idle", "require", "clear"}
  /\ session \in {"off", "beginning", "on", "ending"}
  /\ {fed, popped} \subseteq Queueable \cup {NoAssembled}

\* Outside beginSession() and endSession(), every queued frame was assembled in
\* the current session, however long the receive thread held it.
NoFrameOfAnotherSession ==
  session \in {"on", "off"} =>
    \A i \in DOMAIN queue : queue[i].gen = generation

\* The render thread gets each frame of a session at most once and in order,
\* and none of another session, however long the receive thread held it.
PopsInOrder ==
  [][popped' # popped =>
       /\ popped'.gen > popped.gen
            \/ (popped'.gen = popped.gen /\ popped'.index > popped.index)
       /\ session \in {"on", "off"} => popped'.gen = generation]_receiverVars

\* openxr_app.cpp: frames "arrive complete, in order, starting at a keyframe";
\* video_receiver.h: requireKeyframe() is to "drop the queued frames, which
\* reference it, and restart at the next keyframe".  So while a session lasts,
\* the decoder gets a frame that is not a keyframe only right after the frame
\* it references.
DecoderHasReference ==
  [][session # "on" \/ fed' = fed \/ fed' = NoAssembled \/ fed'.key
     \/ (fed.gen = fed'.gen /\ fed.index = fed'.ref)]_receiverVars

\* What holds of it although requireKeyframe() is not atomic: as long as the
\* render thread has refused, discarded or cleared nothing since the last frame
\* the decoder took, each frame it gets is a keyframe or references that one.
\* Overflows of the queue and lost packets never break the chain unnoticed.
DecoderHasReferenceUntilLost ==
  [][session # "on" \/ fed' \in {fed, NoAssembled} \/ fed'.key \/ fed = NoAssembled
     \/ (fed.gen = fed'.gen /\ fed.index = fed'.ref)]_receiverVars

=============================================================================
