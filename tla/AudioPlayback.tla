--------------------------- MODULE AudioPlayback ----------------------------
(***************************************************************************)
(* A session's sound from the engine's Opus encoder to the headset's       *)
(* output: numbered packets (spawn_audio_pipeline() in engine.rs) over a   *)
(* network that loses, repeats and reorders them, the numbering the client *)
(* keeps (audio_sequence.h), concealment and the player's buffer           *)
(* (OpenXRApp::receiveAudio(), audio_player.cpp).                          *)
(*                                                                         *)
(* The engine numbers each session from 0; the client starts its numbering *)
(* over when it handles the Streaming event, which may be later than the   *)
(* first packets of that session, and the socket may hold packets of other *)
(* sessions then: while the app does not render it reads none.             *)
(*                                                                         *)
(* A slot is the 10 ms of sound of one packet, counted over the stretches  *)
(* of sound; what stands in for a lost packet fills that packet's slot. A  *)
(* stretch is what one numbering makes of its own session's packets with   *)
(* no packet of another session in between.                                *)
(***************************************************************************)
EXTENDS Integers, Sequences

CONSTANTS
  Width,          \* the sequence numbers: 2^16
  ReorderWindow,  \* kReorderWindow
  MaxConcealed,   \* kMaxConcealed
  BufferSlots,    \* MAX_BUFFER_MS in slots
  Reorders,       \* bound: how far a packet may come behind the newest one of its session
  MaxPackets,     \* bound: packets of a session
  MaxStreams,     \* bound
  MaxStretch      \* bound: a packet of another session makes two new stretches

\* A packet never comes later than the window tells from a sender that started over.
ASSUME PlaybackAssumption ==
  /\ {Width, ReorderWindow, MaxConcealed, BufferSlots, Reorders, MaxPackets, MaxStreams} \subseteq Nat
  /\ Reorders <= ReorderWindow
  /\ ReorderWindow < Width \div 2

VARIABLES
  sounding,  \* the engine's session, 0 before the first
  audioSent, \* packets sent in each session; the next one's number is audioSent[sounding] % Width
  numbered,  \* the session whose Streaming event the client handled last
  newest,    \* the last packet of that session, and in this stretch, that was not late; or -1
  started,   \* m_started
  audioLast, \* m_last
  buffer,    \* m_pcmBuffer, as slots
  heard,     \* the last slot given to the output
  stretch    \* history: the stretch of sound it is

playbackVars == <<sounding, audioSent, numbered, newest, started, audioLast, buffer, heard, stretch>>

\* The slot of a session's packet n in stretch t.
Slot(t, n) == t * (MaxPackets + MaxConcealed + 1) + n

\* The signed 16-bit difference of two sequence numbers.
Delta(a, b) ==
  LET d == (a - b) % Width IN IF d >= Width \div 2 THEN d - Width ELSE d

\* Mutant of OnAudio: the difference without the wrap.
OnAudioUnwrapped(number) ==
  IF ~started THEN 0
  ELSE LET delta == number - audioLast
       IN IF delta \in -ReorderWindow .. 0 THEN -1
          ELSE IF delta < 0 THEN 0
          ELSE IF delta - 1 < MaxConcealed THEN delta - 1 ELSE MaxConcealed

\* AudioSequence::onPacket(): how many packets are missing just before this one, or -1 for a late or
\* repeated one.  Further back than the window, the sender started over.
OnAudio(number) ==
  IF ~started THEN 0
  ELSE LET delta == Delta(number, audioLast)
       IN IF delta \in -ReorderWindow .. 0 THEN -1
          ELSE IF delta < 0 THEN 0
          ELSE IF delta - 1 < MaxConcealed THEN delta - 1 ELSE MaxConcealed

\* appendDecoded() for each: the oldest sound makes room.
Buffered(slots) ==
  LET all == buffer \o slots
  IN IF Len(all) > BufferSlots THEN SubSeq(all, Len(all) - BufferSlots + 1, Len(all)) ELSE all

\* A frame is encoded and sent.
SendPacket ==
  /\ sounding > 0
  /\ audioSent[sounding] < MaxPackets
  /\ audioSent' = [audioSent EXCEPT ![sounding] = @ + 1]
  /\ UNCHANGED <<sounding, numbered, newest, started, audioLast, buffer, heard, stretch>>

\* receiveAudio() for one packet that is not late: what is missing before it is concealed, and it is
\* decoded. Concealment may fail, and then stops; so may the packet's own decoding.
Plays(number, slot) ==
  LET missing == OnAudio(number)
  IN /\ missing >= 0
     /\ started' = TRUE
     /\ audioLast' = number
     /\ \E concealed \in 0 .. missing :
          LET hidden == [i \in 1 .. concealed |-> slot - missing + i - 1]
          IN \E decoded \in {<<>>, <<slot>>} : buffer' = Buffered(hidden \o decoded)

\* Some packet of the session is read that is not too old; it may be out of turn, or a repetition.
ReceiveAudio(n) ==
  /\ numbered > 0
  /\ n < audioSent[numbered] /\ n >= newest - Reorders
  /\ Plays(n % Width, Slot(stretch, n))
  /\ newest' = n
  /\ UNCHANGED <<sounding, audioSent, numbered, heard, stretch>>

\* A packet of another session is read, any of it: one of the last session that came late or that the
\* socket still held, or one of the next session, whose Streaming event is not handled yet.
ReceiveForeign(session, n) ==
  /\ numbered > 0 /\ session # numbered
  /\ n < audioSent[session]
  /\ stretch + 2 <= MaxStretch
  /\ Plays(n % Width, Slot(stretch + 1, n))
  /\ stretch' = stretch + 2
  /\ newest' = -1
  /\ UNCHANGED <<sounding, audioSent, numbered, heard>>

\* pump(): the output takes some of the buffer.
Pump(slots) ==
  /\ slots \in 1 .. Len(buffer)
  /\ heard' = buffer[slots]
  /\ buffer' = SubSeq(buffer, slots + 1, Len(buffer))
  /\ UNCHANGED <<sounding, audioSent, numbered, newest, started, audioLast, stretch>>

\* The engine starts a session, and numbers its packets from 0.
NextStream ==
  /\ sounding < MaxStreams
  /\ sounding' = sounding + 1
  /\ UNCHANGED <<audioSent, numbered, newest, started, audioLast, buffer, heard, stretch>>

\* handleStreamEvents(): the Streaming event of a session resets the numbering. The queue may have
\* dropped events before it.
ResetNumbers ==
  \E session \in numbered + 1 .. sounding :
    /\ numbered' = session
    /\ started' = FALSE
    /\ newest' = -1
    /\ stretch' = stretch + 1
    /\ UNCHANGED <<sounding, audioSent, audioLast, buffer, heard>>

-----------------------------------------------------------------------------
PlaybackInit ==
  /\ sounding = 0 /\ audioSent = [session \in 1 .. MaxStreams |-> 0]
  /\ numbered = 0 /\ newest = -1
  /\ started = FALSE /\ audioLast = 0
  /\ buffer = <<>> /\ heard = -1
  /\ stretch = 0

PlaybackNext ==
  \/ SendPacket \/ NextStream \/ ResetNumbers
  \/ \E n \in 0 .. MaxPackets - 1 :
       ReceiveAudio(n) \/ \E session \in 1 .. sounding : ReceiveForeign(session, n)
  \/ \E slots \in 1 .. BufferSlots : Pump(slots)

PlaybackSpec == PlaybackInit /\ [][PlaybackNext]_playbackVars

-----------------------------------------------------------------------------
\* Whatever the network does, and over the wrap of the numbers, overflows of the buffer and new sessions,
\* no 10 ms of sound is played twice, before earlier ones, or concealed in another packet's place, unless
\* a packet of another session is read between the two; and after one order is found again at once.
SoundInOrder ==
  /\ Len(buffer) <= BufferSlots
  /\ \A i, j \in 1 .. Len(buffer) : i < j => buffer[i] < buffer[j]
  /\ buffer # <<>> => heard < Head(buffer)

=============================================================================
