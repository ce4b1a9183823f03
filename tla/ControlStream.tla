---------------------------- MODULE ControlStream ----------------------------
(***************************************************************************)
(* The framing of the control connection: messages [length][type][payload] *)
(* over a TLS stream that delivers its bytes in pieces of any size.        *)
(*                                                                         *)
(* Three readers share the streams.  The engine reads the messages of the  *)
(* handshake with read_exact() (read_message_generic() in tcp_server.rs)   *)
(* and those of the session out of an inbox (take_control_message() in     *)
(* engine.rs); the client reads all of them out of m_rxBuf (takeMessage()  *)
(* and recvMessage() in tcp_client.cpp), whose calls time out and are made *)
(* again.  After its STREAM_START the client sends at once, while the      *)
(* engine may still be in its handshake.                                   *)
(*                                                                         *)
(* A byte is <<message, position>>; a message's header says its length.    *)
(***************************************************************************)
EXTENDS Naturals, Sequences

CONSTANTS
  HeaderBytes,     \* 4 in the code
  ReadBytes,       \* the most bytes one read returns (4096)
  MaxMessageLen,   \* MAX_MSG_LEN, MAX_CONTROL_MESSAGE_LEN
  HandshakeLen,    \* of the messages of the handshake, whose lengths are given
  MaxToEngine,     \* bound: messages of a connection to the engine, handshake included
  MaxToClient,     \* bound: messages of a connection to the client
  MaxConnections   \* bound

ASSUME ControlStreamAssumption ==
  /\ {HeaderBytes, ReadBytes, MaxMessageLen, MaxConnections} \subseteq Nat \ {0}
  /\ HandshakeLen \in 1 .. MaxMessageLen
  /\ MaxToEngine \in Nat /\ MaxToClient \in Nat

VARIABLES
  toEngine,    \* [unsent, wire, inbox, lengths, got] of the stream to the engine
  toClient,    \* the same of the stream to the client
  handshaking, \* the engine is in handle_handshake_generic()
  engineUp, clientUp,  \* each side's view of the connection
  connections

controlVars == <<toEngine, toClient, handshaking, engineUp, clientUp, connections>>

NewStream == [unsent |-> <<>>, wire |-> <<>>, inbox |-> <<>>, lengths |-> <<>>, got |-> <<>>]

\* The messages the client sends in its handshake, and how many of the engine's it has read before
\* each: HELLO; PIN_RESPONSE after HELLO_ACK and PIN_REQUEST; STREAM_START after PIN_RESULT and
\* STREAM_CONFIG.
Awaits == <<0, 2, 4>>
\* How many of the client's the engine has read before each of its own.
Answers == <<1, 1, 2, 2>>

\* The bytes of message n: its header, then type and payload.
Framed(n, length) == [i \in 1 .. HeaderBytes + length |-> <<n, i, length>>]
Body(n, length) == [i \in 1 .. length |-> <<n, HeaderBytes + i, length>>]

\* Bytes 0 to n of s are taken, the others stay.
Rest(s, n) == SubSeq(s, n + 1, Len(s))

\* What the first HeaderBytes of an inbox say.
LengthIn(inbox) == inbox[1][3]

(***************************************************************************)
(* take_control_message() and takeMessage(): take the first whole message. *)
(***************************************************************************)
Whole(inbox) == Len(inbox) >= HeaderBytes /\ Len(inbox) >= HeaderBytes + LengthIn(inbox)

Take(stream) ==
  LET size == HeaderBytes + LengthIn(stream.inbox)
  IN [stream EXCEPT !.got = Append(@, Rest(SubSeq(stream.inbox, 1, size), HeaderBytes)),
                    !.inbox = Rest(@, size)]

\* Both readers refuse a message that says to be longer; no writer makes one.
TooLong(inbox) == Len(inbox) >= HeaderBytes /\ LengthIn(inbox) > MaxMessageLen

\* n bytes come in with one read.
Arrive(stream, n) ==
  [stream EXCEPT !.inbox = @ \o SubSeq(stream.wire, 1, n), !.wire = Rest(@, n)]

\* send_message_generic(), send_msg(), sendMessage(): the next message is handed to the writer.
Submit(stream, length) ==
  [stream EXCEPT !.unsent = Framed(Len(stream.lengths) + 1, length), !.lengths = Append(@, length)]

\* write_all(), writeAll(): part of it goes out.
Sends(stream, n) ==
  [stream EXCEPT !.wire = @ \o SubSeq(stream.unsent, 1, n), !.unsent = Rest(@, n)]

-----------------------------------------------------------------------------
ClientSubmits(length) ==
  /\ clientUp
  /\ toEngine.unsent = <<>>
  /\ Len(toEngine.lengths) < MaxToEngine
  /\ LET n == Len(toEngine.lengths) + 1
     IN n <= Len(Awaits) => length = HandshakeLen /\ Len(toClient.got) >= Awaits[n]
  /\ toEngine' = Submit(toEngine, length)
  /\ UNCHANGED <<toClient, handshaking, engineUp, clientUp, connections>>

ClientWrites(n) ==
  /\ clientUp
  /\ n \in 1 .. Len(toEngine.unsent)
  /\ toEngine' = Sends(toEngine, n)
  /\ UNCHANGED <<toClient, handshaking, engineUp, clientUp, connections>>

\* The write makes no progress for kWriteTimeoutMs: runStreaming() and handshake() leave the
\* connection.  (stop() may still hand DISCONNECT to MbedTLS, behind the record that is stuck.)
WriteTimesOut ==
  /\ clientUp
  /\ toEngine.unsent # <<>>
  /\ clientUp' = FALSE
  /\ UNCHANGED <<toEngine, toClient, handshaking, engineUp, connections>>

EngineSubmits(length) ==
  /\ engineUp
  /\ toClient.unsent = <<>>
  /\ Len(toClient.lengths) < MaxToClient
  /\ LET n == Len(toClient.lengths) + 1
     IN IF n <= Len(Answers)
        THEN length = HandshakeLen /\ handshaking /\ Len(toEngine.got) = Answers[n]
        ELSE ~handshaking
  /\ toClient' = Submit(toClient, length)
  /\ UNCHANGED <<toEngine, handshaking, engineUp, clientUp, connections>>

EngineWrites(n) ==
  /\ engineUp
  /\ n \in 1 .. Len(toClient.unsent)
  /\ toClient' = Sends(toClient, n)
  /\ UNCHANGED <<toEngine, handshaking, engineUp, clientUp, connections>>

-----------------------------------------------------------------------------
(***************************************************************************)
(* The engine's readers.                                                   *)
(***************************************************************************)

\* What read_exact() still has to read: the rest of the header, then the rest of the body.
Wants(inbox) ==
  IF Len(inbox) < HeaderBytes THEN HeaderBytes - Len(inbox)
  ELSE HeaderBytes + LengthIn(inbox) - Len(inbox)

\* The steps of the handshake read one message each, and none but when they wait for it.
AwaitsMessage == Len(toClient.lengths) >= Awaits[Len(toEngine.got) + 1] /\ toClient.unsent = <<>>

\* Mutant of ReadExact: the handshake reads through a buffer of its own (BufReader), which is
\* dropped with the bytes in it when the handshake is over.
ReadBuffered(n) ==
  /\ engineUp /\ handshaking /\ AwaitsMessage
  /\ n \in 1 .. Len(toEngine.wire) /\ n <= ReadBytes
  /\ LET read == Arrive(toEngine, n)
         stream == IF Whole(read.inbox) THEN Take(read) ELSE read
         over == Len(stream.got) = Len(Awaits)
     IN /\ toEngine' = IF over THEN [stream EXCEPT !.inbox = <<>>] ELSE stream
        /\ handshaking' = ~over
  /\ UNCHANGED <<toClient, engineUp, clientUp, connections>>

ReadExact(n) ==
  /\ engineUp /\ handshaking /\ AwaitsMessage
  /\ n \in 1 .. Len(toEngine.wire) /\ n <= Wants(toEngine.inbox)
  /\ LET read == Arrive(toEngine, n)
         stream == IF Whole(read.inbox) THEN Take(read) ELSE read
     IN /\ toEngine' = stream
        /\ handshaking' = (Len(stream.got) < Len(Awaits))
  /\ UNCHANGED <<toClient, engineUp, clientUp, connections>>

\* The session's read, in any pieces ...
ReadSome(n) ==
  /\ engineUp /\ ~handshaking
  /\ ~Whole(toEngine.inbox)
  /\ n \in 1 .. Len(toEngine.wire) /\ n <= ReadBytes
  /\ toEngine' = Arrive(toEngine, n)
  /\ UNCHANGED <<toClient, handshaking, engineUp, clientUp, connections>>

\* ... and the loop over every whole message in the inbox.
TakeControlMessage ==
  /\ engineUp /\ ~handshaking
  /\ Whole(toEngine.inbox) /\ ~TooLong(toEngine.inbox)
  /\ toEngine' = Take(toEngine)
  /\ UNCHANGED <<toClient, handshaking, engineUp, clientUp, connections>>

(***************************************************************************)
(* The client's reader.  A timeout of recvMessage() is a pause between two *)
(* reads: what came in stays in m_rxBuf for the next call.                 *)
(***************************************************************************)
RecvBytes(n) ==
  /\ clientUp
  /\ ~Whole(toClient.inbox)
  /\ n \in 1 .. Len(toClient.wire) /\ n <= ReadBytes
  /\ toClient' = Arrive(toClient, n)
  /\ UNCHANGED <<toEngine, handshaking, engineUp, clientUp, connections>>

TakeMessage ==
  /\ clientUp
  /\ Whole(toClient.inbox) /\ ~TooLong(toClient.inbox)
  /\ toClient' = Take(toClient)
  /\ UNCHANGED <<toEngine, handshaking, engineUp, clientUp, connections>>

-----------------------------------------------------------------------------
(***************************************************************************)
(* Connections.                                                            *)
(***************************************************************************)

\* A step of the handshake, the silence timer or the task is ended; the client's calls are refused.
EngineDrops ==
  /\ engineUp
  /\ engineUp' = FALSE
  /\ UNCHANGED <<toEngine, toClient, handshaking, clientUp, connections>>

ClientLeaves ==
  /\ clientUp
  /\ clientUp' = FALSE
  /\ UNCHANGED <<toEngine, toClient, handshaking, engineUp, connections>>

\* Mutant of Connect: the bytes of the last connection stay in m_rxBuf.
ConnectKeepsBytes ==
  /\ ~clientUp /\ ~engineUp
  /\ connections < MaxConnections
  /\ connections' = connections + 1
  /\ toEngine' = NewStream
  /\ toClient' = [NewStream EXCEPT !.inbox = toClient.inbox]
  /\ handshaking' = TRUE /\ engineUp' = TRUE /\ clientUp' = TRUE

\* connect(): m_rxBuf is cleared; the engine's readers start with the connection.
Connect ==
  /\ ~clientUp /\ ~engineUp
  /\ connections < MaxConnections
  /\ connections' = connections + 1
  /\ toEngine' = NewStream /\ toClient' = NewStream
  /\ handshaking' = TRUE /\ engineUp' = TRUE /\ clientUp' = TRUE

ControlStreamInit ==
  /\ toEngine = NewStream /\ toClient = NewStream
  /\ handshaking = TRUE /\ engineUp = FALSE /\ clientUp = FALSE
  /\ connections = 0

ControlStreamNext ==
  \/ \E length \in 1 .. MaxMessageLen : ClientSubmits(length) \/ EngineSubmits(length)
  \/ \E n \in 1 .. ReadBytes + HeaderBytes + MaxMessageLen :
       ClientWrites(n) \/ EngineWrites(n) \/ ReadExact(n) \/ ReadSome(n) \/ RecvBytes(n)
  \/ WriteTimesOut \/ TakeControlMessage \/ TakeMessage
  \/ EngineDrops \/ ClientLeaves \/ Connect

ControlStreamSpec == ControlStreamInit /\ [][ControlStreamNext]_controlVars

-----------------------------------------------------------------------------
InOrder(stream) == \A n \in DOMAIN stream.got : stream.got[n] = Body(n, stream.lengths[n])

\* The byte a writer sends after b, in a stream of messages of these lengths.
NextByte(b, lengths) ==
  IF b[2] < HeaderBytes + b[3] THEN <<b[1], b[2] + 1, b[3]>> ELSE <<b[1] + 1, 1, lengths[b[1] + 1]>>

\* No byte is lost or doubled: what is in the inbox, on the wire and in the writer are the bytes
\* of the messages sent and not taken, from the first of the first to the last of the last.
Accounted(stream) ==
  LET bytes == stream.inbox \o stream.wire \o stream.unsent
      lengths == stream.lengths
      taken == Len(stream.got)
      sent == Len(lengths)
  IN /\ taken <= sent
     /\ bytes = <<>> <=> taken = sent
     /\ bytes # <<>> =>
          /\ bytes[1] = <<taken + 1, 1, lengths[taken + 1]>>
          /\ \A i \in 1 .. Len(bytes) - 1 : bytes[i + 1] = NextByte(bytes[i], lengths)
          /\ bytes[Len(bytes)] = <<sent, HeaderBytes + lengths[sent], lengths[sent]>>

\* Every message of a connection arrives whole, once and in order in both directions, however its
\* bytes are cut into writes and reads and whichever of the engine's two readers they meet; those
\* that have not arrived are where they will be read.
MessagesArriveInOrder ==
  /\ InOrder(toEngine) /\ InOrder(toClient)
  /\ Accounted(toEngine) /\ Accounted(toClient)

=============================================================================
