----------------------------- MODULE EngineLoop -----------------------------
(***************************************************************************)
(* The engine's accept -> session -> hold loop (engine.rs: StreamingLoop)  *)
(* on top of the control server that accepts and pairs one connection at a *)
(* time (control/tcp_server.rs: TcpControlServer), the counters of the     *)
(* loop (control/reconnect.rs: ReconnectState) and the PIN it publishes.   *)
(*                                                                         *)
(* The server's PairingState is the module Pairing.  Clients are other     *)
(* machines: any of them may connect, stop answering or go away at any     *)
(* step, and send any PIN.  How long a handshake step takes before its     *)
(* timeout, and how long a backoff lasts, is left open.                    *)
(***************************************************************************)
EXTENDS Pairing

CONSTANTS
  Clients,          \* machines that may connect
  NoClient,         \* none of them
  NoPin,            \* no PIN: "------" in status.json
  ShutsDown,        \* FALSE: leave engine shutdown out of this instance
  MaxAcceptErrors,  \* MAX_CONSECUTIVE_ACCEPT_ERRORS
  FailureCap        \* bound: accept_failures stops counting here

ASSUME EngineAssumption ==
  /\ NoClient \notin Clients
  /\ NoPin \notin Pins
  /\ ShutsDown \in BOOLEAN
  /\ MaxAcceptErrors \in Nat \ {0}
  /\ FailureCap \in Nat \ {0}
  /\ Lockout >= HoldWindow  \* [pairing] lockout_seconds is 300 to 3600, the hold 5 s

VARIABLES
  phase,           \* where StreamingLoop::run is
  cancelled,       \* StreamingLoop.cancel; fvp_shutdown then drops the frame source
  acceptFailures,  \* ReconnectState.accept_failures
  holdUntil,       \* the end of hold's sleep
  framePose,       \* run_session's frame_pose
  acceptErrors,    \* accept_errors of listen_and_accept
  step,            \* what listen_and_accept is at
  client,          \* the peer of the handshake, then of the session
  helloCaps,       \* client_caps of the handshake has FRAME_POSE
  serverCaps,      \* TcpControlServer.client_caps has FRAME_POSE
  shown,           \* the PIN in status.json
  acceptedPin,     \* history: the PIN when the connection came in
  proved,          \* history: the client of this handshake, once it sent the PIN
  sessionPin       \* history: the PIN the session's client paired with

loopVars == <<phase, cancelled, acceptFailures, holdUntil, framePose>>
acceptVars == <<acceptErrors, step, client, helloCaps>>
historyVars == <<acceptedPin, proved, sessionPin>>
engineVars == <<pairingVars, loopVars, acceptVars, serverCaps, shown, historyVars>>

Handshake == {"tls", "hello", "pin", "start"}

Listening == phase \in {"listen", "hold"}

-----------------------------------------------------------------------------
(* Mutants: plausible bugs in the operations that follow.                  *)
PinCheckedOnce(p) ==        \* a server that is paired does not ask again
  /\ Listening
  /\ step = "pin"
  /\ VerifyOk(p) \/ (paired /\ ~IsLocked /\ UNCHANGED pairingVars)
  /\ step' = "start"
  /\ proved' = IF p = pin THEN client ELSE proved
  /\ UNCHANGED <<loopVars, acceptErrors, client, helloCaps, serverCaps, shown,
                 acceptedPin, sessionPin>>

PinWaitsForever ==          \* no time limit on PIN_RESPONSE
  /\ Listening
  /\ step \in Handshake \ {"pin"}
  /\ step' = "none"
  /\ client' = NoClient
  /\ UNCHANGED <<pairingVars, loopVars, acceptErrors, helloCaps, serverCaps,
                 shown, historyVars>>

LostWithoutRearm ==         \* the hold listens with the PIN as it is
  /\ phase = "session"
  /\ phase' = "hold"
  /\ holdUntil' = now + HoldWindow
  /\ acceptErrors' = 0
  /\ step' = "bind"
  /\ client' = NoClient
  /\ UNCHANGED <<pairingVars, cancelled, acceptFailures, framePose,
                 helloCaps, serverCaps, shown, historyVars>>

StartForgetsLockout ==      \* the next server does not resume the lockout
  /\ phase = "idle"
  /\ ~cancelled
  /\ NewStateForgets
  /\ phase' = "listen"
  /\ acceptErrors' = 0
  /\ step' = "bind"
  /\ client' = NoClient
  /\ serverCaps' = FALSE
  /\ proved' = NoClient
  /\ UNCHANGED <<cancelled, acceptFailures, holdUntil, framePose, helloCaps, shown,
                 acceptedPin, sessionPin>>

StopUnlessListening ==      \* accept() does not watch the token
  /\ phase \in {"idle", "session", "hold"}
  /\ cancelled
  /\ phase' = "stopped"
  /\ step' = "none"
  /\ client' = NoClient
  /\ UNCHANGED <<pairingVars, cancelled, acceptFailures, holdUntil,
                 framePose, acceptErrors, helloCaps, serverCaps, shown, historyVars>>

-----------------------------------------------------------------------------
(* listen_and_accept: one connection at a time.                            *)

\* rotate_if_expired(), in every turn of the accept loop.
RotateIfExpired == RotateExpired \/ (~PinExpired /\ UNCHANGED pairingVars)

\* listen_and_accept is called; it has no TLS identity or no port yet.
CallListen ==
  /\ acceptErrors' = 0
  /\ step' = "bind"
  /\ client' = NoClient

Bind ==
  /\ Listening
  /\ step = "bind"
  /\ step' = "none"
  /\ UNCHANGED <<pairingVars, loopVars, acceptErrors, client, helloCaps, serverCaps,
                 shown, historyVars>>

AcceptConnection(c) ==
  /\ Listening
  /\ step = "none"
  /\ RotateIfExpired
  /\ acceptErrors' = 0
  /\ step' = "tls"
  /\ client' = c
  /\ acceptedPin' = pin'
  /\ proved' = NoClient
  /\ UNCHANGED <<loopVars, helloCaps, serverCaps, shown, sessionPin>>

(* accept() fails, but not often enough in a row to give up.               *)
AcceptError ==
  /\ Listening
  /\ step = "none"
  /\ acceptErrors + 1 < MaxAcceptErrors
  /\ RotateIfExpired
  /\ acceptErrors' = acceptErrors + 1
  /\ UNCHANGED <<loopVars, step, client, helloCaps, serverCaps, shown, historyVars>>

(* The sleep for expires_in() ends before a connection comes in.           *)
RotateWhileWaiting ==
  /\ Listening
  /\ step = "none"
  /\ RotateExpired
  /\ UNCHANGED <<loopVars, acceptVars, serverCaps, shown, historyVars>>

TlsDone ==
  /\ Listening
  /\ step = "tls"
  /\ step' = "hello"
  /\ UNCHANGED <<pairingVars, loopVars, acceptErrors, client, helloCaps, serverCaps,
                 shown, historyVars>>

(* HELLO: the capability flags reach the server before the PIN is proved.  *)
Hello ==
  /\ Listening
  /\ step = "hello"
  /\ step' = "pin"
  /\ helloCaps' \in BOOLEAN
  /\ serverCaps' = helloCaps'
  /\ UNCHANGED <<pairingVars, loopVars, acceptErrors, client, shown, historyVars>>

(* The PIN is right.  STREAM_CONFIG says from helloCaps whether each frame *)
(* will carry its pose.                                                    *)
PinAccepted(p) ==
  /\ Listening
  /\ step = "pin"
  /\ VerifyOk(p)
  /\ step' = "start"
  /\ proved' = IF p = pin THEN client ELSE proved
  /\ UNCHANGED <<loopVars, acceptErrors, client, helloCaps, serverCaps, shown,
                 acceptedPin, sessionPin>>

PinRejected(p) ==
  /\ Listening
  /\ step = "pin"
  /\ VerifyFails(p)
  /\ step' = "none"
  /\ client' = NoClient
  /\ UNCHANGED <<loopVars, acceptErrors, helloCaps, serverCaps, shown, historyVars>>

(* A step times out, a read or a send fails, or another message comes.     *)
HandshakeFails ==
  /\ Listening
  /\ step \in Handshake
  /\ step' = "none"
  /\ client' = NoClient
  /\ UNCHANGED <<pairingVars, loopVars, acceptErrors, helloCaps, serverCaps, shown,
                 historyVars>>

-----------------------------------------------------------------------------
(* StreamingLoop: accept, run_session, hold.                               *)

\* record_accept_failure() and record_hold_accept_failure().
RecordFailure ==
  acceptFailures' = IF acceptFailures < FailureCap THEN acceptFailures + 1
                                                   ELSE FailureCap

(* accept(): after the backoff, a new server with a new PIN.               *)
StartListening ==
  /\ phase = "idle"
  /\ ~cancelled
  /\ NewState
  /\ phase' = "listen"
  /\ CallListen
  /\ serverCaps' = FALSE
  /\ proved' = NoClient
  /\ UNCHANGED <<cancelled, acceptFailures, holdUntil, framePose,
                 helloCaps, shown, acceptedPin, sessionPin>>

\* The failure is counted, and the loop starts over.
FailureRetries ==
  /\ RecordFailure
  /\ phase' = "idle"
  /\ step' = "none"
  /\ client' = NoClient
  /\ UNCHANGED <<cancelled, holdUntil, framePose, acceptErrors,
                 helloCaps, serverCaps, shown, historyVars>>

(* listen_and_accept fails, in accept() or in hold(): there is no TLS      *)
(* identity or no port, or accept() has failed too often in a row.         *)
ListenFails ==
  /\ Listening
  /\ \/ step = "bind" /\ UNCHANGED pairingVars
     \/ step = "none" /\ acceptErrors + 1 >= MaxAcceptErrors /\ RotateIfExpired
  /\ FailureRetries

(* STREAM_START: listen_and_accept returns the authenticated connection.   *)
(* One resumed in a hold passes the top of the loop, and is dropped there  *)
(* after a shutdown (Stop).                                                *)
StreamStart ==
  /\ Listening
  /\ ~(phase = "hold" /\ cancelled)
  /\ step = "start"
  /\ phase' = "setup"
  /\ step' = "none"
  /\ acceptFailures' = 0
  /\ framePose' = serverCaps
  /\ sessionPin' = pin
  /\ UNCHANGED <<pairingVars, cancelled, holdUntil, acceptErrors,
                 client, helloCaps, serverCaps, shown, acceptedPin, proved>>

SessionStarts ==
  /\ phase = "setup"
  /\ phase' = "session"
  /\ UNCHANGED <<pairingVars, cancelled, acceptFailures, holdUntil,
                 framePose, acceptVars, serverCaps, shown, historyVars>>

(* The UDP sender cannot be set up.                                        *)
SetupFails ==
  /\ phase = "setup"
  /\ UNCHANGED pairingVars
  /\ FailureRetries

(* The client sent DISCONNECT (which clears the failures) or broke the     *)
(* protocol.                                                               *)
SessionOver ==
  /\ phase = "session"
  /\ phase' = "idle"
  /\ client' = NoClient
  /\ acceptFailures' \in {0, acceptFailures}
  /\ UNCHANGED <<pairingVars, cancelled, holdUntil, framePose,
                 acceptErrors, step, helloCaps, serverCaps, shown, historyVars>>

(* The connection was lost: listen again with the session's own server.    *)
ConnectionLost ==
  /\ phase = "session"
  /\ phase' = "hold"
  /\ Rearm
  /\ holdUntil' = now + HoldWindow
  /\ CallListen
  /\ UNCHANGED <<cancelled, acceptFailures, framePose, helloCaps,
                 serverCaps, shown, historyVars>>

\* A sleep until t is over.  The clock stops at MaxTime, when every sleep
\* counts as over.
SleepOver(t) == now >= t \/ now = MaxTime

(* The hold is over, also for a handshake under way.                       *)
HoldExpires ==
  /\ phase = "hold"
  /\ SleepOver(holdUntil)
  /\ phase' = "idle"
  /\ step' = "none"
  /\ client' = NoClient
  /\ UNCHANGED <<pairingVars, cancelled, acceptFailures, holdUntil,
                 framePose, acceptErrors, helloCaps, serverCaps, shown, historyVars>>

(* status.json is rewritten: with the server's PIN while it listens, with  *)
(* none in a backoff or a session.                                         *)
Publish ==
  /\ phase # "stopped"
  /\ shown' = IF Listening THEN pin ELSE NoPin
  /\ UNCHANGED <<pairingVars, loopVars, acceptVars, serverCaps, historyVars>>

(* fvp_shutdown.                                                           *)
Shutdown ==
  /\ ShutsDown
  /\ ~cancelled
  /\ cancelled' = TRUE
  /\ UNCHANGED <<pairingVars, phase, acceptFailures, holdUntil,
                 framePose, acceptVars, serverCaps, shown, historyVars>>

(* The task that runs the loop watches the token, too, and drops the loop  *)
(* at whatever it waits for.                                               *)
Stop ==
  /\ phase # "stopped"
  /\ cancelled
  /\ phase' = "stopped"
  /\ step' = "none"
  /\ client' = NoClient
  /\ UNCHANGED <<pairingVars, cancelled, acceptFailures, holdUntil,
                 framePose, acceptErrors, helloCaps, serverCaps, shown, historyVars>>

Clock ==
  /\ Tick
  /\ UNCHANGED <<loopVars, acceptVars, serverCaps, shown, historyVars>>

-----------------------------------------------------------------------------
EngineInit ==
  /\ PairingInit
  /\ phase = "idle"
  /\ cancelled = FALSE
  /\ acceptFailures = 0
  /\ holdUntil = NoTime
  /\ framePose = FALSE
  /\ acceptErrors = 0
  /\ step = "none"
  /\ client = NoClient
  /\ helloCaps = FALSE
  /\ serverCaps = FALSE
  /\ shown = NoPin
  /\ acceptedPin = NoPin
  /\ proved = NoClient
  /\ sessionPin = NoPin

EngineNext ==
  \/ Bind \/ AcceptError \/ RotateWhileWaiting \/ TlsDone \/ Hello
  \/ \E c \in Clients : AcceptConnection(c)
  \/ \E p \in Pins : PinAccepted(p) \/ PinRejected(p)
  \/ HandshakeFails \/ ListenFails \/ StreamStart
  \/ StartListening \/ SessionStarts \/ SetupFails \/ SessionOver
  \/ ConnectionLost \/ HoldExpires \/ Publish
  \/ Shutdown \/ Stop \/ Clock

EngineSafeSpec == EngineInit /\ [][EngineNext]_engineVars

(* What the engine does without anybody's help: its own steps, timers and  *)
(* time limits.  Nothing is assumed of clients, errors or the driver.      *)
EngineFairness ==
  /\ WF_engineVars(Bind \/ ListenFails)
  /\ WF_engineVars(HandshakeFails)
  /\ WF_engineVars(StartListening)
  /\ WF_engineVars(SessionStarts \/ SetupFails)
  /\ WF_engineVars(HoldExpires)
  /\ WF_engineVars(Publish)
  /\ WF_engineVars(Stop)
  /\ WF_engineVars(Clock)

EngineSpec == EngineSafeSpec /\ EngineFairness

-----------------------------------------------------------------------------
EngineTypeOK ==
  /\ PairingTypeOK
  /\ phase \in {"idle", "listen", "setup", "session", "hold", "stopped"}
  /\ cancelled \in BOOLEAN
  /\ acceptFailures \in 0..FailureCap
  /\ holdUntil \in Nat
  /\ framePose \in BOOLEAN /\ helloCaps \in BOOLEAN /\ serverCaps \in BOOLEAN
  /\ acceptErrors \in 0..(MaxAcceptErrors - 1)
  /\ step \in Handshake \cup {"none", "bind"}
  /\ client \in Clients \cup {NoClient} /\ proved \in Clients \cup {NoClient}
  /\ {shown, acceptedPin, sessionPin} \subseteq Pins \cup {NoPin}

(* "a handshake in progress keeps the PIN it started with"                 *)
(* (listen_and_accept): the PIN a client was given to type is the one its  *)
(* answer is compared with, whatever expires while it answers.             *)
PinStableInHandshake == step \in Handshake => pin = acceptedPin

(* A session's peer proved the PIN in the handshake that made the session: *)
(* an earlier success on the same server, its own or another client's,     *)
(* never counts (verify: "Every call checks the PIN").                     *)
SessionPeerProved == phase \in {"setup", "session"} => proved = client

(* The frames of a session have a pose prefix exactly when the session's   *)
(* client was told so in STREAM_CONFIG, whatever the clients before it     *)
(* advertised in handshakes they did not finish (client_reads_frame_pose). *)
FramesAsTold == phase \in {"setup", "session"} => framePose = helloCaps

(* "a Wi-Fi blip doesn't need a new PIN" (hold): until the hold is over    *)
(* the PIN the lost session was paired with is the one that is accepted,   *)
(* unless wrong guesses have locked pairing, and then for the whole hold.  *)
HoldKeepsPin ==
  phase = "hold" /\ now < holdUntil /\ ~IsLocked => pin = sessionPin

(* A session rests on its own handshake and on nothing of an earlier one.  *)
SessionOfItsHandshake == SessionPeerProved /\ FramesAsTold

(* A PIN that somebody relies on is not replaced under them.               *)
PinKept == PinStableInHandshake /\ HoldKeepsPin

(* "The engine never stops on its own" (MAX_ACCEPT_FAILURES): however      *)
(* often listening or the setup fails.                                     *)
NeverGivesUp == phase = "stopped" => cancelled

(* No client, silent or gone at whatever step, keeps the engine from the   *)
(* next one for good: it gets back to accepting (or streams, or was shut   *)
(* down) again and again, unless listening itself keeps failing.           *)
KeepsAccepting ==
  \/ []<>(phase \in {"session", "stopped"} \/ (Listening /\ step = "none"))
  \/ []<><<ListenFails \/ SetupFails>>_engineVars

(* Once shut down, the engine stops, whatever it is doing.                 *)
ShutdownStops == cancelled ~> phase = "stopped"

(* No wait of the loop is for good: neither for a client nor in a shutdown *)
(* (StreamingLoop::run and the selects on its cancellation token).         *)
KeepsServing == KeepsAccepting /\ ShutdownStops
=============================================================================
