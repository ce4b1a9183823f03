----------------------------- MODULE StatusView -----------------------------
(* status.json between the engine and the companion app: the engine writes   *)
(* what it is doing and the PIN it waits for once a second (engine.rs,       *)
(* lib.rs), the companion reads it once a second (main.rs, status_parser.rs),*)
(* judges from the file's age whether the engine lives, counts the PIN's     *)
(* seconds down on its own. The engine can crash and start again at any      *)
(* time, leaving the file; the companion may find the file locked. A step of *)
(* the clock is a second.                                                    *)
EXTENDS Integers

CONSTANTS
  PinLife,     \* PIN_LIFETIME_SECONDS
  HoldSeconds, \* hold_duration
  BackoffMax,  \* the longest reconnect backoff
  StaleAfter,  \* ENGINE_STALE_THRESHOLD
  MaxUnread,   \* bound: reads in a row that find the file locked
  MaxPins      \* bound: PINs minted

(* The bound on the age of a countdown is the life of a PIN.                 *)
ASSUME StatusAssumption ==
  /\ {PinLife, HoldSeconds, BackoffMax, StaleAfter, MaxUnread, MaxPins} \subseteq Nat
  /\ StaleAfter > 0 /\ HoldSeconds <= PinLife

VARIABLES
  host,       \* the engine: "down", "backoff", "listening", "handshake", "serving", "hold"
  hostPin,    \* of its TcpControlServer
  pinLeft,    \* seconds until that PIN expires
  hostLeft,   \* seconds left of a backoff or a hold
  lastShown,  \* `last` of publish_pin_status()
  locked,     \* the last beat found the pairing lock held by a handshake (bound: not twice running)
  steady,     \* history: seconds since the PIN, or the time it has left, was set
  statusFile, \* [says, pin, left], what it says being "nothing", "waiting" or "streaming"
  fileAge,
  beaten,     \* the engine published in this second
  polled,     \* the companion read in this second
  unread,     \* reads in a row that failed
  view,       \* the companion's: [link, pin, left, since], the link "disconnected", "waiting"
              \* or "connected", the countdown's baseline and its age
  waitedAgo,  \* history: of each PIN, the seconds since the engine waited for it
  servedAgo   \* history: the seconds since a session ran

statusVars == <<host, hostPin, pinLeft, hostLeft, lastShown, locked, steady, statusFile, fileAge, beaten,
                polled, unread, view, waitedAgo, servedAgo>>

ago == <<waitedAgo, servedAgo>>

hostVars == <<host, hostPin, pinLeft, hostLeft, lastShown, locked, steady>>
viewVars == <<polled, unread, view>>

-----------------------------------------------------------------------------
Dashes == 0  \* "------" and "----": no PIN

NotGiven == -1  \* no pin_expires_in_seconds

NothingShown == [pin |-> Dashes, left |-> NotGiven]

Less(n) == IF n = 0 THEN 0 ELSE n - 1

Waits == host \in {"listening", "handshake", "hold"}

(* A PIN, or the time it has left, is set: history.                          *)
WaitsFor(pin) == waitedAgo' = [waitedAgo EXCEPT ![pin] = 0] /\ steady' = 0 /\ UNCHANGED servedAgo

(* write_status_file(): atomically, so that no read sees half of it.         *)
WriteStatus(says, shown) ==
  /\ statusFile' = [says |-> says, pin |-> shown.pin, left |-> shown.left]
  /\ fileAge' = 0 /\ beaten' = TRUE

(* publish_pin_status(): `last`, when a handshake holds the pairing lock.    *)
PublishPin(pin, left, last) ==
  \/ LET shown == [pin |-> pin, left |-> left] IN
       lastShown' = shown /\ locked' = FALSE /\ WriteStatus("waiting", shown)
  \/ ~locked /\ lastShown' = last /\ locked' = TRUE /\ WriteStatus("waiting", last)

-----------------------------------------------------------------------------
(* accept() of the engine's loop: a new server with a new PIN, published by  *)
(* the first beat.                                                           *)
Listens ==
  /\ hostPin < MaxPins
  /\ host' = "listening" /\ hostPin' = hostPin + 1 /\ pinLeft' = PinLife /\ hostLeft' = 0
  /\ WaitsFor(hostPin + 1)
  /\ PublishPin(hostPin + 1, PinLife, NothingShown)

HostStarts == host = "down" /\ Listens /\ UNCHANGED viewVars

BackoffEnds == host = "backoff" /\ hostLeft = 0 /\ Listens /\ UNCHANGED viewVars

(* with_heartbeat(), and the status tick of a session.                       *)
Beats ==
  /\ host # "down" /\ ~beaten
  /\ CASE Waits -> PublishPin(hostPin, pinLeft, lastShown)
       [] host = "backoff" -> WriteStatus("waiting", NothingShown) /\ UNCHANGED <<lastShown, locked>>
       [] OTHER -> WriteStatus("streaming", NothingShown) /\ UNCHANGED <<lastShown, locked>>
  /\ UNCHANGED <<host, hostPin, pinLeft, hostLeft, steady, viewVars, ago>>

(* listen_and_accept(): the PIN rotates when it expires with nobody there;   *)
(* verify(): when a handshake, in the hold or not, ends in a lockout. It has *)
(* the lifetime of the PIN before it.                                        *)
PinRotates ==
  /\ host \in {"handshake", "hold"} \/ (host = "listening" /\ pinLeft = 0)
  /\ hostPin < MaxPins
  /\ hostPin' = hostPin + 1 /\ pinLeft' = IF host = "hold" THEN HoldSeconds ELSE PinLife
  /\ WaitsFor(hostPin + 1)
  /\ UNCHANGED <<host, hostLeft, lastShown, locked, statusFile, fileAge, beaten, viewVars>>

HandshakeBegins ==
  /\ host = "listening" /\ host' = "handshake"
  /\ UNCHANGED <<hostPin, pinLeft, hostLeft, lastShown, locked, steady,
                 statusFile, fileAge, beaten, viewVars, ago>>

HandshakeGivenUp ==
  /\ host = "handshake" /\ host' = "listening"
  /\ UNCHANGED <<hostPin, pinLeft, hostLeft, lastShown, locked, steady,
                 statusFile, fileAge, beaten, viewVars, ago>>

(* The listener fails, in the first wait or in the hold: reconnect backoff.  *)
ListenerFails ==
  /\ host \in {"listening", "hold"}
  /\ host' = "backoff" /\ hostLeft' \in 1..BackoffMax
  /\ WriteStatus("waiting", NothingShown)
  /\ UNCHANGED <<hostPin, pinLeft, lastShown, locked, steady, viewVars, ago>>

(* run_session() publishes before its first tick.                            *)
StreamBegins ==
  /\ host \in {"handshake", "hold"}
  /\ host' = "serving" /\ hostLeft' = 0 /\ servedAgo' = 0
  /\ WriteStatus("streaming", NothingShown)
  /\ UNCHANGED <<hostPin, pinLeft, lastShown, locked, steady, waitedAgo, viewVars>>

(* hold(): the server's PIN is valid again for the window.                   *)
StreamLost ==
  /\ host = "serving"
  /\ host' = "hold" /\ pinLeft' = HoldSeconds /\ hostLeft' = HoldSeconds
  /\ WaitsFor(hostPin)
  /\ PublishPin(hostPin, HoldSeconds, NothingShown)
  /\ UNCHANGED <<hostPin, viewVars>>

(* Also after a clean disconnect, with no hold.                              *)
HoldEnds ==
  /\ \/ host = "hold" /\ hostLeft = 0
     \/ host = "serving"
  /\ Listens
  /\ UNCHANGED viewVars

(* A crash, or fvp_shutdown(): the file stays as it is.                      *)
HostStops ==
  /\ host # "down" /\ host' = "down"
  /\ UNCHANGED <<hostPin, pinLeft, hostLeft, lastShown, locked, steady,
                 statusFile, fileAge, beaten, viewVars, ago>>

-----------------------------------------------------------------------------
(* parse_status_json(): a "waiting" with no PIN reads as disconnected.       *)
LinkOf(file) ==
  CASE file.says = "streaming" -> "connected"
    [] file.says = "waiting" /\ file.pin # Dashes -> "waiting"
    [] OTHER -> "disconnected"

Near(m, n) == m - n \in -1..1

(* apply_parsed_status(): the countdown keeps running when the engine says   *)
(* the same again; the PIN and the statistics are left alone when it says    *)
(* that nobody is waited for.                                                *)
Applied(file) ==
  LET link == LinkOf(file)
      changed == link = "waiting" /\ file.pin # view.pin
      running == file.left # NotGiven /\ view.left # NotGiven /\ ~changed /\ Near(file.left, view.left)
  IN  [link |-> link,
       pin |-> IF link = "disconnected" THEN view.pin ELSE file.pin,
       left |-> IF running THEN view.left ELSE file.left,
       since |-> IF running THEN view.since ELSE 0]

(* apply_stale_status().                                                     *)
Stale == [link |-> "disconnected", pin |-> Dashes, left |-> NotGiven, since |-> 0]

(* Mutant: contents are taken whatever their age.                            *)
PollsAnyAge ==
  /\ ~polled /\ polled' = TRUE /\ unread' = 0
  /\ view' = Applied(statusFile)
  /\ UNCHANGED <<hostVars, statusFile, fileAge, beaten, ago>>

(* read_engine_status(), once a second: the age first, then the contents.    *)
ReadEngineStatus ==
  /\ ~polled /\ polled' = TRUE
  /\ \/ /\ unread' = 0
        /\ view' = IF fileAge < StaleAfter THEN Applied(statusFile) ELSE Stale
     \/ /\ fileAge < StaleAfter /\ unread < MaxUnread
        /\ unread' = unread + 1 /\ UNCHANGED <<view, ago>>
  /\ UNCHANGED <<hostVars, statusFile, fileAge, beaten, ago>>

(* The companion is started again.                                           *)
Opens ==
  /\ view # Stale /\ view' = Stale /\ unread' = 0
  /\ UNCHANGED <<hostVars, statusFile, fileAge, beaten, polled, ago>>

-----------------------------------------------------------------------------
Limit == StaleAfter + MaxUnread + 2

(* The seconds until the companion has noticed that a PIN was given new time:*)
(* the countdown runs on as long as what it reads is near what it started    *)
(* from, three seconds and two more that the engine's word may be old, and   *)
(* before and after that it may miss its reads.                              *)
Grace == 2 * (MaxUnread + 1) + 4

Sooner(n, limit) == IF n < limit THEN n + 1 ELSE n

SecondPasses ==
  /\ host = "down" \/ beaten
  /\ polled
  /\ ~(host = "listening" /\ pinLeft = 0) /\ ~(host \in {"backoff", "hold"} /\ hostLeft = 0)
  /\ beaten' = FALSE /\ polled' = FALSE
  /\ pinLeft' = Less(pinLeft) /\ hostLeft' = Less(hostLeft)
  /\ fileAge' = Sooner(fileAge, StaleAfter)
  /\ view' = [view EXCEPT !.since = Sooner(@, PinLife)]
  /\ waitedAgo' = [pin \in 1..MaxPins |-> IF Waits /\ pin = hostPin THEN 0 ELSE Sooner(waitedAgo[pin], Limit)]
  /\ servedAgo' = IF host = "serving" THEN 0 ELSE Sooner(servedAgo, Limit)
  /\ steady' = Sooner(steady, Grace + 1)
  /\ UNCHANGED <<host, hostPin, lastShown, locked, statusFile, unread>>

StatusInit ==
  /\ host = "down" /\ hostPin = 0 /\ pinLeft = 0 /\ hostLeft = 0 /\ lastShown = NothingShown
  /\ locked = FALSE /\ steady = 0
  /\ statusFile = [says |-> "nothing", pin |-> Dashes, left |-> NotGiven] /\ fileAge = StaleAfter
  /\ beaten = FALSE /\ polled = FALSE /\ unread = 0
  /\ view = Stale
  /\ waitedAgo = [pin \in 1..MaxPins |-> Limit] /\ servedAgo = Limit

StatusNext ==
  \/ HostStarts \/ BackoffEnds \/ Beats \/ PinRotates \/ HandshakeBegins \/ HandshakeGivenUp
  \/ ListenerFails \/ StreamBegins \/ StreamLost \/ HoldEnds \/ HostStops
  \/ ReadEngineStatus \/ Opens
  \/ SecondPasses

StatusSpec == StatusInit /\ [][StatusNext]_statusVars

-----------------------------------------------------------------------------
Countdown == IF view.left > view.since THEN view.left - view.since ELSE 0

(* Part of ViewIsRecent: the PIN the companion shows.                        *)
PinIsRecent == view.link = "waiting" => waitedAgo[view.pin] <= StaleAfter + MaxUnread + 1

(* Part of ViewIsRecent: the session the companion shows.                    *)
SessionIsRecent == view.link = "connected" => servedAgo <= StaleAfter + MaxUnread

(* Part of ViewIsRecent: the seconds the companion counts down.              *)
CountsDown ==
  view.link = "waiting" /\ Waits /\ view.pin = hostPin /\ view.left # NotGiven /\ steady > Grace
    => Countdown - pinLeft \in 0..2

(* Whatever crashes, rotates, is rearmed or cannot be read: for no more than *)
(* the staleness threshold and the reads it missed the companion shows a     *)
(* session that is over, and one second longer a PIN nobody waits for: a     *)
(* beat that finds the pairing lock held repeats what the last one said. The *)
(* seconds it counts down for a PIN the engine waits for are those the PIN   *)
(* has, or up to two more, once it has noticed that the PIN was rearmed.     *)
ViewIsRecent == PinIsRecent /\ SessionIsRecent /\ CountsDown
=============================================================================
