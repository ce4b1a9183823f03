--------------------------- MODULE ControlSession ---------------------------
(***************************************************************************)
(* What runs while an HMD is connected (engine.rs, tracking/receiver.rs):  *)
(* the streaming loop of run_session(), the "tcp-control" task that serves *)
(* the HMD's control connection, the tracking receiver that stores the     *)
(* HMD's poses and controllers, and SteamVR's thread that queues haptics.  *)
(*                                                                         *)
(* One action is what a task does between two awaits, or while it holds a  *)
(* lock.  The HMD is a peer that sends any message at any time, reads or   *)
(* does not, hangs up, or vanishes without a word; bytes under way are     *)
(* read in pieces of any size.  What a message only passes on (face data,  *)
(* views, keyframe requests, recording) is one "other" message here; how   *)
(* the connection was paired, and the hold after it, is EngineLoop's.      *)
(***************************************************************************)
EXTENDS Integers, Sequences

CONSTANTS
  Hosts,        \* the machines on the LAN
  NoHost,       \* none of them
  Settings,     \* bitrate settings that MIN_BITRATE_MBPS..=MAX_BITRATE_MBPS allows
  Configured,   \* [video] bitrate_mbps
  MaxMisses,    \* HEARTBEAT_MAX_MISSES
  EventRoom,    \* CONTROL_EVENT_CAPACITY
  NoticeRoom,   \* the capacity of the haptic and of the sleep channel, together
  WireRoom,     \* bound: messages from the HMD not yet read
  BufferRoom,   \* messages that fit into the socket towards the HMD
  MaxSessions,  \* bound: sessions
  MaxOffered    \* bound: messages, packets and notices from outside in a session

ASSUME ControlAssumption ==
  /\ NoHost \notin Hosts
  /\ Configured \in Settings
  /\ {MaxMisses, EventRoom, NoticeRoom, WireRoom, BufferRoom} \subseteq Nat \ {0}
  /\ {MaxSessions, MaxOffered} \subseteq Nat

VARIABLES
  loop,       \* where StreamingLoop is
  session,    \* sessions begun
  host,       \* the machine this session, or the last one, is with
  outcome,    \* SessionEnd of the last session
  peer,       \* authorized_peer
  inputs,     \* HmdInputs: whose they are
  receiver,   \* the source of the packet that TrackingReceiver stores under the read lock
  hmd,        \* the HMD's end of the connection: "up", "closed" or, without a FIN, "gone"
  wire,       \* its messages that were not read
  offered,    \* what came from outside in this session
  buffer,     \* messages in the socket towards the HMD
  control,    \* where the control task is
  inbox,      \* the messages in its inbox
  quiet,      \* heartbeat intervals since the last read
  recent,     \* last_config_update is less than a second ago
  cancelled,  \* session_cancel
  reason,     \* what is in the reason channel
  why,        \* history: what handle_tcp_control() returned
  events,     \* the control-event channel
  setting,    \* AdaptiveState: the setting in force
  acked,      \* history: the last setting acknowledged in this session
  dropped,    \* history: a setting was acknowledged and dropped
  route,      \* HAPTIC_TX: the session it leads to, or 0
  notices     \* haptic events and sleep transitions in the session's two channels

loopVars == <<loop, session, host, outcome>>
inputVars == <<peer, inputs, receiver>>
linkVars == <<hmd, wire, buffer>>
taskVars == <<control, inbox, quiet, recent>>
endVars == <<cancelled, reason, why>>
settingVars == <<events, setting, acked, dropped>>
noticeVars == <<route, notices>>
controlVars ==
  <<loopVars, inputVars, linkVars, taskVars, endVars, settingVars, noticeVars, offered>>

None == "none"

Offer == offered < MaxOffered /\ offered' = offered + 1

\* A bitrate setting in range; or any other message: a heartbeat or transport feedback, another
\* CONFIG_UPDATE, DISCONNECT, a length over MAX_MSG_LEN, and those that are only passed on.
Message(type, value) == [type |-> type, value |-> value]
Messages ==
  {Message(t, Configured) : t \in {"stats", "config", "goodbye", "oversized", "other"}}
    \cup {Message("setting", v) : v \in Settings}

\* Where the control task goes on after a send.
Sending(next) == [at |-> "sending", next |-> next]
At(place) == [at |-> place, next |-> place]

-----------------------------------------------------------------------------
(* The streaming loop: run_session().                                      *)

\* The peer is authorised, which waits for a reader of the lock, and the control task is spawned.
BeginSession ==
  /\ loop = "accepting"
  /\ session < MaxSessions
  /\ control = At("closed")
  /\ receiver = NoHost
  /\ session' = session + 1
  /\ loop' = "setup"
  /\ host' \in Hosts
  /\ peer' = host'
  /\ route' = session'
  /\ offered' = 0
  /\ hmd' = "up"
  /\ control' = At("select")
  /\ cancelled' = FALSE
  /\ reason' = None
  /\ why' = None
  /\ outcome' = None
  /\ acked' = Configured
  /\ dropped' = FALSE
  /\ UNCHANGED <<inputs, receiver, wire, buffer, inbox, quiet, recent, events, setting, notices>>

\* run_session() returns: its locals go, the event channel and AdaptiveState before the guards.
Returns(end) ==
  /\ loop' = "dropping route"
  /\ outcome' = end
  /\ events' = <<>>
  /\ setting' = Configured
  /\ UNCHANGED <<session, host, acked, dropped>>

\* UdpSender::new() ends, or fails.
SetupEnds ==
  /\ loop = "setup"
  /\ \/ loop' = "streaming" /\ UNCHANGED <<session, host, outcome, settingVars>>
     \/ Returns("SetupFailed")
  /\ UNCHANGED <<inputVars, linkVars, taskVars, endVars, noticeVars, offered>>

HandleEvent ==
  /\ loop = "streaming"
  /\ events # <<>>
  /\ events' = Tail(events)
  /\ setting' = IF Head(events).type = "setting" THEN Head(events).value ELSE setting
  /\ UNCHANGED <<loopVars, inputVars, linkVars, taskVars, endVars, acked, dropped, noticeVars, offered>>

\* try_send() to the control task: what does not fit, or comes when it ended, is dropped.
Queue ==
  /\ Offer
  /\ control.at # "closed"
  /\ notices < NoticeRoom
  /\ notices' = notices + 1

\* A frame after which check_sleep_mode() finds that the headset fell asleep or woke up.
StreamFrame ==
  /\ loop = "streaming"
  /\ inputs # NoHost
  /\ Queue
  /\ UNCHANGED <<loopVars, inputVars, linkVars, taskVars, endVars, settingVars, route>>

\* Shutdown, which drops run_session() at whatever it waits for, or the frame source is gone.
StopStreaming ==
  /\ loop \in {"setup", "streaming", "reason"}
  /\ Returns("Shutdown")
  /\ UNCHANGED <<inputVars, linkVars, taskVars, endVars, noticeVars, offered>>

SeeCancelled ==
  /\ loop = "streaming"
  /\ cancelled
  /\ loop' = "reason"
  /\ UNCHANGED <<session, host, outcome, inputVars, linkVars, taskVars, endVars, settingVars, noticeVars, offered>>

\* Mutant of TakeReason: takes what is there.
TakeReasonAtOnce ==
  /\ loop = "reason"
  /\ Returns(IF reason = None THEN "ConnectionLost" ELSE reason)
  /\ UNCHANGED <<inputVars, linkVars, taskVars, endVars, noticeVars, offered>>

\* The wait for the reason; a second is enough for the task to send it.
TakeReason ==
  /\ loop = "reason"
  /\ reason # None
  /\ Returns(reason)
  /\ UNCHANGED <<inputVars, linkVars, taskVars, endVars, noticeVars, offered>>

DropHapticRoute ==
  /\ loop = "dropping route"
  /\ loop' = "cancelling"
  /\ route' = IF route = session THEN 0 ELSE route
  /\ UNCHANGED <<session, host, outcome, inputVars, linkVars, taskVars, endVars, settingVars, notices, offered>>

CancelSession ==
  /\ loop = "cancelling"
  /\ loop' = "revoking"
  /\ cancelled' = TRUE
  /\ UNCHANGED <<session, host, outcome, inputVars, linkVars, taskVars, reason, why, settingVars, noticeVars, offered>>

\* Mutant of RevokePeer: does not wait for a packet that is being stored.
RevokeAtOnce ==
  /\ loop = "revoking"
  /\ loop' = "clearing"
  /\ peer' = NoHost
  /\ UNCHANGED <<session, host, outcome, inputs, receiver, linkVars, taskVars, endVars,
                 settingVars, noticeVars, offered>>

\* AuthorizedPeerGuard: the write lock is had when the receiver has let go of the read lock.
RevokePeer ==
  /\ loop = "revoking"
  /\ receiver = NoHost
  /\ loop' = "clearing"
  /\ peer' = NoHost
  /\ UNCHANGED <<session, host, outcome, inputs, receiver, linkVars, taskVars, endVars,
                 settingVars, noticeVars, offered>>

ClearInputs ==
  /\ loop = "clearing"
  /\ loop' = IF outcome = "Shutdown" THEN "stopped" ELSE "accepting"
  /\ inputs' = NoHost
  /\ UNCHANGED <<session, host, outcome, peer, receiver, linkVars, taskVars, endVars, settingVars, noticeVars, offered>>

-----------------------------------------------------------------------------
(* The tracking receiver, and SteamVR's haptics.                           *)

\* Mutant of IsPairedHmd: any machine while a session is up.
AnyHmd(source) == peer # NoHost

IsPairedHmd(source) == source = peer

\* A packet of any machine: the check and the store are under one read lock.
AdmitPacket ==
  /\ Offer
  /\ receiver = NoHost
  /\ \E source \in Hosts : IsPairedHmd(source) /\ receiver' = source
  /\ UNCHANGED <<loopVars, peer, inputs, linkVars, taskVars, endVars, settingVars, noticeVars>>

StorePacket ==
  /\ receiver # NoHost
  /\ inputs' = receiver
  /\ receiver' = NoHost
  /\ UNCHANGED <<loopVars, peer, linkVars, taskVars, endVars, settingVars, noticeVars, offered>>

\* queue_haptic().
QueueHaptic ==
  /\ route # 0
  /\ Queue
  /\ UNCHANGED <<loopVars, inputVars, linkVars, taskVars, endVars, settingVars, route>>

-----------------------------------------------------------------------------
(* The control task: spawn_control_task() and handle_tcp_control().        *)

\* Mutant of Ends: returns without a word to the loop.
EndsUnseen(why_) ==
  /\ control' = At("reporting")
  /\ why' = why_
  /\ UNCHANGED cancelled

\* handle_tcp_control() cancels the session and returns why; the reason follows in the same poll.
Ends(why_) ==
  /\ control' = At("reporting")
  /\ cancelled' = TRUE
  /\ why' = why_

\* The task ends: the connection is closed and its end of the channels is gone.
TaskEnds ==
  /\ control' = At("closed")
  /\ hmd' = "closed" /\ wire' = <<>> /\ buffer' = 0
  /\ inbox' = <<>> /\ quiet' = 0 /\ recent' = FALSE
  /\ notices' = 0
  /\ UNCHANGED route

\* A read takes one or more of the messages under way.
Read ==
  /\ control = At("select")
  /\ \E n \in 1 .. Len(wire) :
       /\ inbox' = inbox \o SubSeq(wire, 1, n)
       /\ wire' = SubSeq(wire, n + 1, Len(wire))
  /\ control' = At("inbox")
  /\ quiet' = 0
  /\ UNCHANGED <<loopVars, inputVars, hmd, buffer, recent, endVars, settingVars, noticeVars, offered>>

\* Also with messages left unread, as after a reset.
LinkLost ==
  /\ control = At("select")
  /\ hmd = "closed"
  /\ Ends("ConnectionLost")
  /\ UNCHANGED <<loopVars, inputVars, linkVars, inbox, quiet, recent, reason, settingVars, noticeVars, offered>>

SilenceFires ==
  /\ control = At("select")
  /\ quiet = MaxMisses
  /\ Ends("ConnectionLost")
  /\ UNCHANGED <<loopVars, inputVars, linkVars, inbox, quiet, recent, reason, settingVars, noticeVars, offered>>

\* forward(): what does not fit is dropped, and what comes when the loop has closed the channel.
Forward(event) ==
  events' = IF Len(events) < EventRoom /\ loop \in {"setup", "streaming", "reason"}
            THEN Append(events, event) ELSE events

\* The next message of the inbox, if it is of one of these types.
Handles(types) ==
  /\ control = At("inbox")
  /\ inbox # <<>>
  /\ Head(inbox).type \in types
  /\ inbox' = Tail(inbox)

InboxEmpty ==
  /\ control = At("inbox")
  /\ inbox = <<>>
  /\ control' = At("select")
  /\ UNCHANGED <<loopVars, inputVars, linkVars, inbox, quiet, recent, endVars, settingVars, noticeVars, offered>>

\* HEARTBEAT, answered, or TRANSPORT_FEEDBACK, which is not.
HandleStats ==
  /\ Handles({"stats"})
  /\ Forward(Head(inbox))
  /\ control' \in {Sending("inbox"), At("inbox")}
  /\ UNCHANGED <<loopVars, inputVars, linkVars, quiet, recent, endVars, setting, acked, dropped, noticeVars, offered>>

\* Mutant of UpdateSetting: a setting over the rate limit goes unanswered, but is passed on.
UpdateSettingUnlimited(value) ==
  /\ Forward(Message("setting", value))
  /\ control' = IF recent THEN At("inbox") ELSE Sending("inbox")
  /\ recent' = TRUE
  /\ acked' = IF recent THEN acked ELSE value
  /\ dropped' = (dropped \/ (~recent /\ events' = events))

\* CONFIG_UPDATE of the bitrate: one per second is accepted, the others go unanswered.
UpdateSetting(value) ==
  IF recent
  THEN /\ control' = At("inbox")
       /\ UNCHANGED <<recent, events, acked, dropped>>
  ELSE /\ control' = Sending("inbox")
       /\ recent' = TRUE
       /\ Forward(Message("setting", value))
       /\ acked' = value
       /\ dropped' = (dropped \/ events' = events)

HandleSetting ==
  /\ Handles({"setting"})
  /\ UpdateSetting(Head(inbox).value)
  /\ UNCHANGED <<loopVars, inputVars, linkVars, quiet, endVars, setting, noticeVars, offered>>

\* CONFIG_UPDATE that moves no bitrate: recording, or a refused codec, key or value.
HandleConfig ==
  /\ Handles({"config"})
  /\ control' = IF recent THEN At("inbox") ELSE Sending("inbox")
  /\ recent' = TRUE
  /\ UNCHANGED <<loopVars, inputVars, linkVars, quiet, endVars, settingVars, noticeVars, offered>>

\* IDR_REQUEST, FACE_DATA, VIEW_CONFIG, unknown types and payloads that are too short.
HandleOther ==
  /\ Handles({"other"})
  /\ UNCHANGED <<loopVars, inputVars, linkVars, control, quiet, recent, endVars, settingVars, noticeVars, offered>>

HandleGoodbye ==
  /\ Handles({"goodbye"})
  /\ Ends("ClientRequested")
  /\ UNCHANGED <<loopVars, inputVars, linkVars, quiet, recent, reason, settingVars, noticeVars, offered>>

HandleOversized ==
  /\ Handles({"oversized"})
  /\ Ends("ProtocolError")
  /\ UNCHANGED <<loopVars, inputVars, linkVars, quiet, recent, reason, settingVars, noticeVars, offered>>

\* HAPTIC_EVENT, SLEEP_ENTER or SLEEP_EXIT.
SendNotice ==
  /\ control = At("select")
  /\ notices > 0
  /\ notices' = notices - 1
  /\ control' = Sending("select")
  /\ UNCHANGED <<loopVars, inputVars, linkVars, inbox, quiet, recent, endVars, settingVars, route, offered>>

\* send_msg(): waits for room in the socket; an error is only logged.
SendEnds ==
  /\ control.at = "sending"
  /\ \/ hmd # "closed" /\ buffer < BufferRoom /\ buffer' = buffer + 1
     \/ hmd # "up" /\ UNCHANGED buffer
  /\ control' = At(control.next)
  /\ UNCHANGED <<loopVars, inputVars, hmd, wire, inbox, quiet, recent, endVars, settingVars, noticeVars, offered>>

ReportReason ==
  /\ control = At("reporting")
  /\ reason' = why
  /\ TaskEnds
  /\ UNCHANGED <<loopVars, inputVars, cancelled, why, settingVars, offered>>

\* Mutant of ControlCancelled: looks at the token only where it reads.
CancelledInSelect ==
  /\ cancelled
  /\ control = At("select")
  /\ TaskEnds
  /\ UNCHANGED <<loopVars, inputVars, endVars, settingVars, offered>>

\* The loop left first: the connection is dropped at the task's next await.
ControlCancelled ==
  /\ cancelled
  /\ control.at \in {"select", "sending"}
  /\ TaskEnds
  /\ UNCHANGED <<loopVars, inputVars, endVars, settingVars, offered>>

-----------------------------------------------------------------------------
(* The HMD, and time.                                                      *)

HmdSends ==
  /\ hmd = "up"
  /\ control.at # "closed"
  /\ Len(wire) < WireRoom
  /\ Offer
  /\ \E m \in Messages : wire' = Append(wire, m)
  /\ UNCHANGED <<loopVars, inputVars, hmd, buffer, taskVars, endVars, settingVars, noticeVars>>

HmdReads ==
  /\ hmd = "up"
  /\ buffer > 0
  /\ buffer' = buffer - 1
  /\ UNCHANGED <<loopVars, inputVars, hmd, wire, taskVars, endVars, settingVars, noticeVars, offered>>

HmdLeaves ==
  /\ hmd = "up"
  /\ control.at # "closed"
  /\ hmd' \in {"closed", "gone"}
  /\ UNCHANGED <<loopVars, inputVars, wire, buffer, taskVars, endVars, settingVars, noticeVars, offered>>

\* A heartbeat interval without a read, and a second since the last CONFIG_UPDATE.
IntervalPasses ==
  /\ control.at # "closed"
  /\ quiet < MaxMisses
  /\ quiet' = quiet + 1
  /\ UNCHANGED <<loopVars, inputVars, linkVars, control, inbox, recent, endVars, settingVars, noticeVars, offered>>

ConfigWindowEnds ==
  /\ recent
  /\ recent' = FALSE
  /\ UNCHANGED <<loopVars, inputVars, linkVars, control, inbox, quiet, endVars, settingVars, noticeVars, offered>>

-----------------------------------------------------------------------------
ControlInit ==
  /\ loop = "accepting"
  /\ session = 0
  /\ host = NoHost
  /\ outcome = None
  /\ peer = NoHost /\ inputs = NoHost /\ receiver = NoHost
  /\ hmd = "closed" /\ wire = <<>> /\ buffer = 0
  /\ control = At("closed") /\ inbox = <<>> /\ quiet = 0 /\ recent = FALSE
  /\ cancelled = FALSE /\ reason = None /\ why = None
  /\ events = <<>> /\ setting = Configured /\ acked = Configured /\ dropped = FALSE
  /\ route = 0 /\ notices = 0
  /\ offered = 0

LoopNext ==
  \/ BeginSession \/ SetupEnds
  \/ HandleEvent \/ StreamFrame \/ StopStreaming \/ SeeCancelled \/ TakeReason
  \/ DropHapticRoute \/ CancelSession \/ RevokePeer \/ ClearInputs

TaskNext ==
  \/ Read \/ LinkLost \/ SilenceFires \/ InboxEmpty
  \/ HandleStats \/ HandleSetting \/ HandleConfig \/ HandleOther \/ HandleGoodbye \/ HandleOversized
  \/ SendNotice \/ SendEnds \/ ReportReason \/ ControlCancelled

ControlNext ==
  \/ LoopNext \/ TaskNext
  \/ AdmitPacket \/ StorePacket \/ QueueHaptic
  \/ HmdSends \/ HmdReads \/ HmdLeaves \/ IntervalPasses \/ ConfigWindowEnds

ControlSafeSpec == ControlInit /\ [][ControlNext]_controlVars

\* tokio runs a task that can go on, and select! polls its branches in random order, so that none that
\* stays ready is passed over for ever.  Of a connection whose HMD is gone, TCP gives up sends in the
\* end.  Nothing is assumed of the HMD, and nothing of a send that it does not read.
ControlFairness ==
  /\ WF_controlVars(SetupEnds) /\ WF_controlVars(SeeCancelled) /\ WF_controlVars(TakeReason)
  /\ WF_controlVars(DropHapticRoute) /\ WF_controlVars(CancelSession)
  /\ WF_controlVars(RevokePeer) /\ WF_controlVars(ClearInputs)
  /\ WF_controlVars(Read) /\ WF_controlVars(InboxEmpty)
  /\ SF_controlVars(LinkLost) /\ SF_controlVars(SilenceFires)
  /\ WF_controlVars(HandleStats \/ HandleSetting \/ HandleConfig \/ HandleOther \/ HandleGoodbye \/ HandleOversized)
  /\ WF_controlVars(SendEnds) /\ WF_controlVars(ReportReason) /\ SF_controlVars(ControlCancelled)
  /\ WF_controlVars(StorePacket) /\ WF_controlVars(IntervalPasses)

ControlSpec == ControlSafeSpec /\ ControlFairness

-----------------------------------------------------------------------------
(* Properties.                                                             *)
Loops == {"accepting", "setup", "streaming", "reason", "dropping route", "cancelling", "revoking",
          "clearing", "stopped"}
Reasons == {"ConnectionLost", "ClientRequested", "ProtocolError"}
Places == {At(p) : p \in {"select", "inbox", "reporting", "closed"}} \cup {Sending("select"), Sending("inbox")}

LoopTypeOK ==
  /\ loop \in Loops
  /\ session \in 0 .. MaxSessions
  /\ outcome \in Reasons \cup {None, "SetupFailed", "Shutdown"}
  /\ {host, peer, inputs, receiver} \subseteq Hosts \cup {NoHost}
  /\ route \in 0 .. MaxSessions

QueueTypeOK ==
  /\ hmd \in {"up", "closed", "gone"}
  /\ wire \in Seq(Messages) /\ inbox \in Seq(Messages) /\ events \in Seq(Messages)
  /\ Len(events) <= EventRoom
  /\ offered \in 0 .. MaxOffered
  /\ buffer \in 0 .. BufferRoom
  /\ notices \in 0 .. NoticeRoom

TaskTypeOK ==
  /\ control \in Places
  /\ quiet \in 0 .. MaxMisses
  /\ {recent, cancelled, dropped} \subseteq BOOLEAN
  /\ {reason, why} \subseteq Reasons \cup {None}
  /\ {setting, acked} \subseteq Settings

ControlTypeOK == LoopTypeOK /\ QueueTypeOK /\ TaskTypeOK

\* What SteamVR gets as the HMD's inputs is of the machine that this session was paired with, and
\* between two sessions there is none of it, no machine may send any, and no haptics are routed: "every
\* way a session can end closes the tracking port to that address again, and SteamVR isn't left with
\* the last pose or a trigger still held".
InputsOfSession ==
  /\ inputs \in {NoHost, host}
  /\ loop \in {"accepting", "stopped"} => peer = NoHost /\ inputs = NoHost /\ route = 0

\* A session that the control task ended ends for the reason it saw: a goodbye is not taken for a lost
\* connection, for which the engine would hold the session, nor a lost connection for a goodbye.
EndsForItsReason ==
  outcome \in Reasons => outcome = why

\* While no setting was lost to a full channel, the setting in force is the one the HMD was told is
\* accepted, as soon as the loop has handled its events.
SettingFollowsAcks ==
  loop = "streaming" /\ ~dropped /\ (\A i \in DOMAIN events : events[i].type # "setting") =>
    setting = acked

\* A session with an HMD that vanished or hung up ends, however much is queued for it.
DeadLinkEndsSession ==
  loop \in {"setup", "streaming"} /\ hmd # "up" ~> loop \in {"accepting", "stopped"}

\* "The control task and the audio pipeline never outlive the session": its connection is closed, also
\* when it is blocked in a send to an HMD that does not read.
ControlEndsWithSession ==
  loop \in {"accepting", "stopped"} ~> control.at = "closed" \/ loop = "setup"

\* Whatever the HMD does, a dead link ends its session, and the session its control task and connection
\* (run_session(), handle_tcp_control()).
SessionsEnd == DeadLinkEndsSession /\ ControlEndsWithSession

=============================================================================
