------------------------ MODULE ControlSessionProofs ------------------------
(***************************************************************************)
(* Proofs about the engine's session, and the packets its frames travel in.*)
(* Of ControlSession, for any machines, capacities and number of sessions: *)
(* its types, with every queue within its capacity; the HMD's inputs are   *)
(* those of the session's machine and go with it; a session ends for the   *)
(* reason its control task saw; and the setting in force is the one that   *)
(* was acknowledged last. Of FrameFec, for any shard size and limits: a    *)
(* frame that is cut into slices and shards comes back as it was.          *)
(***************************************************************************)
EXTENDS ControlSession, FrameFec, FiniteSetTheorems, SequenceTheorems, WellFoundedInduction, TLAPS

\* The receiver holds the read lock only for the peer, which is authorised from the session's
\* beginning until its guard is dropped; the haptic route goes before.
PeerInv ==
  /\ loop \in Loops
  /\ session \in Nat
  /\ peer \in {NoHost, host}
  /\ loop \in {"clearing", "accepting", "stopped"} => peer = NoHost
  /\ receiver \in {NoHost, peer}
  /\ inputs \in {NoHost, host}
  /\ loop \in {"accepting", "stopped"} => inputs = NoHost
  /\ route \in {0, session}
  /\ loop \in {"cancelling", "revoking", "clearing", "accepting", "stopped"} => route = 0

\* The task's reason is set once in a session, when it can handle nothing more.
ReasonInv ==
  /\ why \in Reasons \cup {None}
  /\ control \in Places
  /\ why # None => control \in {At("reporting"), At("closed")}
  /\ control = At("reporting") => why # None
  /\ reason \in {None, why}
  /\ reason # None => control = At("closed")
  /\ outcome \in Reasons => outcome = reason

-----------------------------------------------------------------------------
LEMMA PeerInit == ASSUME ControlAssumption, ControlInit PROVE PeerInv
  BY DEF ControlInit, PeerInv, Loops

\* One step per action that moves the loop, the peer, the inputs or the route.
LEMMA PeerStep == ASSUME ControlAssumption, PeerInv, [ControlNext]_controlVars PROVE PeerInv'
<1> USE DEF PeerInv, Loops, loopVars, inputVars, noticeVars
<1>1. CASE BeginSession
  BY <1>1 DEF BeginSession, ControlAssumption
<1>2. CASE SetupEnds
  BY <1>2 DEF SetupEnds, Returns
<1>3. CASE HandleEvent \/ StreamFrame
  BY <1>3 DEF HandleEvent, StreamFrame, Queue
<1>4. CASE StopStreaming \/ SeeCancelled \/ TakeReason
  BY <1>4 DEF StopStreaming, SeeCancelled, TakeReason, Returns
<1>5. CASE DropHapticRoute \/ CancelSession
  BY <1>5 DEF DropHapticRoute, CancelSession
<1>6. CASE RevokePeer
  BY <1>6 DEF RevokePeer
<1>7. CASE ClearInputs
  BY <1>7 DEF ClearInputs
<1>8. CASE AdmitPacket
  BY <1>8 DEF AdmitPacket, IsPairedHmd
<1>9. CASE StorePacket
  BY <1>9 DEF StorePacket
<1>10. CASE QueueHaptic
  BY <1>10 DEF QueueHaptic, Queue
<1>11. CASE TaskNext
  BY <1>11 DEF TaskNext, Read, LinkLost, SilenceFires, InboxEmpty, HandleStats, HandleSetting,
               HandleConfig, HandleOther, HandleGoodbye, HandleOversized, SendNotice, SendEnds,
               ReportReason, ControlCancelled, TaskEnds
<1>12. CASE HmdSends \/ HmdReads \/ HmdLeaves \/ IntervalPasses \/ ConfigWindowEnds
  BY <1>12 DEF HmdSends, HmdReads, HmdLeaves, IntervalPasses, ConfigWindowEnds
<1>13. CASE UNCHANGED controlVars
  BY <1>13 DEF controlVars
<1>14. QED
  BY <1>1, <1>2, <1>3, <1>4, <1>5, <1>6, <1>7, <1>8, <1>9, <1>10, <1>11, <1>12, <1>13
     DEF ControlNext, LoopNext

-----------------------------------------------------------------------------
LEMMA ReasonInit == ASSUME ControlInit PROVE ReasonInv
  BY DEF ControlInit, ReasonInv, Places, At, None, Reasons

\* The places of the task are told apart by where it is.
LEMMA PlacesDiffer ==
  /\ At("select") # At("closed") /\ At("select") # At("reporting")
  /\ At("inbox") # At("closed") /\ At("inbox") # At("reporting")
  /\ At("reporting") # At("closed")
  /\ \A n \in {"select", "inbox"} : Sending(n) # At("closed") /\ Sending(n) # At("reporting")
  /\ \A n : Sending(n).at = "sending" /\ Sending(n).next = n
  /\ \A p : At(p).at = p
<1>1. \A n : Sending(n).at = "sending" /\ Sending(n).next = n
  BY DEF Sending
<1>2. \A p : At(p).at = p
  BY DEF At
<1>3. QED
  BY <1>1, <1>2

\* A return of handle_tcp_control() comes while the task is served, so that it is the first.
LEMMA EndsOnce ==
  ASSUME ReasonInv, NEW r \in Reasons, control \in {At("select"), At("inbox")}, Ends(r),
         UNCHANGED <<reason, outcome>>
  PROVE  ReasonInv'
  BY PlacesDiffer DEF ReasonInv, Ends, Places, Reasons, None

LEMMA ReasonStep == ASSUME ReasonInv, [ControlNext]_controlVars PROVE ReasonInv'
<1> USE DEF loopVars, taskVars, endVars
<1>1. CASE BeginSession
  BY <1>1, PlacesDiffer DEF BeginSession, ReasonInv, Places, Reasons, None
<1>2. CASE SetupEnds \/ StopStreaming
  BY <1>2 DEF SetupEnds, StopStreaming, Returns, ReasonInv, Reasons
<1>3. CASE HandleEvent \/ StreamFrame \/ SeeCancelled
  BY <1>3 DEF HandleEvent, StreamFrame, SeeCancelled, ReasonInv
<1>4. CASE TakeReason
  BY <1>4 DEF TakeReason, Returns, ReasonInv, None
<1>5. CASE DropHapticRoute \/ CancelSession \/ RevokePeer \/ ClearInputs
  BY <1>5 DEF DropHapticRoute, CancelSession, RevokePeer, ClearInputs, ReasonInv
<1>6. CASE LinkLost \/ SilenceFires
  BY <1>6, EndsOnce DEF LinkLost, SilenceFires, Reasons
<1>7. CASE HandleGoodbye \/ HandleOversized
  BY <1>7, EndsOnce DEF HandleGoodbye, HandleOversized, Handles, Reasons
<1>8. CASE Read \/ InboxEmpty
  BY <1>8, PlacesDiffer DEF Read, InboxEmpty, ReasonInv, Places
<1>9. CASE HandleStats \/ HandleConfig \/ HandleOther
  BY <1>9, PlacesDiffer DEF HandleStats, HandleConfig, HandleOther, Handles, ReasonInv, Places
<1>10. CASE HandleSetting
  BY <1>10, PlacesDiffer DEF HandleSetting, UpdateSetting, Handles, ReasonInv, Places
<1>11. CASE SendNotice
  BY <1>11, PlacesDiffer DEF SendNotice, ReasonInv, Places
<1>12. CASE SendEnds
  <2>1. \E n \in {"select", "inbox"} : control = Sending(n) /\ control' = At(n)
    BY <1>12, PlacesDiffer DEF SendEnds, ReasonInv, Places
  <2>2. QED
    BY <1>12, <2>1, PlacesDiffer DEF SendEnds, ReasonInv, Places
<1>13. CASE ReportReason
  BY <1>13, PlacesDiffer DEF ReportReason, TaskEnds, ReasonInv, Places, None, Reasons
<1>14. CASE ControlCancelled
  <2>1. control # At("reporting") /\ control # At("closed")
    BY <1>14, PlacesDiffer DEF ControlCancelled
  <2>2. why = None /\ reason = None
    BY <2>1 DEF ReasonInv
  <2>3. QED
    BY <1>14, <2>2, PlacesDiffer DEF ControlCancelled, TaskEnds, ReasonInv, Places
<1>15. CASE AdmitPacket \/ StorePacket \/ QueueHaptic
  BY <1>15 DEF AdmitPacket, StorePacket, QueueHaptic, ReasonInv
<1>16. CASE HmdSends \/ HmdReads \/ HmdLeaves \/ IntervalPasses \/ ConfigWindowEnds
  BY <1>16 DEF HmdSends, HmdReads, HmdLeaves, IntervalPasses, ConfigWindowEnds, ReasonInv
<1>17. CASE UNCHANGED controlVars
  BY <1>17 DEF controlVars, ReasonInv
<1>18. QED
  BY <1>1, <1>2, <1>3, <1>4, <1>5, <1>6, <1>7, <1>8, <1>9, <1>10, <1>11, <1>12, <1>13, <1>14,
     <1>15, <1>16, <1>17
     DEF ControlNext, LoopNext, TaskNext

-----------------------------------------------------------------------------
\* Types.
LEMMA ControlTypeInit == ASSUME ControlAssumption, ControlInit PROVE ControlTypeOK
<1> USE DEF ControlInit, ControlAssumption, None
<1>1. LoopTypeOK
  BY DEF LoopTypeOK, Loops
<1>2. QueueTypeOK
  BY DEF QueueTypeOK
<1>3. control \in Places /\ quiet \in 0 .. MaxMisses /\ {setting, acked} \subseteq Settings
  BY DEF Places
<1>4. {recent, cancelled, dropped} \subseteq BOOLEAN /\ {reason, why} \subseteq Reasons \cup {None}
  BY DEF Reasons
<1>5. QED
  BY <1>1, <1>2, <1>3, <1>4 DEF ControlTypeOK, TaskTypeOK

LEMMA LoopTypes ==
  ASSUME ControlAssumption, ControlTypeOK, [ControlNext]_controlVars PROVE LoopTypeOK'
<1> USE DEF LoopTypeOK, loopVars, inputVars, noticeVars
<1>0. LoopTypeOK /\ {reason, why} \subseteq Reasons \cup {None} /\ MaxSessions \in Nat
  BY DEF ControlTypeOK, TaskTypeOK, ControlAssumption
<1>1. CASE BeginSession
  BY <1>0, <1>1 DEF BeginSession, ControlAssumption, Loops
<1>2. CASE SetupEnds \/ StopStreaming \/ SeeCancelled \/ TakeReason
  BY <1>0, <1>2 DEF SetupEnds, StopStreaming, SeeCancelled, TakeReason, Returns, Loops
<1>3. CASE HandleEvent \/ StreamFrame \/ QueueHaptic
  BY <1>0, <1>3 DEF HandleEvent, StreamFrame, QueueHaptic
<1>4. CASE DropHapticRoute
  <2>1. route' \in {0, route}
    BY <1>4 DEF DropHapticRoute
  <2>2. route' \in 0 .. MaxSessions
    BY <1>0, <2>1
  <2>3. QED
    BY <1>0, <1>4, <2>2 DEF DropHapticRoute, Loops
<1>11. CASE CancelSession
  BY <1>0, <1>11 DEF CancelSession, Loops
<1>10. CASE RevokePeer \/ ClearInputs
  BY <1>0, <1>10 DEF RevokePeer, ClearInputs, Loops
<1>5. CASE AdmitPacket \/ StorePacket
  BY <1>0, <1>5 DEF AdmitPacket, StorePacket
<1>6. CASE TaskNext
  BY <1>0, <1>6 DEF TaskNext, Read, LinkLost, SilenceFires, InboxEmpty, HandleStats, HandleSetting,
     HandleConfig, HandleOther, HandleGoodbye, HandleOversized, SendNotice, SendEnds, ReportReason,
     ControlCancelled, TaskEnds
<1>7. CASE HmdSends \/ HmdReads \/ HmdLeaves \/ IntervalPasses \/ ConfigWindowEnds
  BY <1>0, <1>7 DEF HmdSends, HmdReads, HmdLeaves, IntervalPasses, ConfigWindowEnds
<1>8. CASE UNCHANGED controlVars
  BY <1>0, <1>8 DEF controlVars
<1>9. QED
  BY <1>1, <1>2, <1>3, <1>4, <1>5, <1>6, <1>7, <1>8, <1>10, <1>11 DEF ControlNext, LoopNext

\* What a read takes of the wire and leaves on it, and what forward() leaves in the channel.
LEMMA ReadTyped ==
  ASSUME NEW w \in Seq(Messages), NEW i \in Seq(Messages), NEW n \in 1 .. Len(w)
  PROVE  i \o SubSeq(w, 1, n) \in Seq(Messages) /\ SubSeq(w, n + 1, Len(w)) \in Seq(Messages)
<1>1. SubSeq(w, 1, n) \in Seq(Messages)
  OBVIOUS
<1>2. SubSeq(w, n + 1, Len(w)) \in Seq(Messages)
  OBVIOUS
<1>3. QED
  BY <1>1, <1>2

LEMMA EventsTyped ==
  ASSUME ControlAssumption, QueueTypeOK, NEW event \in Messages, Forward(event)
  PROVE  events' \in Seq(Messages) /\ Len(events') <= EventRoom
<1>1. EventRoom \in Nat /\ Len(events) \in Nat
  BY DEF ControlAssumption, QueueTypeOK
<1>2. CASE events' = Append(events, event) /\ Len(events) < EventRoom
  BY <1>1, <1>2 DEF QueueTypeOK
<1>3. CASE events' = events
  BY <1>3 DEF QueueTypeOK
<1>4. QED
  BY <1>2, <1>3 DEF Forward

LEMMA MessageTypes == ASSUME ControlAssumption PROVE
  /\ \A v \in Settings : Message("setting", v) \in Messages
  /\ \A m \in Messages : m.value \in Settings
<1>1. \A v \in Settings : Message("setting", v) \in Messages
  BY DEF Messages
<1>2. \A t, v : Message(t, v).value = v
  BY DEF Message
<1>3. ASSUME NEW m \in Messages PROVE m.value \in Settings
  BY <1>2 DEF Messages, ControlAssumption
<1>4. QED
  BY <1>1, <1>3

LEMMA QueueTypes ==
  ASSUME ControlAssumption, ControlTypeOK, [ControlNext]_controlVars PROVE QueueTypeOK'
<1> USE DEF QueueTypeOK, linkVars, taskVars, settingVars, noticeVars
<1>0. QueueTypeOK /\ {MaxMisses, EventRoom, NoticeRoom, WireRoom, BufferRoom, MaxOffered} \subseteq Nat
  BY DEF ControlTypeOK, ControlAssumption
<1>1. CASE BeginSession
  BY <1>0, <1>1 DEF BeginSession
<1>2. CASE SetupEnds \/ StopStreaming \/ TakeReason
  <2>1. events' \in {events, <<>>} /\ UNCHANGED <<linkVars, inbox, notices, offered>>
    BY <1>2 DEF SetupEnds, StopStreaming, TakeReason, Returns
  <2>2. CASE events' = events
    BY <1>0, <2>1, <2>2
  <2>3. CASE events' = <<>>
    BY <1>0, <2>1, <2>3
  <2>4. QED
    BY <2>1, <2>2, <2>3
<1>18. CASE SeeCancelled
  BY <1>0, <1>18 DEF SeeCancelled
<1>3. CASE HandleEvent
  BY <1>0, <1>3 DEF HandleEvent
<1>4. CASE StreamFrame \/ QueueHaptic
  BY <1>0, <1>4, SMTT(60) DEF StreamFrame, QueueHaptic, Queue, Offer
<1>5. CASE DropHapticRoute \/ CancelSession \/ RevokePeer \/ ClearInputs
  BY <1>0, <1>5 DEF DropHapticRoute, CancelSession, RevokePeer, ClearInputs
<1>6. CASE AdmitPacket \/ StorePacket
  BY <1>0, <1>6, SMTT(60) DEF AdmitPacket, StorePacket, Offer
<1>7. CASE Read
  BY <1>0, <1>7, ReadTyped DEF Read
<1>8. CASE LinkLost \/ SilenceFires \/ InboxEmpty
  BY <1>0, <1>8 DEF LinkLost, SilenceFires, InboxEmpty
<1>9. CASE HandleStats
  <2>1. Head(inbox) \in Messages /\ Tail(inbox) \in Seq(Messages)
    BY <1>0, <1>9 DEF HandleStats, Handles
  <2>2. events' \in Seq(Messages) /\ Len(events') <= EventRoom
    BY <1>0, <1>9, <2>1, EventsTyped DEF HandleStats
  <2>3. QED
    BY <1>0, <1>9, <2>1, <2>2 DEF HandleStats, Handles
<1>10. CASE HandleSetting
  <2>1. Head(inbox) \in Messages /\ Tail(inbox) \in Seq(Messages)
    BY <1>0, <1>10 DEF HandleSetting, Handles
  <2>2. Message("setting", Head(inbox).value) \in Messages
    BY <2>1, MessageTypes
  <2>3. events' \in Seq(Messages) /\ Len(events') <= EventRoom
    BY <1>0, <1>10, <2>2, EventsTyped DEF HandleSetting, UpdateSetting
  <2>4. QED
    BY <1>0, <1>10, <2>1, <2>3 DEF HandleSetting, Handles
<1>11. CASE HandleConfig \/ HandleOther \/ HandleGoodbye \/ HandleOversized
  <2>1. Tail(inbox) \in Seq(Messages)
    BY <1>0, <1>11 DEF HandleConfig, HandleOther, HandleGoodbye, HandleOversized, Handles
  <2>2. inbox' = Tail(inbox) /\ UNCHANGED <<linkVars, events, notices, offered>>
    BY <1>11 DEF HandleConfig, HandleOther, HandleGoodbye, HandleOversized, Handles
  <2>3. QED
    BY <1>0, <2>1, <2>2
<1>12. CASE SendNotice \/ SendEnds
  BY <1>0, <1>12, SMTT(60) DEF SendNotice, SendEnds
<1>13. CASE ReportReason \/ ControlCancelled
  <2>1. TaskEnds /\ UNCHANGED <<events, offered>>
    BY <1>13 DEF ReportReason, ControlCancelled
  <2>2. QED
    BY <1>0, <2>1 DEF TaskEnds
<1>14. CASE HmdSends
  BY <1>0, <1>14 DEF HmdSends, Offer
<1>15. CASE HmdReads \/ HmdLeaves \/ IntervalPasses \/ ConfigWindowEnds
  BY <1>0, <1>15, SMTT(60) DEF HmdReads, HmdLeaves, IntervalPasses, ConfigWindowEnds
<1>16. CASE UNCHANGED controlVars
  BY <1>0, <1>16 DEF controlVars
<1>17. QED
  BY <1>1, <1>2, <1>3, <1>4, <1>5, <1>6, <1>7, <1>8, <1>9, <1>10, <1>11, <1>12, <1>13, <1>14,
     <1>15, <1>16, <1>18 DEF ControlNext, LoopNext, TaskNext

LEMMA TaskTypes ==
  ASSUME ControlAssumption, ControlTypeOK, [ControlNext]_controlVars PROVE TaskTypeOK'
<1> USE DEF TaskTypeOK, taskVars, endVars, settingVars
<1>0. TaskTypeOK /\ events \in Seq(Messages) /\ inbox \in Seq(Messages) /\ MaxMisses \in Nat
  BY DEF ControlTypeOK, QueueTypeOK, ControlAssumption
<1>1. CASE BeginSession
  BY <1>0, <1>1 DEF BeginSession, Places, None, ControlAssumption
<1>2. CASE SetupEnds \/ StopStreaming \/ SeeCancelled \/ TakeReason
  BY <1>0, <1>2 DEF SetupEnds, StopStreaming, SeeCancelled, TakeReason, Returns, ControlAssumption
<1>3. CASE HandleEvent
  <2>1. Head(events).value \in Settings
    BY <1>0, <1>3, MessageTypes DEF HandleEvent
  <2>2. QED
    BY <1>0, <1>3, <2>1 DEF HandleEvent
<1>4. CASE StreamFrame \/ QueueHaptic \/ AdmitPacket \/ StorePacket
  BY <1>0, <1>4 DEF StreamFrame, QueueHaptic, AdmitPacket, StorePacket
<1>5. CASE DropHapticRoute \/ CancelSession \/ RevokePeer \/ ClearInputs
  BY <1>0, <1>5 DEF DropHapticRoute, CancelSession, RevokePeer, ClearInputs
<1>6. CASE Read \/ InboxEmpty \/ SendNotice
  BY <1>0, <1>6, SMTT(60) DEF Read, InboxEmpty, SendNotice, Places
<1>7. CASE LinkLost \/ SilenceFires
  BY <1>0, <1>7 DEF LinkLost, SilenceFires, Ends, Places, Reasons
<1>8. CASE HandleStats \/ HandleConfig \/ HandleOther
  BY <1>0, <1>8 DEF HandleStats, HandleConfig, HandleOther, Handles, Places
<1>9. CASE HandleSetting
  <2>1. Head(inbox).value \in Settings
    BY <1>0, <1>9, MessageTypes DEF HandleSetting, Handles
  <2>2. (/\ control \in Places /\ quiet \in 0 .. MaxMisses
         /\ {reason, why} \subseteq Reasons \cup {None} /\ {setting, acked} \subseteq Settings)'
    BY <1>0, <1>9, <2>1 DEF HandleSetting, UpdateSetting, Handles, Places
  <2>3. ({recent, cancelled, dropped} \subseteq BOOLEAN)'
    BY <1>0, <1>9 DEF HandleSetting, UpdateSetting
  <2>4. QED
    BY <2>2, <2>3
<1>10. CASE HandleGoodbye \/ HandleOversized
  BY <1>0, <1>10 DEF HandleGoodbye, HandleOversized, Handles, Ends, Places, Reasons
<1>11. CASE SendEnds
  BY <1>0, <1>11 DEF SendEnds, Places, At, Sending
<1>12. CASE ReportReason \/ ControlCancelled
  <2>1. control' = At("closed") /\ quiet' = 0 /\ recent' = FALSE
    BY <1>12 DEF ReportReason, ControlCancelled, TaskEnds
  <2>2. reason' \in {reason, why} /\ UNCHANGED <<cancelled, why, dropped, setting, acked>>
    BY <1>12 DEF ReportReason, ControlCancelled
  <2>3. ({reason, why} \subseteq Reasons \cup {None})' /\ ({setting, acked} \subseteq Settings)'
    BY <1>0, <2>2
  <2>4. ({recent, cancelled, dropped} \subseteq BOOLEAN)'
    BY <1>0, <1>12 DEF ReportReason, ControlCancelled, TaskEnds
  <2>5. QED
    BY <1>0, <2>1, <2>3, <2>4 DEF Places
<1>13. CASE HmdSends \/ HmdReads \/ HmdLeaves
  BY <1>0, <1>13 DEF HmdSends, HmdReads, HmdLeaves
<1>14. CASE IntervalPasses
  BY <1>0, <1>14 DEF IntervalPasses
<1>18. CASE ConfigWindowEnds
  BY <1>0, <1>18 DEF ConfigWindowEnds
<1>15. CASE UNCHANGED controlVars
  BY <1>0, <1>15 DEF controlVars
<1>16. QED
  BY <1>1, <1>2, <1>3, <1>4, <1>5, <1>6, <1>7, <1>8, <1>9, <1>10, <1>11, <1>12, <1>13, <1>14,
     <1>15, <1>18 DEF ControlNext, LoopNext, TaskNext

LEMMA ControlTypeStep ==
  ASSUME ControlAssumption, ControlTypeOK, [ControlNext]_controlVars PROVE ControlTypeOK'
  BY LoopTypes, QueueTypes, TaskTypes DEF ControlTypeOK

-----------------------------------------------------------------------------
\* The setting that is in force once the events of the channel are handled: the newest in it, or the
\* one in force.
Settles(queue, now_, value) ==
  \/ now_ = value /\ \A i \in DOMAIN queue : queue[i].type # "setting"
  \/ \E i \in DOMAIN queue :
       /\ queue[i].type = "setting" /\ queue[i].value = value
       /\ \A j \in DOMAIN queue : j > i => queue[j].type # "setting"

SettingInv ==
  /\ ~(loop \in {"setup", "streaming", "reason"}) => events = <<>> /\ setting = Configured
  /\ loop \in {"setup", "streaming", "reason"} /\ ~dropped => Settles(events, setting, acked)

LEMMA SettlesHandled ==
  ASSUME NEW q \in Seq(Messages), q # <<>>, NEW now_, NEW value, Settles(q, now_, value)
  PROVE  Settles(Tail(q), IF Head(q).type = "setting" THEN Head(q).value ELSE now_, value)
<1>1. /\ Len(q) \in Nat \ {0} /\ Len(Tail(q)) = Len(q) - 1
      /\ Head(q) = q[1]
      /\ \A i \in 1 .. Len(q) - 1 : Tail(q)[i] = q[i + 1]
      /\ DOMAIN q = 1 .. Len(q) /\ DOMAIN Tail(q) = 1 .. Len(q) - 1
  OBVIOUS
<1>2. CASE now_ = value /\ \A i \in DOMAIN q : q[i].type # "setting"
  BY <1>1, <1>2 DEF Settles
<1>3. ASSUME NEW i \in DOMAIN q, q[i].type = "setting", q[i].value = value,
             \A j \in DOMAIN q : j > i => q[j].type # "setting"
      PROVE  Settles(Tail(q), IF Head(q).type = "setting" THEN Head(q).value ELSE now_, value)
  <2>1. CASE i = 1
    BY <1>1, <1>3, <2>1 DEF Settles
  <2>2. CASE i # 1
    <3>1. i - 1 \in DOMAIN Tail(q) /\ Tail(q)[i - 1] = q[i]
      BY <1>1, <2>2
    <3>2. \A j \in DOMAIN Tail(q) : j > i - 1 => Tail(q)[j].type # "setting"
      BY <1>1, <1>3
    <3>3. QED
      BY <3>1, <3>2, <1>3 DEF Settles
  <2>3. QED
    BY <2>1, <2>2
<1>4. QED
  BY <1>2, <1>3 DEF Settles

LEMMA SettlesPassedOn ==
  ASSUME NEW q \in Seq(Messages), NEW e \in Messages, NEW now_, NEW value, e.type # "setting",
         Settles(q, now_, value)
  PROVE  Settles(Append(q, e), now_, value)
  BY DEF Settles

LEMMA SettlesNewest ==
  ASSUME NEW q \in Seq(Messages), NEW now_, NEW value \in Settings, Message("setting", value) \in Messages
  PROVE  Settles(Append(q, Message("setting", value)), now_, value)
<1>1. /\ Append(q, Message("setting", value))[Len(q) + 1] = Message("setting", value)
      /\ DOMAIN Append(q, Message("setting", value)) = 1 .. Len(q) + 1
      /\ Len(q) \in Nat
  OBVIOUS
<1>2. QED
  BY <1>1 DEF Settles, Message

LEMMA SettingInit == ASSUME ControlInit PROVE SettingInv
  BY DEF ControlInit, SettingInv

LEMMA SettingStep ==
  ASSUME ControlAssumption, ControlTypeOK, SettingInv, [ControlNext]_controlVars PROVE SettingInv'
<1> USE DEF SettingInv, loopVars, settingVars
<1>0. events \in Seq(Messages) /\ inbox \in Seq(Messages) /\ loop \in Loops
  BY DEF ControlTypeOK, LoopTypeOK, QueueTypeOK
<1>1. CASE BeginSession
  BY <1>1 DEF BeginSession, Settles
<1>2. CASE SetupEnds \/ StopStreaming \/ SeeCancelled \/ TakeReason
  BY <1>2 DEF SetupEnds, StopStreaming, SeeCancelled, TakeReason, Returns
<1>3. CASE HandleEvent
  BY <1>0, <1>3, SettlesHandled DEF HandleEvent
<1>4. CASE StreamFrame \/ QueueHaptic
  BY <1>4 DEF StreamFrame, QueueHaptic
<1>5. CASE DropHapticRoute \/ CancelSession \/ RevokePeer \/ ClearInputs
  BY <1>5 DEF DropHapticRoute, CancelSession, RevokePeer, ClearInputs
<1>6. CASE HandleStats
  <2>1. Head(inbox) \in Messages /\ Head(inbox).type # "setting"
    BY <1>0, <1>6 DEF HandleStats, Handles
  <2>2. QED
    BY <1>0, <1>6, <2>1, SettlesPassedOn DEF HandleStats, Forward
<1>7. CASE HandleSetting
  <2> DEFINE v == Head(inbox).value
             m == Message("setting", v)
  <2>1. v \in Settings /\ m \in Messages
    BY <1>0, <1>7, MessageTypes DEF HandleSetting, Handles
  <2>2. CASE recent
    BY <1>7, <2>2 DEF HandleSetting, UpdateSetting
  <2>3. CASE ~recent /\ events' = events
    BY <1>7, <2>3 DEF HandleSetting, UpdateSetting
  <2>4. CASE ~recent /\ events' # events
    <3>1. /\ loop \in {"setup", "streaming", "reason"} /\ loop' = loop
          /\ events' = Append(events, m)
          /\ acked' = v /\ setting' = setting
      BY <1>7, <2>4 DEF HandleSetting, UpdateSetting, Forward
    <3>2. Settles(events', setting', acked')
      BY <1>0, <2>1, <3>1, SettlesNewest
    <3>3. QED
      BY <3>1, <3>2
  <2>5. QED
    BY <2>2, <2>3, <2>4
<1>8. CASE Read \/ LinkLost \/ SilenceFires \/ InboxEmpty \/ HandleConfig \/ HandleOther
             \/ HandleGoodbye \/ HandleOversized \/ SendNotice \/ SendEnds \/ ReportReason
             \/ ControlCancelled
  BY <1>8 DEF Read, LinkLost, SilenceFires, InboxEmpty, HandleConfig, HandleOther, HandleGoodbye,
              HandleOversized, SendNotice, SendEnds, ReportReason, ControlCancelled
<1>9. CASE AdmitPacket \/ StorePacket \/ HmdSends \/ HmdReads \/ HmdLeaves \/ IntervalPasses
             \/ ConfigWindowEnds
  BY <1>9 DEF AdmitPacket, StorePacket, HmdSends, HmdReads, HmdLeaves, IntervalPasses, ConfigWindowEnds
<1>10. CASE UNCHANGED controlVars
  BY <1>10 DEF controlVars
<1>11. QED
  BY <1>1, <1>2, <1>3, <1>4, <1>5, <1>6, <1>7, <1>8, <1>9, <1>10 DEF ControlNext, LoopNext, TaskNext

-----------------------------------------------------------------------------
\* AuthorizedPeerGuard and HapticRoute: in every state the inputs SteamVR gets are of the session's own
\* machine, and between sessions there are none, for any number of machines and sessions.
THEOREM InputsStayWithSession == ControlSafeSpec => []InputsOfSession
<1>1. ControlInit => PeerInv
  BY PeerInit, ControlAssumption
<1>2. PeerInv /\ [ControlNext]_controlVars => PeerInv'
  BY PeerStep, ControlAssumption
<1>3. PeerInv => InputsOfSession
  BY DEF PeerInv, InputsOfSession
<1>4. QED
  BY <1>1, <1>2, <1>3, PTL DEF ControlSafeSpec

\* spawn_control_task() and the end of run_session(): whatever the tasks' order, a session that the
\* control task ended ends for the reason the task saw.
THEOREM SessionsEndForTheirReason == ControlSafeSpec => []EndsForItsReason
<1>1. ControlInit => ReasonInv
  BY ReasonInit
<1>2. ReasonInv /\ [ControlNext]_controlVars => ReasonInv'
  BY ReasonStep
<1>3. ReasonInv => EndsForItsReason
  BY DEF ReasonInv, EndsForItsReason, Reasons, None
<1>4. QED
  BY <1>1, <1>2, <1>3, PTL DEF ControlSafeSpec

\* run_session() and handle_tcp_control() keep their state within its types and every channel within its
\* capacity: events, notices, and what is queued in the socket.
THEOREM ControlStateTyped == ControlSafeSpec => []ControlTypeOK
<1>1. ControlInit => ControlTypeOK
  BY ControlTypeInit, ControlAssumption
<1>2. ControlTypeOK /\ [ControlNext]_controlVars => ControlTypeOK'
  BY ControlTypeStep, ControlAssumption
<1>3. QED
  BY <1>1, <1>2, PTL DEF ControlSafeSpec

\* UpdateSetting and the event channel: the setting in force is the one the HMD was last told is
\* accepted, as soon as no setting is left in the channel, unless one was lost to a full channel.
THEOREM SettingsFollowAcks == ControlSafeSpec => []SettingFollowsAcks
<1>1. ControlInit => SettingInv
  BY SettingInit
<1>2. ControlTypeOK /\ SettingInv /\ [ControlNext]_controlVars => SettingInv'
  BY SettingStep, ControlAssumption
<1>3. SettingInv => SettingFollowsAcks
  BY DEF SettingInv, SettingFollowsAcks, Settles
<1>4. QED
  BY <1>1, <1>2, <1>3, ControlStateTyped, PTL DEF ControlSafeSpec

-----------------------------------------------------------------------------
(* The code words a frame travels in.                                      *)

\* Division that rounds down, and up.
LEMMA DividedDown ==
  ASSUME NEW a \in Nat, NEW b \in Nat \ {0}
  PROVE  a \div b \in Nat /\ a % b \in 0 .. b - 1 /\ a = b * (a \div b) + (a % b)
PROOF OBVIOUS

LEMMA DividedUp ==
  ASSUME NEW a \in Nat, NEW b \in Nat \ {0}
  PROVE  /\ DivCeil(a, b) \in Nat
         /\ a <= b * DivCeil(a, b) /\ b * DivCeil(a, b) < a + b
         /\ a > 0 => DivCeil(a, b) > 0
PROOF
<1> DEFINE c == (a + b - 1) \div b
<1>1. a + b - 1 \in Nat
  OBVIOUS
<1>2. c \in Nat /\ (a + b - 1) % b \in 0 .. b - 1 /\ a + b - 1 = b * c + ((a + b - 1) % b)
  BY <1>1, DividedDown
<1>3. DivCeil(a, b) = c
  BY DEF DivCeil
<1> HIDE DEF c
<1>4. b * c \in Nat
  BY <1>2
<1>5. a <= b * c /\ b * c < a + b
  BY <1>2, <1>4
<1>6. a > 0 => c > 0
  BY <1>2, <1>5
<1> QED BY <1>2, <1>3, <1>5, <1>6

LEMMA Scales ==
  ASSUME NEW b \in Nat, NEW m \in Nat, NEW n \in Nat, m <= n
  PROVE  b * m <= b * n /\ b * m \in Nat /\ b * n \in Nat
PROOF
<1>1. PICK k \in Nat : n = m + k
  BY n - m \in Nat
<1>2. b * n = b * m + b * k
  BY <1>1
<1>3. b * m \in Nat /\ b * k \in Nat
  OBVIOUS
<1> QED BY <1>2, <1>3

\* A quotient is at most n if n of the divisor are enough.
LEMMA UpLeast ==
  ASSUME NEW a \in Nat, NEW b \in Nat \ {0}, NEW n \in Nat, a <= b * n
  PROVE  DivCeil(a, b) <= n
PROOF
<1> DEFINE c == DivCeil(a, b)
<1>1. c \in Nat /\ b * c < a + b
  BY DividedUp
<1> HIDE DEF c
<1>2. SUFFICES ASSUME n + 1 <= c PROVE FALSE
  BY <1>1 DEF c
<1>3. b * (n + 1) <= b * c
  BY <1>1, <1>2, Scales
<1>4. b * (n + 1) = b * n + b /\ b * n \in Nat /\ b * c \in Nat
  BY <1>1
<1> QED BY <1>1, <1>3, <1>4

LEMMA UpGrows ==
  ASSUME NEW a \in Nat, NEW m \in Nat, a <= m, NEW b \in Nat \ {0}
  PROVE  DivCeil(a, b) <= DivCeil(m, b)
PROOF
<1>1. DivCeil(m, b) \in Nat /\ m <= b * DivCeil(m, b) /\ b * DivCeil(m, b) \in Nat
  BY DividedUp
<1> QED BY <1>1, UpLeast

\* A set of numbers has a least one.
LEMMA LeastOf ==
  ASSUME NEW T \in SUBSET Nat, T # {}
  PROVE  \E x \in T : \A y \in T : x <= y
PROOF
<1> DEFINE R == OpToRel(<, Nat)
<1>1. \A m, n \in Nat : m < n => <<m, n>> \in R
  BY DEF OpToRel
<1>2. IsWellFoundedOn(R, Nat)
  BY NatLessThanWellFounded
<1> HIDE DEF R
<1>3. PICK x \in T : \A y \in T : ~ (<<y, x>> \in R)
  BY <1>2, WFMin, Zenon
<1>4. ASSUME NEW y \in T PROVE x <= y
  <2>1. x \in Nat /\ y \in Nat
    OBVIOUS
  <2>2. ~(y < x)
    BY <1>1, <1>3, <2>1
  <2> QED BY <2>1, <2>2
<1> QED BY <1>4

LEMMA LeastIs ==
  ASSUME NEW T \in SUBSET Nat, T # {}
  PROVE  Min(T) \in T /\ \A y \in T : Min(T) <= y
PROOF BY LeastOf DEF Min

LEMMA GreatestIs ==
  ASSUME NEW T \in SUBSET Nat, T # {}, NEW n \in Nat, \A y \in T : y <= n
  PROVE  Max(T) \in T /\ \A y \in T : y <= Max(T)
PROOF
<1> DEFINE Above == {k \in Nat : \A y \in T : y <= k}
<1>1. Above # {}
  OBVIOUS
<1>2. PICK k \in Above : \A j \in Above : k <= j
  BY <1>1, LeastOf
<1>3. k \in T
  <2> SUFFICES ASSUME k \notin T PROVE FALSE
    OBVIOUS
  <2>1. \A y \in T : y \in Nat /\ y < k
    OBVIOUS
  <2>2. PICK y \in T : y \in Nat /\ y < k
    BY <2>1
  <2>3. k - 1 \in Above
    BY <2>1, <2>2
  <2> QED BY <2>3, <1>2
<1>4. \E x \in T : \A y \in T : x >= y
  BY <1>2, <1>3
<1> QED BY <1>4 DEF Max

\* parity_for() grows with the data, and is never none.
LEMMA ParityGrows ==
  ASSUME redundancy \in 0 .. 100, NEW d \in Nat, NEW m \in Nat, d <= m
  PROVE  /\ ParityFor(d) \in Nat \ {0} /\ ParityFor(m) \in Nat \ {0}
         /\ ParityFor(d) <= ParityFor(m)
PROOF
<1>1. d * redundancy \in Nat /\ m * redundancy \in Nat /\ d * redundancy <= m * redundancy
  <2>1. redundancy * d <= redundancy * m /\ redundancy * d \in Nat /\ redundancy * m \in Nat
    BY Scales
  <2>2. redundancy * d = d * redundancy /\ redundancy * m = m * redundancy
    OBVIOUS
  <2> QED BY <2>1, <2>2
<1>2. DivCeil(d * redundancy, 100) \in Nat /\ DivCeil(m * redundancy, 100) \in Nat
      /\ DivCeil(d * redundancy, 100) <= DivCeil(m * redundancy, 100)
  <2>1. 100 \in Nat \ {0}
    OBVIOUS
  <2> QED BY <1>1, <2>1, DividedUp, UpGrows
<1> QED BY <1>2 DEF ParityFor, Largest

\* max_data_shards(): a word of so many data shards, or fewer, fits.
LEMMA FewerShardsFit ==
  ASSUME redundancy \in 0 .. 100
  PROVE  /\ MaxDataShards \in 0 .. WordShards
         /\ \A d \in 1 .. MaxDataShards : d + ParityFor(d) <= WordShards
PROOF
<1> DEFINE D == {d \in 1 .. WordShards - 1 : d + ParityFor(d) <= WordShards}
<1>1. WordShards \in Nat
  BY ShardsAssumption
<1>2. {0} \cup D \in SUBSET Nat /\ {0} \cup D # {} /\ \A y \in {0} \cup D : y <= WordShards
  BY <1>1
<1>3. MaxDataShards \in {0} \cup D
  BY <1>1, <1>2, GreatestIs, Zenon DEF MaxDataShards
<1>4. ASSUME NEW d \in 1 .. MaxDataShards PROVE d + ParityFor(d) <= WordShards
  <2>1. MaxDataShards \in D
    BY <1>3
  <2>2. MaxDataShards \in Nat /\ MaxDataShards + ParityFor(MaxDataShards) <= WordShards
    BY <1>1, <2>1
  <2>3. d \in Nat /\ d <= MaxDataShards
    BY <2>2
  <2>4. ParityFor(d) \in Nat /\ ParityFor(MaxDataShards) \in Nat /\ ParityFor(d) <= ParityFor(MaxDataShards)
    BY <2>2, <2>3, ParityGrows
  <2> QED BY <1>1, <2>2, <2>3, <2>4
<1> QED BY <1>1, <1>3, <1>4

Slicings == [on : BOOLEAN, count : 0 .. MaxSlices + 1]

LEMMA LeastOfTwo ==
  ASSUME NEW a \in Nat, NEW b \in Nat
  PROVE  Min({a, b}) = IF a <= b THEN a ELSE b
PROOF
<1>1. Min({a, b}) \in {a, b} /\ \A y \in {a, b} : Min({a, b}) <= y
  BY LeastIs, {a, b} \in SUBSET Nat
<1> QED BY <1>1

\* choose_fec_layout(): a code word of the layout it chooses can be coded.
LEMMA LayoutFits ==
  ASSUME redundancy \in 0 .. 100, slicing \in Slicings, NEW length \in Nat
  PROVE  /\ Layout(length) \in -1 .. MaxSlices
         /\ Layout(length) = 0 => DivCeil(length, ShardSize) <= MaxDataShards
         /\ Layout(length) > 0 => SliceDataShards(DivCeil(length, Layout(length))) <= MaxDataShards
PROOF
<1> DEFINE slice == slicing.on /\ length >= MinSliceSize
           from == IF slice THEN Min({Largest(slicing.count, 1), MaxSlices}) ELSE 1
           fits == {n \in from .. MaxSlices : SliceDataShards(DivCeil(length, n)) <= MaxDataShards}
<1>1. MaxSlices \in Nat \ {0}
  BY ShardsAssumption
<1>2. from \in 1 .. MaxSlices
  <2>1. Largest(slicing.count, 1) \in Nat \ {0}
    BY <1>1 DEF Slicings, Largest
  <2>2. Min({Largest(slicing.count, 1), MaxSlices}) \in 1 .. MaxSlices
    BY <1>1, <2>1, LeastOfTwo
  <2> QED BY <1>1, <2>2
<1>3. Layout(length) = IF ~slice /\ DivCeil(length, ShardSize) <= MaxDataShards THEN 0
                       ELSE IF fits = {} THEN -1 ELSE Min(fits)
  BY Zenon DEF Layout
<1> HIDE DEF from
<1>4. fits # {} => Min(fits) \in fits
  <2>1. fits \in SUBSET Nat
    BY <1>1, <1>2
  <2> QED BY <2>1, LeastIs
<1>5. \A n \in fits : n \in 1 .. MaxSlices /\ SliceDataShards(DivCeil(length, n)) <= MaxDataShards
  BY <1>1, <1>2
<1> HIDE DEF fits, slice
<1>6. CASE ~slice /\ DivCeil(length, ShardSize) <= MaxDataShards
  BY <1>1, <1>3, <1>6
<1>7. CASE ~(~slice /\ DivCeil(length, ShardSize) <= MaxDataShards) /\ fits = {}
  BY <1>1, <1>3, <1>7
<1>8. CASE ~(~slice /\ DivCeil(length, ShardSize) <= MaxDataShards) /\ fits # {}
  <2>1. Layout(length) = Min(fits)
    BY <1>3, <1>8
  <2>2. Layout(length) \in 1 .. MaxSlices /\ SliceDataShards(DivCeil(length, Layout(length))) <= MaxDataShards
    BY <2>1, <1>4, <1>5, <1>8
  <2> QED BY <1>1, <2>2
<1> QED BY <1>6, <1>7, <1>8

\* Where slice i + 1 of n begins.
Start(length, n, i) == i * (length \div n) + (IF i <= length % n THEN i ELSE length % n)

\* SliceSplitter::split(): slices stand side by side, from the first byte to the last, and none is longer
\* than its share.
LEMMA SlicesSideBySide ==
  ASSUME NEW length \in Nat, NEW n \in 1 .. length
  PROVE  /\ Start(length, n, 0) = 0 /\ Start(length, n, n) = length
         /\ \A i \in 0 .. n - 1 :
              /\ Start(length, n, i) \in Nat /\ Start(length, n, i + 1) \in Nat
              /\ Start(length, n, i) <= Start(length, n, i + 1)
              /\ Start(length, n, i + 1) - Start(length, n, i) <= DivCeil(length, n)
              /\ SliceOf(length, i, n) = Bytes(Start(length, n, i), Start(length, n, i + 1))
PROOF
<1> DEFINE base == length \div n
           rest == length % n
           share == DivCeil(length, n)
<1>1. n \in Nat \ {0} /\ n <= length
  OBVIOUS
<1>2. base \in Nat /\ rest \in 0 .. n - 1 /\ length = n * base + rest
  BY <1>1, DividedDown
<1>3. share \in Nat /\ length <= n * share
  BY <1>1, DividedUp
<1>4. base <= share /\ (rest > 0 => base + 1 <= share)
  <2> HIDE DEF base, rest, share
  <2>1. ASSUME share < base PROVE FALSE
    <3>1. n * (share + 1) <= n * base /\ n * base \in Nat /\ n * share \in Nat
      BY <1>1, <1>2, <1>3, <2>1, Scales
    <3>2. n * (share + 1) = n * share + n
      BY <1>1, <1>3
    <3> QED BY <1>1, <1>2, <1>3, <3>1, <3>2
  <2>2. ASSUME rest > 0, share <= base PROVE FALSE
    <3>1. n * share <= n * base /\ n * base \in Nat /\ n * share \in Nat
      BY <1>1, <1>2, <1>3, <2>2, Scales
    <3> QED BY <1>1, <1>2, <1>3, <2>2, <3>1
  <2> QED BY <1>2, <1>3, <2>1, <2>2
<1>5. \A i \in 0 .. n : Start(length, n, i) = i * base + (IF i <= rest THEN i ELSE rest)
  BY DEF Start
<1>6. Start(length, n, 0) = 0
  <2> HIDE DEF base, rest
  <2> QED BY <1>1, <1>2, <1>5
<1>7. Start(length, n, n) = length
  <2> HIDE DEF base, rest
  <2> QED BY <1>1, <1>2, <1>5
<1>8. ASSUME NEW i \in 0 .. n - 1
      PROVE  /\ Start(length, n, i) \in Nat /\ Start(length, n, i + 1) \in Nat
             /\ Start(length, n, i) <= Start(length, n, i + 1)
             /\ Start(length, n, i + 1) - Start(length, n, i) <= share
             /\ SliceOf(length, i, n) = Bytes(Start(length, n, i), Start(length, n, i + 1))
  <2> DEFINE from == i * base + Min({i, rest})
  <2>1. i \in Nat /\ i * base \in Nat /\ (i + 1) * base = i * base + base
    BY <1>1, <1>2
  <2>2. Min({i, rest}) = IF i <= rest THEN i ELSE rest
    BY <1>2, <2>1, LeastOfTwo
  <2>3. Start(length, n, i) = from /\ from \in Nat
    <3> HIDE DEF base, rest
    <3> QED BY <1>1, <1>2, <1>5, <2>1, <2>2
  <2>4. Start(length, n, i + 1) = from + base + (IF i < rest THEN 1 ELSE 0)
    <3>1. Start(length, n, i + 1) = (i + 1) * base + (IF i + 1 <= rest THEN i + 1 ELSE rest)
      BY <1>1, <1>5
    <3> HIDE DEF base, rest
    <3>2. from = i * base + (IF i <= rest THEN i ELSE rest)
      BY <2>2
    <3>3. base \in Nat /\ rest \in Nat /\ i \in Nat
      BY <1>1, <1>2, <2>1
    <3>4. i + 1 <= rest <=> i < rest
      BY <3>3
    <3> HIDE DEF from
    <3>5. CASE i < rest
      BY <2>1, <3>1, <3>2, <3>3, <3>4, <3>5
    <3>6. CASE ~(i < rest)
      <4>1. from = i * base + rest
        BY <3>2, <3>3, <3>6
      <4> QED BY <2>1, <3>1, <3>3, <3>4, <3>6, <4>1
    <3> QED BY <3>5, <3>6
  <2>5. SliceOf(length, i, n) = Bytes(from, from + base + IF i < rest THEN 1 ELSE 0)
    BY Zenon DEF SliceOf
  <2> HIDE DEF from, base, rest, share
  <2>6. Start(length, n, i) <= Start(length, n, i + 1) /\ Start(length, n, i + 1) \in Nat
        /\ Start(length, n, i + 1) - Start(length, n, i) <= share
    BY <1>2, <1>3, <1>4, <2>1, <2>3, <2>4
  <2>7. SliceOf(length, i, n) = Bytes(Start(length, n, i), Start(length, n, i + 1))
    BY <2>3, <2>4, <2>5
  <2> QED BY <2>3, <2>6, <2>7
<1> QED BY <1>6, <1>7, <1>8

\* FlattenSeq is the only function that puts its sequences one after the other.
LEMMA Flattened ==
  ASSUME NEW n \in Nat \ {0}, NEW S, NEW s \in [1 .. n -> S], NEW g \in [1 .. n -> S],
         \A i \in 1 .. n : g[i] = IF i = 1 THEN s[i] ELSE g[i - 1] \o s[i]
  PROVE  FlattenSeq(s) = g[n]
PROOF
<1> DEFINE Puts(f) == f = [i \in 1 .. n |-> IF i = 1 THEN s[i] ELSE f[i - 1] \o s[i]]
           f == CHOOSE f : Puts(f)
<1>1. Len(s) = n
  OBVIOUS
<1>2. FlattenSeq(s) = f[n]
  BY <1>1 DEF FlattenSeq
<1>3. Puts(f)
  <2>1. Puts(g)
    OBVIOUS
  <2> HIDE DEF Puts
  <2> QED BY <2>1, Zenon
<1> HIDE DEF f
<1>4. f = [i \in 1 .. n |-> IF i = 1 THEN s[i] ELSE f[i - 1] \o s[i]]
  BY <1>3
<1> DEFINE Wrong == {i \in 1 .. n : f[i] # g[i]}
<1>5. Wrong = {}
  <2> SUFFICES ASSUME Wrong # {} PROVE FALSE
    OBVIOUS
  <2>1. PICK i \in Wrong : \A j \in Wrong : i <= j
    BY LeastOf, Wrong \in SUBSET Nat
  <2>2. i \in 1 .. n /\ f[i] # g[i]
    OBVIOUS
  <2>3. f[i] = (IF i = 1 THEN s[i] ELSE f[i - 1] \o s[i])
    BY <1>4, <2>2
  <2>4. g[i] = (IF i = 1 THEN s[i] ELSE g[i - 1] \o s[i])
    BY <2>2
  <2>5. i # 1
    BY <2>2, <2>3, <2>4
  <2>6. \A j \in 1 .. n : f[j] # g[j] => i <= j
    BY <2>1
  <2>7. i - 1 \in 1 .. n /\ ~(i <= i - 1)
    BY <2>2, <2>5
  <2>8. f[i - 1] = g[i - 1]
    BY <2>6, <2>7
  <2> QED BY <2>2, <2>3, <2>4, <2>5, <2>8
<1>6. f[n] = g[n]
  BY <1>5, n \in 1 .. n
<1> QED BY <1>2, <1>6

Signs == {"byte", "length", "pad"} \X Nat

LEMMA IsSequence ==
  ASSUME NEW S, NEW n \in Nat, NEW f \in [1 .. n -> S]
  PROVE  f \in Seq(S) /\ Len(f) = n
PROOF
<1>1. f \in Seq(S)
  BY SeqDef, Zenon
<1>2. Len(f) \in Nat /\ DOMAIN f = 1 .. Len(f)
  BY <1>1, LenProperties
<1> QED BY <1>1, <1>2

LEMMA BytesAre ==
  ASSUME NEW from \in Nat, NEW to \in Nat, from <= to
  PROVE  /\ Bytes(from, to) \in Seq(Signs) /\ Len(Bytes(from, to)) = to - from
         /\ \A i \in 1 .. to - from : Bytes(from, to)[i] = <<"byte", from + i>>
PROOF
<1>1. Bytes(from, to) \in [1 .. to - from -> Signs] /\ to - from \in Nat
  <2>1. \A i \in 1 .. to - from : <<"byte", from + i>> \in Signs
    <3>1. \A i \in 1 .. to - from : from + i \in Nat
      OBVIOUS
    <3> QED BY <3>1 DEF Signs
  <2>2. Bytes(from, to) \in [1 .. to - from -> Signs]
    BY <2>1 DEF Bytes
  <2> QED BY <2>2
<1>2. \A i \in 1 .. to - from : Bytes(from, to)[i] = <<"byte", from + i>>
  BY DEF Bytes
<1> QED BY <1>1, <1>2, IsSequence

\* Bytes that stand side by side.
LEMMA BytesJoin ==
  ASSUME NEW a \in Nat, NEW b \in Nat, a <= b
  PROVE  Bytes(0, a) \o Bytes(a, b) = Bytes(0, b)
PROOF
<1> DEFINE p == Bytes(0, a)
           q == Bytes(a, b)
           r == Bytes(0, b)
<1>1. p \in Seq(Signs) /\ Len(p) = a /\ \A i \in 1 .. a : p[i] = <<"byte", i>>
  <2>1. /\ Bytes(0, a) \in Seq(Signs) /\ Len(Bytes(0, a)) = a - 0
        /\ \A i \in 1 .. a - 0 : Bytes(0, a)[i] = <<"byte", 0 + i>>
    BY BytesAre, 0 \in Nat, 0 <= a
  <2>2. \A i \in 1 .. a : Bytes(0, a)[i] = <<"byte", i>>
    <3> TAKE i \in 1 .. a
    <3>1. i \in 1 .. a - 0 /\ 0 + i = i
      OBVIOUS
    <3> QED BY <2>1, <3>1
  <2> QED BY <2>1, <2>2
<1>2. q \in Seq(Signs) /\ Len(q) = b - a /\ \A i \in 1 .. b - a : q[i] = <<"byte", a + i>>
  BY BytesAre
<1>3. r \in Seq(Signs) /\ Len(r) = b /\ \A i \in 1 .. b : r[i] = <<"byte", i>>
  <2>1. /\ Bytes(0, b) \in Seq(Signs) /\ Len(Bytes(0, b)) = b - 0
        /\ \A i \in 1 .. b - 0 : Bytes(0, b)[i] = <<"byte", 0 + i>>
    BY BytesAre, 0 \in Nat, 0 <= b
  <2>2. \A i \in 1 .. b : Bytes(0, b)[i] = <<"byte", i>>
    <3> TAKE i \in 1 .. b
    <3>1. i \in 1 .. b - 0 /\ 0 + i = i
      OBVIOUS
    <3> QED BY <2>1, <3>1
  <2> QED BY <2>1, <2>2
<1> HIDE DEF p, q, r
<1>4. /\ p \o q \in Seq(Signs) /\ Len(p \o q) = b
      /\ \A i \in 1 .. b : (p \o q)[i] = IF i <= a THEN p[i] ELSE q[i - a]
  <2>1. Len(p) + Len(q) = b
    BY <1>1, <1>2
  <2> QED BY <1>1, <1>2, <2>1, ConcatProperties
<1>5. ASSUME NEW i \in 1 .. b PROVE (p \o q)[i] = r[i]
  <2>1. CASE i <= a
    <3>1. i \in 1 .. a
      BY <2>1
    <3>2. p[i] = <<"byte", i>> /\ r[i] = <<"byte", i>>
      BY <1>1, <1>3, <3>1
    <3> QED BY <1>4, <2>1, <3>2
  <2>2. CASE ~(i <= a)
    <3>1. i - a \in 1 .. b - a /\ a + (i - a) = i
      BY <2>2
    <3>2. q[i - a] = <<"byte", a + (i - a)>>
      BY <1>2, <3>1
    <3> QED BY <1>3, <1>4, <2>2, <3>1, <3>2
  <2> QED BY <2>1, <2>2
<1>6. p \o q = r
  BY <1>3, <1>4, <1>5, SeqEqual
<1> QED BY <1>6 DEF p, q, r

\* The slices put together are the frame.
LEMMA SlicesJoin ==
  ASSUME NEW length \in Nat, NEW n \in 1 .. length
  PROVE  FlattenSeq([i \in 1 .. n |-> SliceOf(length, i - 1, n)]) = Bytes(0, length)
PROOF
<1> DEFINE s == [i \in 1 .. n |-> SliceOf(length, i - 1, n)]
           g == [i \in 1 .. n |-> Bytes(0, Start(length, n, i))]
<1>1. n \in Nat \ {0}
  OBVIOUS
<1>2. ASSUME NEW i \in 1 .. n
      PROVE  /\ s[i] = Bytes(Start(length, n, i - 1), Start(length, n, i))
             /\ Start(length, n, i - 1) \in Nat /\ Start(length, n, i) \in Nat
             /\ Start(length, n, i - 1) <= Start(length, n, i)
  <2>1. i - 1 \in 0 .. n - 1 /\ (i - 1) + 1 = i
    BY <1>1
  <2>2. s[i] = SliceOf(length, i - 1, n)
    OBVIOUS
  <2> HIDE DEF s
  <2> QED BY <2>1, <2>2, SlicesSideBySide
<1>3. ASSUME NEW i \in 1 .. n PROVE g[i] = IF i = 1 THEN s[i] ELSE g[i - 1] \o s[i]
  <2>1. g[i] = Bytes(0, Start(length, n, i))
    OBVIOUS
  <2>2. CASE i = 1
    <3>1. Start(length, n, i - 1) = 0
      BY <2>2, SlicesSideBySide
    <3> HIDE DEF g, s
    <3> QED BY <1>2, <2>1, <2>2, <3>1
  <2>3. CASE i # 1
    <3>1. i - 1 \in 1 .. n
      BY <1>1, <2>3
    <3>2. g[i - 1] = Bytes(0, Start(length, n, i - 1))
      BY <3>1
    <3> HIDE DEF g, s
    <3>3. g[i - 1] \o s[i] = Bytes(0, Start(length, n, i))
      BY <1>2, <3>2, BytesJoin
    <3> QED BY <2>1, <2>3, <3>3
  <2> QED BY <2>2, <2>3
<1>4. g \in [1 .. n -> Seq(Signs)]
  <2> SUFFICES ASSUME NEW i \in 1 .. n PROVE Bytes(0, Start(length, n, i)) \in Seq(Signs)
    OBVIOUS
  <2>1. Start(length, n, i) \in Nat /\ 0 <= Start(length, n, i)
    BY <1>2
  <2> QED BY <2>1, BytesAre, 0 \in Nat
<1>5. s \in [1 .. n -> Seq(Signs)]
  <2> SUFFICES ASSUME NEW i \in 1 .. n PROVE s[i] \in Seq(Signs)
    OBVIOUS
  <2> HIDE DEF s
  <2> QED BY <1>2, BytesAre
<1>6. g[n] = Bytes(0, length)
  BY <1>1, SlicesSideBySide
<1> HIDE DEF g, s
<1>7. FlattenSeq(s) = g[n]
  BY <1>1, <1>3, <1>4, <1>5, Flattened
<1> QED BY <1>6, <1>7 DEF s

\* to_data_shards(): whole shards, of which the last is padded.
LEMMA PaddedIs ==
  ASSUME NEW bytes \in Seq(Signs)
  PROVE  /\ Padded(bytes) \in Seq(Signs)
         /\ DataShards(Padded(bytes)) = DivCeil(Len(bytes), ShardSize)
         /\ Len(bytes) <= Len(Padded(bytes))
         /\ \A i \in 1 .. Len(bytes) : Padded(bytes)[i] = bytes[i]
PROOF
<1> DEFINE c == DivCeil(Len(bytes), ShardSize)
           more == c * ShardSize - Len(bytes)
           pads == [i \in 1 .. more |-> Pad]
<1>1. ShardSize \in Nat \ {0} /\ Len(bytes) \in Nat
  BY ShardsAssumption
<1>2. c \in Nat /\ Len(bytes) <= ShardSize * c
  BY <1>1, DividedUp
<1>3. Padded(bytes) = bytes \o pads
  BY DEF Padded
<1> HIDE DEF c
<1>4. more \in Nat /\ Len(bytes) + more = ShardSize * c /\ ShardSize * c \in Nat
  BY <1>1, <1>2
<1> HIDE DEF more
<1>5. pads \in Seq(Signs) /\ Len(pads) = more
  <2>1. Pad \in Signs
    BY DEF Pad, Signs
  <2>2. pads \in [1 .. more -> Signs]
    BY <2>1
  <2> HIDE DEF pads
  <2> QED BY <1>4, <2>2, IsSequence
<1> HIDE DEF pads
<1>6. /\ Padded(bytes) \in Seq(Signs) /\ Len(Padded(bytes)) = ShardSize * c
      /\ \A i \in 1 .. Len(bytes) : Padded(bytes)[i] = bytes[i]
  <2>1. /\ bytes \o pads \in Seq(Signs) /\ Len(bytes \o pads) = Len(bytes) + Len(pads)
        /\ \A i \in 1 .. Len(bytes) + Len(pads) :
             (bytes \o pads)[i] = IF i <= Len(bytes) THEN bytes[i] ELSE pads[i - Len(bytes)]
    BY <1>5, ConcatProperties
  <2>2. \A i \in 1 .. Len(bytes) : (bytes \o pads)[i] = bytes[i]
    <3> TAKE i \in 1 .. Len(bytes)
    <3>1. i \in 1 .. Len(bytes) + Len(pads) /\ i <= Len(bytes)
      BY <1>1, <1>4, <1>5
    <3> QED BY <2>1, <3>1
  <2> QED BY <1>3, <1>4, <1>5, <2>1, <2>2
<1>7. (ShardSize * c) \div ShardSize = c
  <2> DEFINE q == (ShardSize * c) \div ShardSize
             r == (ShardSize * c) % ShardSize
  <2>1. q \in Nat /\ r \in 0 .. ShardSize - 1 /\ ShardSize * c = ShardSize * q + r
    BY <1>1, <1>4, DividedDown
  <2> HIDE DEF q, r
  <2>2. ShardSize * q <= ShardSize * c /\ ShardSize * c < ShardSize * q + ShardSize /\ ShardSize * q \in Nat
    <3>1. ShardSize * q \in Nat
      BY <1>1, <2>1
    <3> QED BY <1>1, <1>4, <2>1, <3>1
  <2>3. ASSUME q < c PROVE FALSE
    <3>1. ShardSize * (q + 1) <= ShardSize * c
      BY <1>1, <1>2, <2>1, <2>3, Scales
    <3>2. ShardSize * (q + 1) = ShardSize * q + ShardSize
      BY <1>1, <2>1
    <3> QED BY <1>1, <1>4, <2>2, <3>1, <3>2
  <2>4. ASSUME c < q PROVE FALSE
    <3>1. ShardSize * (c + 1) <= ShardSize * q
      BY <1>1, <1>2, <2>1, <2>4, Scales
    <3>2. ShardSize * (c + 1) = ShardSize * c + ShardSize
      BY <1>1, <1>2
    <3> QED BY <1>1, <1>4, <2>2, <3>1, <3>2
  <2>5. q = c
    BY <1>2, <2>1, <2>3, <2>4
  <2> QED BY <2>5 DEF q
<1>8. DataShards(Padded(bytes)) = c
  BY <1>6, <1>7 DEF DataShards
<1> QED BY <1>2, <1>4, <1>6, <1>8 DEF c

LEMMA PrefixedIs == ASSUME NEW b \in Seq(Signs) PROVE Prefixed(b) \in Seq(Signs)
PROOF
<1> DEFINE head == [i \in 1 .. Prefix |-> IF i = 1 THEN <<"length", Len(b)>> ELSE Pad]
<1>1. Prefix \in Nat /\ Len(b) \in Nat
  BY ShardsAssumption
<1>2. <<"length", Len(b)>> \in Signs /\ Pad \in Signs
  BY <1>1 DEF Pad, Signs
<1>3. head \in [1 .. Prefix -> Signs]
  BY <1>2
<1>4. Prefixed(b) = head \o b
  BY DEF Prefixed
<1> HIDE DEF head
<1>5. head \in Seq(Signs)
  BY <1>1, <1>3, IsSequence
<1> QED BY <1>4, <1>5, ConcatProperties

\* A slice's word: its prefix says how much of it is the slice.
LEMMA SliceWordIs ==
  ASSUME NEW b \in Seq(Signs)
  PROVE  /\ DataShards(Padded(Prefixed(b))) = SliceDataShards(Len(b))
         /\ LET w == Padded(Prefixed(b)) IN SubSeq(w, Prefix + 1, Prefix + w[1][2]) = b
PROOF
<1> DEFINE head == [i \in 1 .. Prefix |-> IF i = 1 THEN <<"length", Len(b)>> ELSE Pad]
           v == Prefixed(b)
           w == Padded(Prefixed(b))
<1>1. Prefix \in Nat \ {0} /\ Len(b) \in Nat
  BY ShardsAssumption
<1>2. head \in Seq(Signs) /\ Len(head) = Prefix /\ head[1] = <<"length", Len(b)>>
  <2>1. <<"length", Len(b)>> \in Signs /\ Pad \in Signs
    BY <1>1 DEF Pad, Signs
  <2>2. head \in [1 .. Prefix -> Signs]
    BY <2>1
  <2>3. head[1] = <<"length", Len(b)>>
    BY <1>1, 1 \in 1 .. Prefix
  <2> HIDE DEF head
  <2> QED BY <1>1, <2>2, <2>3, IsSequence
<1>3. v = head \o b
  BY DEF Prefixed
<1> HIDE DEF head, v
<1>4. /\ v \in Seq(Signs) /\ Len(v) = Prefix + Len(b)
      /\ \A i \in 1 .. Prefix + Len(b) : v[i] = IF i <= Prefix THEN head[i] ELSE b[i - Prefix]
  BY <1>2, <1>3, ConcatProperties
<1>5. /\ w \in Seq(Signs) /\ DataShards(w) = DivCeil(Prefix + Len(b), ShardSize)
      /\ Prefix + Len(b) <= Len(w)
      /\ \A i \in 1 .. Prefix + Len(b) : w[i] = v[i]
  BY <1>4, PaddedIs DEF v
<1>6. DataShards(w) = SliceDataShards(Len(b))
  BY <1>1, <1>5 DEF SliceDataShards, DivCeil
<1> HIDE DEF w
<1>7. w[1] = <<"length", Len(b)>>
  <2>1. 1 \in 1 .. Prefix + Len(b) /\ 1 <= Prefix
    BY <1>1
  <2> QED BY <1>2, <1>4, <1>5, <2>1
<1>8. w[1][2] = Len(b)
  BY <1>7
<1> DEFINE m == Prefix + 1
           n == Prefix + Len(b)
           t == SubSeq(w, m, n)
<1>9. m \in Int /\ n \in Int /\ n - m + 1 = Len(b) /\ \A i \in m .. n : i \in 1 .. Len(w)
  BY <1>1, <1>5
<1>10. \A i \in m .. n : w[i] \in Signs
  BY <1>5, <1>9, ElementOfSeq
<1>11. /\ t \in Seq(Signs) /\ Len(t) = (IF m <= n THEN n - m + 1 ELSE 0)
       /\ \A i \in 1 .. n - m + 1 : t[i] = w[m + i - 1]
  BY <1>9, <1>10, SubSeqProperties
<1>12. Len(t) = Len(b)
  BY <1>1, <1>9, <1>11
<1>13. ASSUME NEW i \in 1 .. Len(b) PROVE t[i] = b[i]
  <2>1. t[i] = w[m + i - 1]
    BY <1>9, <1>11
  <2>2. m + i - 1 = Prefix + i /\ Prefix + i \in 1 .. Prefix + Len(b)
        /\ ~(Prefix + i <= Prefix) /\ (Prefix + i) - Prefix = i
    BY <1>1
  <2>3. w[Prefix + i] = v[Prefix + i]
    BY <1>5, <2>2
  <2>4. v[Prefix + i] = b[(Prefix + i) - Prefix]
    BY <1>4, <2>2
  <2> QED BY <2>1, <2>2, <2>3, <2>4
<1> HIDE DEF t
<1>14. t = b
  BY <1>11, <1>12, <1>13, SeqEqual
<1> QED BY <1>6, <1>8, <1>14 DEF t, w

\* How many slices a frame says it has, and what its words are made of.
SlicesSaid(length, layout) == IF layout <= 0 THEN 0 ELSE Min({layout, length})
PartsOf(length, layout) == Largest(SlicesSaid(length, layout), 1)
PartSent(length, layout, i) ==
  IF layout <= 0 THEN Padded(Bytes(0, length)) ELSE SliceOf(length, i - 1, Min({layout, length}))

LEMMA WordsAre ==
  ASSUME NEW length \in Nat \ {0}, NEW layout \in Int
  PROVE  /\ Words(length, layout) \in Seq(Seq(Signs))
         /\ Len(Words(length, layout)) = PartsOf(length, layout)
         /\ layout > 0 => PartsOf(length, layout) = SlicesSaid(length, layout)
         /\ SlicesSaid(length, layout) \in Nat
         /\ \A i \in 1 .. PartsOf(length, layout) :
              LET word == Words(length, layout)[i]
                  part == PartSent(length, layout, i)
              IN /\ word \in Seq(Signs) /\ part \in Seq(Signs)
                 /\ layout <= 0 => word = part /\ DataShards(word) = DivCeil(length, ShardSize)
                 /\ layout > 0 => /\ SubSeq(word, Prefix + 1, Prefix + word[1][2]) = part
                                  /\ DataShards(word) = SliceDataShards(Len(part))
                                  /\ Len(part) \in 0 .. DivCeil(length, layout)
PROOF
<1>1. CASE layout <= 0
  <2> DEFINE whole == Padded(Bytes(0, length))
  <2>1. Bytes(0, length) \in Seq(Signs) /\ Len(Bytes(0, length)) = length
    BY BytesAre, 0 \in Nat, 0 <= length, length - 0 = length
  <2>2. whole \in Seq(Signs) /\ DataShards(whole) = DivCeil(length, ShardSize)
    BY <2>1, PaddedIs
  <2>3. Words(length, layout) = <<whole>>
    BY <1>1 DEF Words
  <2>4. SlicesSaid(length, layout) = 0 /\ PartsOf(length, layout) = 1
    BY <1>1 DEF SlicesSaid, PartsOf, Largest
  <2>5. \A i : PartSent(length, layout, i) = whole
    BY <1>1 DEF PartSent
  <2> HIDE DEF whole
  <2>6. ~(layout > 0)
    BY <1>1
  <2>7. <<whole>> \in Seq(Seq(Signs)) /\ Len(<<whole>>) = 1 /\ <<whole>>[1] = whole
    BY <2>2
  <2>8. \A i \in 1 .. 1 : i = 1
    OBVIOUS
  <2> QED BY <2>2, <2>3, <2>4, <2>5, <2>6, <2>7, <2>8
<1>2. CASE layout > 0
  <2> DEFINE n == Min({layout, length})
             slice(i) == SliceOf(length, i - 1, n)
             word(i) == Padded(Prefixed(slice(i)))
             words == [i \in 1 .. n |-> word(i)]
  <2>1. layout \in Nat /\ n = IF layout <= length THEN layout ELSE length
    BY <1>2, LeastOfTwo
  <2>2. n \in 1 .. length /\ n \in Nat /\ (n = layout \/ (n = length /\ length < layout))
    BY <1>2, <2>1
  <2>3. Words(length, layout) = words
    <3>1. ~(layout <= 0)
      BY <1>2
    <3> QED BY <3>1, Zenon DEF Words
  <2>4. SlicesSaid(length, layout) = n /\ \A i : PartSent(length, layout, i) = slice(i)
    BY <1>2 DEF SlicesSaid, PartSent
  <2>5. PartsOf(length, layout) = n
    BY <2>2, <2>4 DEF PartsOf, Largest
  <2> HIDE DEF n
  <2>6. ASSUME NEW i \in 1 .. n
        PROVE  slice(i) \in Seq(Signs) /\ Len(slice(i)) \in 0 .. DivCeil(length, layout)
    <3>1. i - 1 \in 0 .. n - 1
      BY <2>2
    <3> DEFINE from == Start(length, n, i - 1)
               to == Start(length, n, (i - 1) + 1)
    <3>2. from \in Nat /\ to \in Nat /\ from <= to /\ to - from <= DivCeil(length, n)
          /\ SliceOf(length, i - 1, n) = Bytes(from, to)
      BY <2>2, <3>1, SlicesSideBySide
    <3> HIDE DEF from, to
    <3>3. slice(i) \in Seq(Signs) /\ Len(slice(i)) = to - from
      BY <3>2, BytesAre
    <3>4. DivCeil(length, n) \in Nat /\ DivCeil(length, layout) \in Nat /\ DivCeil(length, layout) > 0
      <4>1. n \in Nat \ {0} /\ layout \in Nat \ {0} /\ length > 0
        BY <1>2, <2>1, <2>2
      <4> QED BY <4>1, DividedUp
    <3>5. DivCeil(length, n) <= DivCeil(length, layout)
      <4>1. CASE n = layout
        BY <3>4, <4>1
      <4>2. CASE n = length
        <5>1. length <= length * 1 /\ 1 \in Nat
          OBVIOUS
        <5>2. DivCeil(length, length) <= 1
          BY <5>1, UpLeast
        <5> QED BY <3>4, <4>2, <5>2
      <4> QED BY <2>2, <4>1, <4>2
    <3> QED BY <3>2, <3>3, <3>4, <3>5
  <2> HIDE DEF slice
  <2>7. ASSUME NEW i \in 1 .. n
        PROVE  /\ words[i] = word(i) /\ word(i) \in Seq(Signs)
               /\ SubSeq(word(i), Prefix + 1, Prefix + word(i)[1][2]) = slice(i)
               /\ DataShards(word(i)) = SliceDataShards(Len(slice(i)))
    <3>1. words[i] = word(i)
      OBVIOUS
    <3>2. Prefixed(slice(i)) \in Seq(Signs)
      BY <2>6, PrefixedIs
    <3> QED BY <2>6, <3>1, <3>2, PaddedIs, SliceWordIs
  <2>8. words \in Seq(Seq(Signs)) /\ Len(words) = n
    <3>1. words \in [1 .. n -> Seq(Signs)]
      BY <2>7
    <3> QED BY <2>2, <3>1, IsSequence
  <2>9. ~(layout <= 0) /\ n \in Nat
    BY <1>2, <2>2
  <2> HIDE DEF words, word
  <2> QED BY <2>3, <2>4, <2>5, <2>6, <2>7, <2>8, <2>9
<1> QED BY <1>1, <1>2

LEMMA ShardsTotal ==
  ASSUME redundancy \in 0 .. 100, NEW word, DataShards(word) \in Nat, NEW layout
  PROVE  /\ TotalShards(word, layout) \in Nat
         /\ ParityFor(DataShards(word)) \in Nat \ {0}
PROOF
<1>1. ParityFor(DataShards(word)) \in Nat \ {0}
  BY ParityGrows, DataShards(word) <= DataShards(word)
<1> QED BY <1>1 DEF TotalShards

\* A packet of a frame says to which slice it belongs, and a word of it gives that slice.
Sound(p) ==
  /\ p.slices \in Nat /\ p.slice \in 0 .. Largest(p.slices, 1) - 1
  /\ p.total \in Nat \ {0} /\ p.data \in Nat /\ p.shard \in Nat
  /\ Reconstructed(p) \in Seq(Signs)

LEMMA PacketsAre ==
  ASSUME redundancy \in 0 .. 100, NEW k, NEW length \in Nat, NEW layout \in Int,
         NEW p \in PacketsOf(k, length, layout)
  PROVE  /\ Sound(p) /\ p.frame = k /\ length > 0
         /\ p.slices = SlicesSaid(length, layout)
         /\ Reconstructed(p) = PartSent(length, layout, p.slice + 1)
PROOF
<1> DEFINE words == Words(length, layout)
           shards(i) == TotalShards(words[i], layout)
           said == IF layout <= 0 THEN 0 ELSE Len(words)
<1>1. /\ length # 0
      /\ p \in UNION {{Header(k, i - 1, said, s, shards(i), words[i]) : s \in 0 .. shards(i) - 1} : i \in 1 .. Len(words)}
  BY DEF PacketsOf
<1>2. PICK i \in 1 .. Len(words) : \E s \in 0 .. shards(i) - 1 : p = Header(k, i - 1, said, s, shards(i), words[i])
  BY <1>1
<1>3. PICK s \in 0 .. shards(i) - 1 : p = Header(k, i - 1, said, s, shards(i), words[i])
  BY <1>2
<1>4. length \in Nat \ {0}
  BY <1>1
<1> DEFINE n == PartsOf(length, layout)
<1>5. /\ Len(words) = n
      /\ layout > 0 => n = SlicesSaid(length, layout)
      /\ SlicesSaid(length, layout) \in Nat
      /\ layout <= 0 => words[i] = PartSent(length, layout, i) /\ DataShards(words[i]) = DivCeil(length, ShardSize)
      /\ layout > 0 => /\ SubSeq(words[i], Prefix + 1, Prefix + words[i][1][2]) = PartSent(length, layout, i)
                       /\ DataShards(words[i]) = SliceDataShards(Len(PartSent(length, layout, i)))
                       /\ Len(PartSent(length, layout, i)) \in Nat
      /\ PartSent(length, layout, i) \in Seq(Signs)
  <2>1. Len(words) = n
    BY <1>4, WordsAre
  <2>2. i \in 1 .. n
    BY <1>2, <2>1
  <2>3. /\ layout > 0 => n = SlicesSaid(length, layout)
        /\ SlicesSaid(length, layout) \in Nat
    BY <1>4, WordsAre
  <2>4. /\ layout <= 0 => words[i] = PartSent(length, layout, i) /\ DataShards(words[i]) = DivCeil(length, ShardSize)
        /\ layout > 0 => /\ SubSeq(words[i], Prefix + 1, Prefix + words[i][1][2]) = PartSent(length, layout, i)
                         /\ DataShards(words[i]) = SliceDataShards(Len(PartSent(length, layout, i)))
        /\ PartSent(length, layout, i) \in Seq(Signs)
    BY <1>4, <2>2, WordsAre
  <2>5. Len(PartSent(length, layout, i)) \in Nat
    BY <2>4
  <2> QED BY <2>1, <2>3, <2>4, <2>5
<1>6. said = SlicesSaid(length, layout) /\ (said = 0 <=> layout <= 0) /\ i \in 1 .. Largest(said, 1)
  <2>1. CASE layout <= 0
    BY <1>2, <1>5, <2>1 DEF SlicesSaid, PartsOf
  <2>2. CASE layout > 0
    BY <1>2, <1>5, <2>2 DEF SlicesSaid, PartsOf, Largest
  <2> QED BY <2>1, <2>2
<1>7. DataShards(words[i]) \in Nat
  <2>1. ShardSize \in Nat \ {0} /\ Prefix \in Nat
    BY ShardsAssumption
  <2>2. CASE layout <= 0
    <3>1. DivCeil(length, ShardSize) \in Nat
      BY <1>4, <2>1, DividedUp
    <3> QED BY <1>5, <2>2, <3>1
  <2>3. CASE layout > 0
    <3> DEFINE own == Len(PartSent(length, layout, i)) + Prefix
    <3>1. own \in Nat
      BY <1>5, <2>1, <2>3
    <3> HIDE DEF own
    <3>2. DivCeil(own, ShardSize) \in Nat
      BY <2>1, <3>1, DividedUp
    <3> QED BY <1>5, <2>3, <3>2 DEF SliceDataShards, own
  <2> QED BY <2>2, <2>3
<1>8. shards(i) \in Nat
  BY <1>7, ShardsTotal
<1> HIDE DEF words, shards, said, n
<1>9. /\ p.frame = k /\ p.slice = i - 1 /\ p.slices = said /\ p.shard = s /\ p.total = shards(i)
      /\ p.data = DataShards(words[i]) /\ p.word = words[i]
  BY <1>3 DEF Header
<1>10. Reconstructed(p) = PartSent(length, layout, i)
  BY <1>5, <1>6, <1>9 DEF Reconstructed
<1>11. i \in Nat \ {0} /\ i - 1 \in 0 .. Largest(said, 1) - 1 /\ p.slice + 1 = i
  <2>1. said \in Nat
    BY <1>5, <1>6
  <2> QED BY <1>6, <1>9, <2>1 DEF Largest
<1>12. s \in Nat /\ shards(i) \in Nat \ {0}
  BY <1>8
<1> QED BY <1>4, <1>5, <1>6, <1>7, <1>9, <1>10, <1>11, <1>12 DEF Sound

\* choose_fec_layout() and FrameFecEncoder::encode(): a frame that fits the headers is sent.
LEMMA ChosenIsSent ==
  ASSUME redundancy \in 0 .. 100, slicing \in Slicings, NEW k, NEW length \in Nat \ {0},
         DivCeil(length, ShardSize) <= FrameShards
  PROVE  PacketsOf(k, length, Layout(length)) # {}
PROOF
<1> DEFINE layout == Layout(length)
           words == Words(length, layout)
           shards(i) == TotalShards(words[i], layout)
           limit == IF layout > 0 THEN WordShards ELSE FrameShards
           said == IF layout <= 0 THEN 0 ELSE Len(words)
           part(i) == PartSent(length, layout, i)
<1>0. /\ ShardSize \in Nat \ {0} /\ Prefix \in Nat \ {0} /\ WordShards \in Nat \ {0} /\ FrameShards \in Nat \ {0}
      /\ WordShards <= FrameShards /\ MaxSlices \in Nat
  BY ShardsAssumption
<1>1. /\ layout \in -1 .. MaxSlices
      /\ layout = 0 => DivCeil(length, ShardSize) <= MaxDataShards
      /\ layout > 0 => SliceDataShards(DivCeil(length, layout)) <= MaxDataShards
  BY LayoutFits
<1>2. layout \in Int /\ (layout = 0 \/ layout = -1 \/ layout > 0)
  BY <1>0, <1>1
<1> HIDE DEF layout
<1>3. /\ Len(words) = PartsOf(length, layout)
      /\ \A i \in 1 .. Len(words) :
           /\ layout <= 0 => DataShards(words[i]) = DivCeil(length, ShardSize)
           /\ layout > 0 => /\ DataShards(words[i]) = SliceDataShards(Len(part(i)))
                            /\ Len(part(i)) \in 0 .. DivCeil(length, layout)
  BY <1>2, WordsAre
<1>4. Len(words) \in Nat \ {0}
  <2>1. SlicesSaid(length, layout) \in Nat
    BY <1>2, WordsAre
  <2> QED BY <1>3, <2>1 DEF PartsOf, Largest
<1>5. MaxDataShards \in 0 .. WordShards /\ \A d \in 1 .. MaxDataShards : d + ParityFor(d) <= WordShards
  BY FewerShardsFit
<1>6. ASSUME NEW i \in 1 .. Len(words) PROVE shards(i) \in 1 .. limit
  <2> DEFINE d == DataShards(words[i])
  <2>1. CASE layout = -1
    <3>1. d = DivCeil(length, ShardSize)
      BY <1>3, <2>1
    <3>2. d \in Nat /\ d > 0
      BY <1>0, <3>1, DividedUp
    <3>3. shards(i) = d
      BY <2>1 DEF TotalShards
    <3> QED BY <1>0, <2>1, <3>1, <3>2, <3>3
  <2>2. CASE layout = 0
    <3>1. d = DivCeil(length, ShardSize)
      BY <1>3, <2>2
    <3>2. d \in Nat /\ d > 0
      BY <1>0, <3>1, DividedUp
    <3>3. d \in 1 .. MaxDataShards
      BY <1>0, <1>1, <1>5, <2>2, <3>1, <3>2
    <3>4. d + ParityFor(d) <= WordShards /\ ParityFor(d) \in Nat \ {0}
      BY <1>5, <3>2, <3>3, ShardsTotal
    <3>5. shards(i) = d + ParityFor(d)
      BY <2>2, <3>4 DEF TotalShards, Fits
    <3> HIDE DEF d, shards
    <3> QED BY <1>0, <2>2, <3>2, <3>4, <3>5
  <2>3. CASE layout > 0
    <3>1. d = SliceDataShards(Len(part(i))) /\ Len(part(i)) \in 0 .. DivCeil(length, layout)
      BY <1>3, <2>3
    <3>2. DivCeil(length, layout) \in Nat
      <4>1. layout \in Nat \ {0}
        BY <1>2, <2>3
      <4> QED BY <4>1, DividedUp
    <3> DEFINE own == Len(part(i)) + Prefix
               most == DivCeil(length, layout) + Prefix
    <3>3. own \in Nat /\ own > 0 /\ most \in Nat /\ own <= most
      BY <1>0, <3>1, <3>2
    <3>4. d = DivCeil(own, ShardSize) /\ SliceDataShards(DivCeil(length, layout)) = DivCeil(most, ShardSize)
      BY <3>1 DEF SliceDataShards
    <3> HIDE DEF own, most, d
    <3>5. d \in Nat /\ d > 0 /\ d <= DivCeil(most, ShardSize) /\ DivCeil(most, ShardSize) \in Nat
      BY <1>0, <3>3, <3>4, DividedUp, UpGrows
    <3>6. d \in 1 .. MaxDataShards
      BY <1>0, <1>1, <1>5, <2>3, <3>4, <3>5
    <3>7. d + ParityFor(d) <= WordShards /\ ParityFor(d) \in Nat \ {0}
      BY <1>5, <3>5, <3>6, ShardsTotal DEF d
    <3>8. shards(i) = d + ParityFor(d)
      BY <2>3 DEF TotalShards, d
    <3> HIDE DEF shards
    <3> QED BY <1>0, <2>3, <3>5, <3>7, <3>8
  <2> QED BY <1>2, <2>1, <2>2, <2>3
<1> HIDE DEF words, shards
<1>7. ~(length = 0 \/ \E i \in 1 .. Len(words) : ~(shards(i) <= limit))
  <2> HIDE DEF limit
  <2>1. limit \in Nat
    BY <1>0 DEF limit
  <2> QED BY <1>6, <2>1
<1>8. PacketsOf(k, length, layout)
        = UNION {{Header(k, i - 1, said, s, shards(i), words[i]) : s \in 0 .. shards(i) - 1} : i \in 1 .. Len(words)}
  BY <1>7, Zenon DEF PacketsOf, words, shards, limit, said
<1>9. 1 \in 1 .. Len(words) /\ 0 \in 0 .. shards(1) - 1
  <2>1. 1 \in 1 .. Len(words)
    BY <1>4
  <2> QED BY <1>0, <1>6, <2>1
<1>10. Header(k, 1 - 1, said, 0, shards(1), words[1]) \in PacketsOf(k, length, layout)
  BY <1>8, <1>9
<1> QED BY <1>10 DEF layout

-----------------------------------------------------------------------------
(* The reassembler: its groups hold what the packets of one frame brought. *)

FrameSent ==
  IF frame.layout <= 0 THEN Padded(Bytes(0, frame.length)) ELSE Bytes(0, frame.length)

LEMMA PartsJoin ==
  ASSUME NEW length \in Nat \ {0}, NEW layout \in Int
  PROVE  FlattenSeq([i \in 1 .. PartsOf(length, layout) |-> PartSent(length, layout, i)])
           = IF layout <= 0 THEN Padded(Bytes(0, length)) ELSE Bytes(0, length)
PROOF
<1>1. CASE layout <= 0
  <2> DEFINE whole == Padded(Bytes(0, length))
             s == [i \in 1 .. 1 |-> whole]
  <2>1. PartsOf(length, layout) = 1 /\ \A i : PartSent(length, layout, i) = whole
    BY <1>1 DEF PartsOf, SlicesSaid, PartSent, Largest
  <2> HIDE DEF whole
  <2>2. s \in [1 .. 1 -> {whole}] /\ s[1] = whole
    OBVIOUS
  <2>3. \A i \in 1 .. 1 : s[i] = IF i = 1 THEN s[i] ELSE s[i - 1] \o s[i]
    BY \A i \in 1 .. 1 : i = 1
  <2> HIDE DEF s
  <2>4. FlattenSeq(s) = s[1]
    <3> DEFINE one == 1
    <3>1. /\ one \in Nat \ {0} /\ s \in [1 .. one -> {whole}]
          /\ \A i \in 1 .. one : s[i] = IF i = 1 THEN s[i] ELSE s[i - 1] \o s[i]
      BY <2>2, <2>3
    <3> HIDE DEF one
    <3>2. FlattenSeq(s) = s[one]
      BY <3>1, Flattened
    <3> QED BY <3>2 DEF one
  <2>5. FlattenSeq(s) = whole
    BY <2>2, <2>4
  <2>6. [i \in 1 .. PartsOf(length, layout) |-> PartSent(length, layout, i)] = s
    BY <2>1 DEF s
  <2> QED BY <1>1, <2>5, <2>6 DEF whole
<1>2. CASE layout > 0
  <2> DEFINE n == Min({layout, length})
  <2>1. n \in 1 .. length
    BY <1>2, layout \in Nat, LeastOfTwo
  <2>2. ~(layout <= 0) /\ SlicesSaid(length, layout) = n
    BY <1>2 DEF SlicesSaid
  <2>3. PartsOf(length, layout) = n
    BY <2>1, <2>2 DEF PartsOf, Largest
  <2>4. \A i : PartSent(length, layout, i) = SliceOf(length, i - 1, n)
    BY <2>2 DEF PartSent
  <2> HIDE DEF n
  <2>5. FlattenSeq([i \in 1 .. n |-> SliceOf(length, i - 1, n)]) = Bytes(0, length)
    BY <2>1, SlicesJoin
  <2>6. [i \in 1 .. PartsOf(length, layout) |-> PartSent(length, layout, i)]
          = [i \in 1 .. n |-> SliceOf(length, i - 1, n)]
    BY <2>3, <2>4
  <2> QED BY <2>2, <2>5, <2>6
<1> QED BY <1>1, <1>2

ShardGroups == [total : Nat, data : Nat, shards : SUBSET Nat, decoded : BOOLEAN, bytes : Seq(Signs)]

\* A group that heard of its slice is decoded exactly when it has enough shards.
GroupSound(g) ==
  /\ IsFiniteSet(g.shards)
  /\ g.decoded => g.total > 0
  /\ g.total > 0 => (g.decoded <=> Cardinality(g.shards) >= g.data)

\* A frame that is filled has the slices its packets speak of, and of the last frame sent it has what
\* was sent.
FillingSound(f) ==
  /\ f \in [frame : 1 .. frame.index, slices : Nat, groups : [1 .. Largest(f.slices, 1) -> ShardGroups],
            delivered : BOOLEAN]
  /\ \A i \in 1 .. Largest(f.slices, 1) : GroupSound(f.groups[i])
  /\ f.delivered <=> \A i \in 1 .. Largest(f.slices, 1) : f.groups[i].decoded
  /\ f.delivered => \E o \in out : o.index = f.frame
  /\ \A p \in packets : p.frame = f.frame => p.slices = f.slices
  /\ f.frame = frame.index =>
       /\ frame.length > 0 /\ f.slices = SlicesSaid(frame.length, frame.layout)
       /\ \A i \in 1 .. Largest(f.slices, 1) :
            f.groups[i].decoded => f.groups[i].bytes = PartSent(frame.length, frame.layout, i)

FecTyped ==
  /\ redundancy \in 0 .. 100 /\ slicing \in Slicings
  /\ frame \in [index : Nat, length : Nat, layout : -1 .. MaxSlices, sent : BOOLEAN]

PacketsSound ==
  /\ \A p \in packets :
       /\ Sound(p) /\ p.frame \in 1 .. frame.index
       /\ p.frame = frame.index =>
            /\ frame.length > 0 /\ p.slices = SlicesSaid(frame.length, frame.layout)
            /\ Reconstructed(p) = PartSent(frame.length, frame.layout, p.slice + 1)
  /\ \A p, q \in packets : p.frame = q.frame => p.slices = q.slices

OutSound == \A o \in out : o.index \in 1 .. frame.index /\ (o.index = frame.index => o.bytes = FrameSent)

FecInv ==
  /\ FecTyped /\ PacketsSound /\ OutSound /\ ChosenLayoutCodes
  /\ filling # <<>> => FillingSound(filling)

LEMMA FecInvInit == FecInit => FecInv
PROOF
<1> SUFFICES ASSUME FecInit PROVE FecInv
  OBVIOUS
<1>1. FecTyped
  BY ShardsAssumption DEF FecInit, FecTyped, Slicings
<1>2. PacketsSound /\ OutSound /\ ChosenLayoutCodes
  BY DEF FecInit, PacketsSound, OutSound, ChosenLayoutCodes
<1> QED BY <1>1, <1>2 DEF FecInit, FecInv

\* EncodeFrame(): the frame before is no longer the last one.
LEMMA FrameIsEncoded ==
  ASSUME FecInv, NEW length \in 0 .. MaxLength, EncodeFrame(length)
  PROVE  FecInv'
PROOF
<1> DEFINE layout == Layout(length)
           k == frame.index + 1
           sent == PacketsOf(k, length, layout)
<1>1. /\ frame' = [index |-> k, length |-> length, layout |-> layout, sent |-> sent # {}]
      /\ packets' = {p \in packets : p.frame = frame.index} \cup sent
      /\ redundancy' = redundancy /\ slicing' = slicing /\ filling' = filling /\ out' = out
  BY Zenon DEF EncodeFrame
<1>2. length \in Nat /\ MaxSlices \in Nat
  BY ShardsAssumption
<1>3. redundancy \in 0 .. 100 /\ slicing \in Slicings /\ frame.index \in Nat /\ k \in Nat /\ k > frame.index
  BY DEF FecInv, FecTyped
<1>4. layout \in -1 .. MaxSlices
  BY <1>2, <1>3, LayoutFits
<1> HIDE DEF layout, k
<1>5. ASSUME NEW p \in sent
      PROVE  /\ Sound(p) /\ p.frame = k /\ length > 0 /\ p.slices = SlicesSaid(length, layout)
             /\ Reconstructed(p) = PartSent(length, layout, p.slice + 1)
  <2>1. layout \in Int
    BY <1>2, <1>4
  <2> QED BY <1>2, <1>3, <2>1, PacketsAre
<1>6. length > 0 /\ DivCeil(length, ShardSize) <= FrameShards => sent # {}
  BY <1>2, <1>3, ChosenIsSent DEF layout
<1> HIDE DEF sent
<1>7. frame'.index = k /\ frame'.length = length /\ frame'.layout = layout /\ frame'.sent = (sent # {})
  BY <1>1
<1>8. FecTyped'
  BY <1>1, <1>2, <1>3, <1>4 DEF FecTyped, Slicings
<1>9. ASSUME NEW p \in packets, p.frame = frame.index
      PROVE  Sound(p) /\ p.frame \in 1 .. k /\ p.frame # k
  <2>1. Sound(p) /\ p.frame \in 1 .. frame.index
    BY DEF FecInv, PacketsSound
  <2> QED BY <1>3, <2>1
<1>10. PacketsSound'
  <2>1. ASSUME NEW p \in packets'
        PROVE  /\ Sound(p) /\ p.frame \in 1 .. k
               /\ p.frame = k => /\ length > 0 /\ p.slices = SlicesSaid(length, layout)
                                 /\ Reconstructed(p) = PartSent(length, layout, p.slice + 1)
    <3>1. CASE p \in sent
      BY <1>3, <1>5, <3>1
    <3>2. CASE p \in packets /\ p.frame = frame.index
      BY <1>9, <3>2
    <3> QED BY <1>1, <3>1, <3>2
  <2>2. ASSUME NEW p \in packets', NEW q \in packets', p.frame = q.frame PROVE p.slices = q.slices
    <3>1. CASE p \in sent /\ q \in sent
      BY <1>5, <3>1
    <3>2. CASE p \in packets /\ q \in packets
      BY <2>2, <3>2 DEF FecInv, PacketsSound
    <3>3. CASE p \in sent /\ q \notin sent
      BY <1>1, <1>5, <1>9, <2>2, <3>3
    <3>4. CASE p \notin sent /\ q \in sent
      BY <1>1, <1>5, <1>9, <2>2, <3>4
    <3> QED BY <1>1, <3>1, <3>2, <3>3, <3>4
  <2> QED BY <1>7, <2>1, <2>2, Zenon DEF PacketsSound, Sound, Reconstructed
<1>11. OutSound'
  <2> SUFFICES ASSUME NEW o \in out PROVE o.index \in 1 .. k /\ o.index # k
    BY <1>1, <1>7 DEF OutSound
  <2>1. o.index \in 1 .. frame.index
    BY DEF FecInv, OutSound
  <2> QED BY <1>3, <2>1
<1>12. ChosenLayoutCodes'
  BY <1>6, <1>7 DEF ChosenLayoutCodes
<1>13. ASSUME filling # <<>> PROVE FillingSound(filling)'
  <2> DEFINE f == filling
  <2>1. FillingSound(f)
    BY <1>13 DEF FecInv
  <2>2. f' = f
    BY <1>1
  <2>3. f.frame \in 1 .. frame.index
    BY <2>1 DEF FillingSound
  <2>4. f.frame \in 1 .. k /\ f.frame # k
    BY <1>3, <2>3
  <2>5. f \in [frame : 1 .. k, slices : Nat, groups : [1 .. Largest(f.slices, 1) -> ShardGroups], delivered : BOOLEAN]
    <3>1. 1 .. frame.index \subseteq 1 .. k
      BY <1>3
    <3> QED BY <2>1, <2>4, <3>1 DEF FillingSound
  <2>6. \A p \in packets' : p.frame = f.frame => p.slices = f.slices
    BY <1>1, <1>5, <2>1, <2>4 DEF FillingSound
  <2> QED BY <1>1, <1>7, <2>1, <2>2, <2>4, <2>5, <2>6 DEF FillingSound, GroupSound
<1> QED BY <1>1, <1>8, <1>10, <1>11, <1>12, <1>13 DEF FecInv

LEMMA NewGroupSound == NewGroup \in ShardGroups /\ GroupSound(NewGroup) /\ ~NewGroup.decoded
PROOF
<1>1. <<>> \in Seq(Signs) /\ {} \in SUBSET Nat /\ IsFiniteSet({})
  BY EmptySeq, FS_EmptySet
<1> QED BY <1>1 DEF NewGroup, ShardGroups, GroupSound

\* The frame a packet belongs to, as the reassembler has it then.
LEMMA PendingSound ==
  ASSUME FecInv, NEW p \in packets
  PROVE  FillingSound(PendingFor(p)) /\ PendingFor(p).frame = p.frame /\ PendingFor(p).slices = p.slices
PROOF
<1>1. Sound(p) /\ p.frame \in 1 .. frame.index
  BY DEF FecInv, PacketsSound
<1>2. CASE filling # <<>> /\ filling.frame = p.frame
  <2>1. PendingFor(p) = filling /\ FillingSound(filling)
    BY <1>2 DEF PendingFor, FecInv
  <2> QED BY <1>2, <2>1 DEF FillingSound
<1>3. CASE ~(filling # <<>> /\ filling.frame = p.frame)
  <2> DEFINE n == Largest(p.slices, 1)
             f == [frame |-> p.frame, slices |-> p.slices, groups |-> [i \in 1 .. n |-> NewGroup], delivered |-> FALSE]
  <2>1. PendingFor(p) = f
    BY <1>3 DEF PendingFor
  <2>2. p.slices \in Nat /\ n \in Nat \ {0}
    BY <1>1 DEF Sound, Largest
  <2>3. /\ f.frame = p.frame /\ f.slices = p.slices /\ f.delivered = FALSE
        /\ Largest(f.slices, 1) = n
        /\ \A i \in 1 .. n : f.groups[i] = NewGroup
    OBVIOUS
  <2>4. f \in [frame : 1 .. frame.index, slices : Nat, groups : [1 .. n -> ShardGroups], delivered : BOOLEAN]
    BY <1>1, <2>2, NewGroupSound
  <2>5. 1 \in 1 .. n
    BY <2>2
  <2> HIDE DEF f, n
  <2>6. \A q \in packets : q.frame = p.frame => q.slices = p.slices
    BY DEF FecInv, PacketsSound
  <2>7. p.frame = frame.index => frame.length > 0 /\ p.slices = SlicesSaid(frame.length, frame.layout)
    BY DEF FecInv, PacketsSound
  <2>8. FillingSound(f)
    BY <2>3, <2>4, <2>5, <2>6, <2>7, NewGroupSound DEF FillingSound
  <2> QED BY <2>1, <2>3, <2>8
<1> QED BY <1>2, <1>3

\* ShardGroup::accept() and reconstruct().
LEMMA ShardIsStored ==
  ASSUME NEW g \in ShardGroups, GroupSound(g), NEW p, Sound(p), Accepts(g, p)
  PROVE  /\ Stored(g, p) \in ShardGroups /\ GroupSound(Stored(g, p))
         /\ Stored(g, p).decoded => Stored(g, p).bytes = Reconstructed(p)
PROOF
<1> DEFINE shards == g.shards \cup {p.shard}
           complete == Cardinality(shards) >= p.data
<1>1. g.shards \in SUBSET Nat /\ IsFiniteSet(g.shards)
  BY DEF ShardGroups, GroupSound
<1>2. shards \in SUBSET Nat /\ IsFiniteSet(shards)
  BY <1>1, FS_AddElement DEF Sound
<1>3. Cardinality(shards) \in Nat
  BY <1>2, FS_CardinalityType
<1>4. Stored(g, p) = [total |-> p.total, data |-> p.data, shards |-> shards, decoded |-> complete,
                      bytes |-> IF complete THEN Reconstructed(p) ELSE <<>>]
  BY Zenon DEF Stored
<1>5. complete \in BOOLEAN
  OBVIOUS
<1>6. <<>> \in Seq(Signs)
  BY EmptySeq
<1>7. p.total \in Nat /\ p.total > 0 /\ p.data \in Nat /\ Reconstructed(p) \in Seq(Signs)
  BY DEF Sound
<1> HIDE DEF shards
<1>8. Stored(g, p) \in ShardGroups
  BY <1>2, <1>4, <1>6, <1>7 DEF ShardGroups
<1> HIDE DEF complete
<1>9. /\ Stored(g, p).total = p.total /\ Stored(g, p).data = p.data /\ Stored(g, p).shards = shards
      /\ Stored(g, p).decoded = complete
      /\ complete => Stored(g, p).bytes = Reconstructed(p)
  BY <1>4
<1>10. Stored(g, p).decoded <=> Cardinality(Stored(g, p).shards) >= Stored(g, p).data
  BY <1>9 DEF complete
<1>11. GroupSound(Stored(g, p))
  BY <1>2, <1>7, <1>9, <1>10 DEF GroupSound
<1> QED BY <1>8, <1>9, <1>11

\* feed()
LEMMA PacketIsFed ==
  ASSUME FecInv, NEW p \in packets, Feed(p)
  PROVE  FecInv'
PROOF
<1> DEFINE now == PendingFor(p)
           at == p.slice + 1
           stored == [now EXCEPT !.groups[at] = Stored(@, p)]
           whole == \A i \in DOMAIN stored.groups : stored.groups[i].decoded
           bytes == FlattenSeq([i \in DOMAIN stored.groups |-> stored.groups[i].bytes])
           n == Largest(now.slices, 1)
<1>1. FillingSound(now) /\ now.frame = p.frame /\ now.slices = p.slices
  BY PendingSound
<1>2. /\ redundancy' = redundancy /\ slicing' = slicing /\ frame' = frame /\ packets' = packets
      /\ \/ filling' = now /\ out' = out
         \/ /\ ~now.delivered /\ ~now.groups[at].decoded /\ Accepts(now.groups[at], p)
            /\ filling' = [stored EXCEPT !.delivered = whole]
            /\ out' = IF whole THEN out \cup {[index |-> p.frame, bytes |-> bytes]} ELSE out
  BY Zenon DEF Feed
<1>3. /\ Sound(p) /\ p.frame \in 1 .. frame.index
      /\ p.frame = frame.index =>
           /\ frame.length > 0 /\ p.slices = SlicesSaid(frame.length, frame.layout)
           /\ Reconstructed(p) = PartSent(frame.length, frame.layout, at)
  BY DEF FecInv, PacketsSound
<1> HIDE DEF now
<1>4. FecTyped' /\ PacketsSound' /\ ChosenLayoutCodes'
  BY <1>2 DEF FecInv, FecTyped, Slicings, PacketsSound, Sound, Reconstructed, ChosenLayoutCodes
<1>5. CASE filling' = now /\ out' = out
  <2>1. FillingSound(filling)'
    BY <1>1, <1>2, <1>5 DEF FillingSound, GroupSound
  <2>2. OutSound'
    BY <1>2, <1>5 DEF FecInv, OutSound, FrameSent
  <2> QED BY <1>4, <2>1, <2>2 DEF FecInv
<1>6. CASE /\ ~now.delivered /\ ~now.groups[at].decoded /\ Accepts(now.groups[at], p)
           /\ filling' = [stored EXCEPT !.delivered = whole]
           /\ out' = IF whole THEN out \cup {[index |-> p.frame, bytes |-> bytes]} ELSE out
  <2>1. n \in Nat \ {0} /\ at \in 1 .. n
    BY <1>1, <1>3 DEF Sound, Largest
  <2>2. /\ now \in [frame : 1 .. frame.index, slices : Nat, groups : [1 .. n -> ShardGroups], delivered : BOOLEAN]
        /\ \A i \in 1 .. n : GroupSound(now.groups[i])
    BY <1>1 DEF FillingSound
  <2> DEFINE new == Stored(now.groups[at], p)
  <2>3. new \in ShardGroups /\ GroupSound(new) /\ (new.decoded => new.bytes = Reconstructed(p))
    BY <1>3, <1>6, <2>1, <2>2, ShardIsStored
  <2> HIDE DEF new, n, at
  <2>4. /\ stored \in [frame : 1 .. frame.index, slices : Nat, groups : [1 .. n -> ShardGroups], delivered : BOOLEAN]
        /\ stored.frame = p.frame /\ stored.slices = p.slices
        /\ \A i \in 1 .. n : stored.groups[i] = IF i = at THEN new ELSE now.groups[i]
    BY <1>1, <2>1, <2>2, <2>3 DEF new
  <2>5. DOMAIN stored.groups = 1 .. n
    BY <2>4
  <2> HIDE DEF stored
  <2>6. \A i \in 1 .. n : GroupSound(stored.groups[i])
    BY <2>2, <2>3, <2>4
  <2>7. p.frame = frame.index => \A i \in 1 .. n :
          stored.groups[i].decoded => stored.groups[i].bytes = PartSent(frame.length, frame.layout, i)
    <3> SUFFICES ASSUME p.frame = frame.index, NEW i \in 1 .. n, stored.groups[i].decoded
                 PROVE  stored.groups[i].bytes = PartSent(frame.length, frame.layout, i)
      OBVIOUS
    <3>1. CASE i = at
      BY <1>3, <2>3, <2>4, <3>1
    <3>2. CASE i # at
      BY <1>1, <2>4, <3>2 DEF FillingSound, n
    <3> QED BY <3>1, <3>2
  <2>8. whole <=> \A i \in 1 .. n : stored.groups[i].decoded
    BY <2>5
  <2>9. whole /\ p.frame = frame.index => bytes = FrameSent
    <3> SUFFICES ASSUME whole, p.frame = frame.index PROVE bytes = FrameSent
      OBVIOUS
    <3>1. n = PartsOf(frame.length, frame.layout)
      BY <1>1, <1>3 DEF n, PartsOf
    <3>2. frame.length \in Nat \ {0} /\ frame.layout \in Int
      BY <1>3, ShardsAssumption DEF FecInv, FecTyped
    <3>3. \A i \in 1 .. n : stored.groups[i].bytes = PartSent(frame.length, frame.layout, i)
      BY <2>7, <2>8
    <3>4. bytes = FlattenSeq([i \in 1 .. n |-> PartSent(frame.length, frame.layout, i)])
      BY <2>5, <3>3
    <3> QED BY <3>1, <3>2, <3>4, PartsJoin DEF FrameSent
  <2> HIDE DEF whole, bytes
  <2>10. whole \in BOOLEAN
    BY DEF whole
  <2>11. /\ filling'.frame = p.frame /\ filling'.slices = p.slices /\ filling'.groups = stored.groups
         /\ filling'.delivered = whole
         /\ filling' \in [frame : 1 .. frame.index, slices : Nat, groups : [1 .. n -> ShardGroups], delivered : BOOLEAN]
    BY <1>6, <2>4, <2>10
  <2>12. Largest(filling'.slices, 1) = n
    BY <1>1, <2>11 DEF n
  <2>13. whole => \E o \in out' : o.index = p.frame
    <3> SUFFICES ASSUME whole PROVE \E o \in out' : o.index = p.frame
      OBVIOUS
    <3>1. [index |-> p.frame, bytes |-> bytes] \in out'
      BY <1>6
    <3> QED BY <3>1
  <2>14. /\ \A q \in packets : q.frame = p.frame => q.slices = p.slices
    BY DEF FecInv, PacketsSound
  <2>15. FillingSound(filling)'
    BY <1>2, <1>3, <2>6, <2>7, <2>8, <2>11, <2>12, <2>13, <2>14 DEF FillingSound, GroupSound
  <2>16. OutSound'
    <3> SUFFICES ASSUME NEW o \in out'
                 PROVE  o.index \in 1 .. frame.index /\ (o.index = frame.index => o.bytes = FrameSent)
      BY <1>2 DEF OutSound, FrameSent
    <3>1. CASE o \in out
      BY <3>1 DEF FecInv, OutSound
    <3>2. CASE o \notin out
      <4>1. whole /\ o = [index |-> p.frame, bytes |-> bytes]
        BY <1>6, <3>2
      <4>2. o.index = p.frame /\ o.bytes = bytes
        BY <4>1
      <4> QED BY <1>3, <2>9, <4>1, <4>2
    <3> QED BY <3>1, <3>2
  <2> QED BY <1>4, <2>15, <2>16 DEF FecInv
<1> QED BY <1>2, <1>5, <1>6

LEMMA RedundancySet ==
  ASSUME FecInv, NEW percent \in Redundancies, SetRedundancy(percent)
  PROVE  FecInv'
PROOF
<1>1. redundancy' \in 0 .. 100 /\ UNCHANGED <<slicing, frame, packets, filling, out>>
  BY ShardsAssumption DEF SetRedundancy
<1> QED BY <1>1 DEF FecInv, FecTyped, Slicings, PacketsSound, OutSound, ChosenLayoutCodes, FrameSent,
                    FillingSound, GroupSound, Sound, Reconstructed

LEMMA FecInvStep == FecInv /\ [FecNext]_fecVars => FecInv'
PROOF
<1> SUFFICES ASSUME FecInv, [FecNext]_fecVars PROVE FecInv'
  OBVIOUS
<1>1. ASSUME NEW length \in 0 .. MaxLength, EncodeFrame(length) PROVE FecInv'
  BY <1>1, FrameIsEncoded
<1>2. ASSUME NEW percent \in Redundancies, SetRedundancy(percent) PROVE FecInv'
  BY <1>2, RedundancySet
<1>3. ASSUME NEW p \in packets, Feed(p) PROVE FecInv'
  BY <1>3, PacketIsFed
<1>4. CASE UNCHANGED fecVars
  BY <1>4 DEF fecVars, FecInv, FecTyped, Slicings, PacketsSound, OutSound, ChosenLayoutCodes, FrameSent,
              FillingSound, GroupSound, Sound, Reconstructed
<1> QED BY <1>1, <1>2, <1>3, <1>4 DEF FecNext

\* Whatever packets are lost, repeated or reordered, and however the redundancy changes from frame to frame:
\* a frame that fits the headers is sent; it comes out when enough of each code word has arrived; and what
\* comes out is what went in. For any shard size, prefix, limits of a code word and of a frame, lengths and
\* slice counts (choose_fec_layout(), FrameFecEncoder::encode(), FecFrameReassembler::feed()).
THEOREM FramesAlwaysComeBack == FecSpec => []FramesComeBack
PROOF
<1>1. FecInv => FramesComeBack
  <2> SUFFICES ASSUME FecInv PROVE FramesComeBack
    OBVIOUS
  <2>1. ComesOutAsSent
    BY DEF FecInv, OutSound, FrameSent, ComesOutAsSent
  <2>2. ComesOut
    <3> SUFFICES ASSUME filling # <<>>,
                        \A i \in DOMAIN filling.groups :
                          filling.groups[i].total > 0
                          /\ Cardinality(filling.groups[i].shards) >= filling.groups[i].data
                 PROVE  \E o \in out : o.index = filling.frame
      BY DEF ComesOut
    <3>1. FillingSound(filling)
      BY DEF FecInv
    <3>2. DOMAIN filling.groups = 1 .. Largest(filling.slices, 1)
      BY <3>1 DEF FillingSound
    <3>3. \A i \in 1 .. Largest(filling.slices, 1) : filling.groups[i].decoded
      BY <3>1, <3>2 DEF FillingSound, GroupSound
    <3> QED BY <3>1, <3>3 DEF FillingSound
  <2> QED BY <2>1, <2>2 DEF FramesComeBack, FecInv
<1> QED BY <1>1, FecInvInit, FecInvStep, PTL DEF FecSpec
=============================================================================
