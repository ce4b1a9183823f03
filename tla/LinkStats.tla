------------------------------ MODULE LinkStats ------------------------------
(* What the adaptive bitrate is driven by: the RTP sequence numbers of the   *)
(* video, from the engine's send-time log to the losses that the headset     *)
(* counts and reports (VideoSender in engine.rs, rtp.rs, udp.rs,             *)
(* frame_assembler.cpp, stats_reporter.h), and the same count by the         *)
(* simulator's client (simulator/mod.rs), which tests measure losses with.   *)
(*                                                                           *)
(* Packets are numbered from 0 as they are sent; the code sees the number    *)
(* modulo 2^16. A send error loses what is left of a code word, the network  *)
(* loses, repeats and reorders, in both cases by what never arrives. The     *)
(* environment keeps what serial numbers need: no packet is half the         *)
(* sequence space older or newer than the newest that arrived.               *)
EXTENDS Integers, FiniteSets

CONSTANTS
  SeqSpace,         \* 2^16
  CountedGap,     \* kMaxCountedGap
  LogMax, LogKeep, PruneEvery,  \* SENT_LOG_MAX, SENT_LOG_KEEP, SENT_LOG_PRUNE_INTERVAL
  FrameSizes,     \* packets of a frame
  MaxSentPackets, MaxRepeats, MaxReports  \* bounds of the model

ASSUME LinkAssumption ==
  /\ SeqSpace \in Nat \ {0, 1} /\ CountedGap \in Nat
  /\ LogKeep \in Nat /\ LogMax \in Nat /\ LogKeep <= LogMax /\ LogKeep <= SeqSpace
  /\ PruneEvery \in Nat \ {0}
  /\ FrameSizes \subseteq Nat \ {0} /\ \E n \in FrameSizes : \A m \in FrameSizes : m <= n
  /\ {MaxSentPackets, MaxRepeats, MaxReports} \subseteq Nat

VARIABLES
  sender,   \* VideoSender: packets so far, frame_count, sent_packet_log
  account,  \* FrameAssembler's expected sequence, StatsReporter's counters
  reports,  \* the snapshot being taken, and what the snapshots so far add up to
  mock,     \* the simulator's client: last sequence, packets counted as lost
  arrived,  \* history: the packets that arrived, the first of them, how many came again
  charged   \* history: the packets counted as lost, skipped uncounted, wrongly counted

linkVars == <<sender, account, reports, mock, arrived, charged>>

NoSeq == -1

Seq16(packet) == packet % SeqSpace

(* The newest packet that arrived.                                           *)
Newest == IF arrived.once = {} THEN -1 ELSE CHOOSE p \in arrived.once : \A q \in arrived.once : q <= p

(* static_cast<int16_t>(a - b)                                               *)
Diff16(a, b) ==
  LET d == (a - b) % SeqSpace
  IN IF d >= SeqSpace \div 2 THEN d - SeqSpace ELSE d

(* prune_sent_packet_log_if_due(): which of the packets sent in one frame    *)
(* stay is the sort's choice.                                                *)
Pruned(log, frames) ==
  IF frames % PruneEvery # 0 \/ Cardinality(DOMAIN log) <= LogMax THEN {log}
  ELSE {[s \in kept |-> log[s]] :
          kept \in {k \in SUBSET DOMAIN log :
                      /\ Cardinality(k) = LogKeep
                      /\ \A s \in k, t \in DOMAIN log \ k : log[s] >= log[t]}}

(* record_send_timestamps(): the packets of a number sent again take its     *)
(* entry.                                                                    *)
Stamped(log, seqs, frame) == [s \in DOMAIN log \cup seqs |-> IF s \in seqs THEN frame ELSE log[s]]

(* send_frame(): the frame's packets get the next sequence numbers, and all  *)
(* of them a send time, the ones after a send error included.                *)
SendVideo ==
  \E n \in FrameSizes :
    LET sent == sender.packets..sender.packets + n - 1
        seqs == {Seq16(p) : p \in sent}
    IN /\ sender.packets + n <= MaxSentPackets
       /\ \E kept \in Pruned(Stamped(sender.log, seqs, sender.frames), sender.frames) :
            sender' = [packets |-> sender.packets + n, frames |-> sender.frames + 1, log |-> kept]
       /\ UNCHANGED <<account, reports, mock, arrived, charged>>

(* Mutant: a late packet takes the expectation back.                         *)
AccountGoesBack(a, seq) ==
  LET diff == Diff16(seq, a.expected)
      onward == [a EXCEPT !.received = @ + 1, !.expected = Seq16(seq + 1)]
  IN IF a.expected # NoSeq /\ diff \in 1..CountedGap THEN [onward EXCEPT !.lost = @ + diff] ELSE onward

(* accountSequence(): the counters and the expectation after `seq`.          *)
Account(a, seq) ==
  LET diff == Diff16(seq, a.expected)
      counted == [a EXCEPT !.received = @ + 1]
      onward == [counted EXCEPT !.expected = Seq16(seq + 1)]
  IN IF a.expected = NoSeq \/ diff = 0 THEN onward
     ELSE IF diff < 0 THEN counted
     ELSE [onward EXCEPT !.lost = @ + IF diff <= CountedGap THEN diff ELSE 0]

(* count_rtp_gap() of the simulator's client.                                *)
CountRtpGap(m, seq) ==
  LET gap == IF m.last = NoSeq THEN 0 ELSE (seq - m.last - 1) % SeqSpace
  IN IF gap >= SeqSpace \div 2 THEN m ELSE [last |-> seq, lost |-> m.lost + gap]

(* What the change of the counters says of the packets, named by number.     *)
Charge(packet) ==
  LET counted == account'.lost - account.lost
      said == packet - counted..packet - 1
      skipped == IF Newest >= 0 THEN Newest + 1..packet - 1 ELSE {}
  IN [lost |-> charged.lost \cup said,
      wide |-> charged.wide \cup (IF Cardinality(skipped) > CountedGap THEN skipped ELSE {}),
      wrong |-> charged.wrong \cup (said \cap (charged.lost \cup arrived.once))]

(* onPacket() of the headset and of the simulator's client.                  *)
VideoArrives(packet) ==
  /\ packet < sender.packets
  /\ arrived.once # {} => Newest - SeqSpace \div 2 < packet /\ packet <= Newest + SeqSpace \div 2
  /\ packet \in arrived.once => arrived.again < MaxRepeats
  /\ account' = Account(account, Seq16(packet))
  /\ mock' = CountRtpGap(mock, Seq16(packet))
  /\ arrived' = IF packet \in arrived.once THEN [arrived EXCEPT !.again = @ + 1]
                ELSE [arrived EXCEPT !.once = @ \cup {packet}, !.first = IF @ = NoSeq THEN packet ELSE @]
  /\ charged' = Charge(packet)
  /\ UNCHANGED <<sender, reports>>

(* takeSnapshot(), on the session's thread: first one counter, then the      *)
(* other; packets arrive in between.                                         *)
TakeReceived ==
  /\ reports.taken = NoSeq
  /\ reports.count < MaxReports
  /\ reports' = [reports EXCEPT !.taken = account.received]
  /\ account' = [account EXCEPT !.received = 0]
  /\ UNCHANGED <<sender, mock, arrived, charged>>

(* ... and the heartbeat with both goes out.                                 *)
TakeLost ==
  /\ reports.taken # NoSeq
  /\ reports' = [taken |-> NoSeq, count |-> reports.count + 1, received |-> reports.received + reports.taken,
                 lost |-> reports.lost + account.lost]
  /\ account' = [account EXCEPT !.lost = 0]
  /\ UNCHANGED <<sender, mock, arrived, charged>>

(* RtpPacketizer::new(): the sequence starts at 0.                           *)
NewSender == [packets |-> 0, frames |-> 0, log |-> [s \in {} |-> 0]]

LinkInit ==
  /\ sender = NewSender
  /\ account = [expected |-> NoSeq, received |-> 0, lost |-> 0]
  /\ reports = [taken |-> NoSeq, count |-> 0, received |-> 0, lost |-> 0]
  /\ mock = [last |-> NoSeq, lost |-> 0]
  /\ arrived = [once |-> {}, first |-> NoSeq, again |-> 0]
  /\ charged = [lost |-> {}, wide |-> {}, wrong |-> {}]

LinkNext ==
  \/ SendVideo
  \/ \E packet \in 0..MaxSentPackets - 1 : VideoArrives(packet)
  \/ TakeReceived
  \/ TakeLost

LinkSpec == LinkInit /\ [][LinkNext]_linkVars

(* Every packet that was skipped is charged once, unless the gap was a       *)
(* restart's, however the sequence wraps and packets come late or twice; the *)
(* heartbeats and the counters hold each received and each charged packet    *)
(* once; and the simulator's client counts the same losses and the wide gaps *)
(* (frame_assembler.cpp accountSequence(), stats_reporter.h, count_rtp_gap). *)
LossesCountedOnce ==
  /\ charged.wrong = {}
  /\ arrived.once # {} => arrived.first..Newest \subseteq arrived.once \cup charged.lost \cup charged.wide
  /\ reports.lost + account.lost = Cardinality(charged.lost)
  /\ reports.received + account.received + (IF reports.taken = NoSeq THEN 0 ELSE reports.taken)
       = Cardinality(arrived.once) + arrived.again
  /\ mock.lost = Cardinality(charged.lost \cup charged.wide)

(* Transport feedback about any of the last packets finds its send time, in  *)
(* the order they were sent, across wraps and prunings (engine.rs,           *)
(* record_send_timestamps, prune_sent_packet_log_if_due).                    *)
SentLogAnswers ==
  LET largest == CHOOSE n \in FrameSizes : \A m \in FrameSizes : m <= n
      recent == {p \in 0..sender.packets - 1 : p >= sender.packets - LogKeep + largest - 1}
  IN \A p \in recent :
       /\ Seq16(p) \in DOMAIN sender.log
       /\ \A q \in recent : q <= p => sender.log[Seq16(q)] <= sender.log[Seq16(p)]

(* What the bitrate and the delay are judged by is what happened.            *)
LinkAccounting == LossesCountedOnce /\ SentLogAnswers
==============================================================================
