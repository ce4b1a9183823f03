----------------------------- MODULE SessionStats -----------------------------
(* What a session leaves behind to look at: the latency average over the     *)
(* last frames (metrics/latency.rs) and the lines of the session log that    *)
(* show it, buffered and appended to one file per start time                 *)
(* (metrics/session_log.rs; the frame loop's branches in engine.rs).         *)
(*                                                                           *)
(* The latency tracker and the figures in the atomics outlive sessions, the  *)
(* logger does not. A latency is represented by the sessions whose frames it *)
(* averages, a line by its session and its number in it. The disk may refuse *)
(* to open a file, or take a part of what is written.                        *)
EXTENDS Integers, Sequences, FiniteSets

CONSTANTS
  Window,      \* frames in LatencyTracker's history
  FlushTicks,  \* flush_interval, in log ticks
  MaxTicks, MaxLogSessions, MaxLogFrames, MaxDiskFaults  \* bounds of the model

ASSUME StatsAssumption ==
  /\ Window \in Nat \ {0} /\ FlushTicks \in Nat
  /\ {MaxTicks, MaxLogSessions, MaxLogFrames, MaxDiskFaults} \subseteq Nat

VARIABLES
  now,       \* the clock, in log ticks
  tracker,   \* LatencyTracker.history: each frame's session; what the atomics show
  streamed,  \* the session: its number, frames sent, frames measured
  logger,    \* SessionLogger of the session: its file, buffer, last_flush
  files,     \* the lines of the file of each start time
  told,      \* history: the lines recorded for each file; TRUE in cut once some are lost
  faults     \* disk faults so far

statsVars == <<now, tracker, streamed, logger, files, told, faults>>

Shown(history) == {history[i] : i \in 1..Len(history)}

(* LatencyTracker::new(), and nothing shown of it yet.                       *)
NewTracker == [history |-> <<>>, shown |-> {}]

(* Mutant: the window grows.                                                 *)
RecordedAll(history, session) == Append(history, session)

(* LatencyTracker::record()                                                  *)
Recorded(history, session) ==
  Append(IF Len(history) >= Window THEN Tail(history) ELSE history, session)

(* Mutant: a failed write drops what was buffered.                           *)
FlushLogForgets(l, lines) ==
  {[f EXCEPT !.logger.buffer = <<>>] : f \in
     {[logger |-> l, lines |-> lines \o SubSeq(l.buffer, 1, n), fault |-> n < Len(l.buffer)] :
        n \in {k \in 0..Len(l.buffer) : faults < MaxDiskFaults \/ k = Len(l.buffer)}}}

(* SessionLogger::flush() after `buffer` was appended to: opening fails,     *)
(* writing fails after some lines, or all is written.                        *)
FlushLog(l, lines) ==
  IF l.buffer = <<>> THEN {[logger |-> l, lines |-> lines, fault |-> FALSE]}
  ELSE {[logger |-> [l EXCEPT !.buffer = <<>>, !.flushed = now], lines |-> lines \o l.buffer, fault |-> FALSE]}
         \cup {[logger |-> l, lines |-> lines \o SubSeq(l.buffer, 1, n), fault |-> TRUE] :
                 n \in {k \in 0..Len(l.buffer) : faults < MaxDiskFaults}}

Writes(f) ==
  /\ logger' = f.logger
  /\ files' = [files EXCEPT ![logger.name] = f.lines]
  /\ faults' = faults + (IF f.fault THEN 1 ELSE 0)

NoLogger == [on |-> FALSE, name |-> 0, buffer |-> <<>>, flushed |-> 0, made |-> 0]

(* run_session(): a new logger, unless its directory cannot be made.         *)
BeginLogSession ==
  /\ ~streamed.on
  /\ streamed.session < MaxLogSessions
  /\ streamed' = [on |-> TRUE, session |-> streamed.session + 1, frames |-> 0, measured |-> 0]
  /\ \/ logger' = [on |-> TRUE, name |-> now, buffer |-> <<>>, flushed |-> now, made |-> 0]
        /\ UNCHANGED faults
     \/ faults < MaxDiskFaults /\ faults' = faults + 1 /\ UNCHANGED logger
  /\ UNCHANGED <<now, tracker, files, told>>

(* send_frame() and update_latency_atomics(): try_lock fails while the       *)
(* driver reads the statistics.                                              *)
SendMeasured ==
  /\ streamed.on /\ streamed.frames < MaxLogFrames
  /\ \/ LET history == Recorded(tracker.history, streamed.session)
        IN /\ tracker' = [history |-> history, shown |-> Shown(history)]
           /\ streamed' = [streamed EXCEPT !.frames = @ + 1, !.measured = @ + 1]
     \/ /\ tracker' = [tracker EXCEPT !.shown = Shown(tracker.history)]
        /\ streamed' = [streamed EXCEPT !.frames = @ + 1]
  /\ UNCHANGED <<now, logger, files, told, faults>>

(* The branch of session_log_tick: session_record(), record(), and a flush   *)
(* when the last one that succeeded was long ago.                            *)
LogTick ==
  /\ streamed.on /\ logger.on /\ now < MaxTicks
  /\ LET line == [session |-> streamed.session, number |-> logger.made + 1, latency |-> tracker.shown,
                  full |-> streamed.measured >= Window]
         kept == [logger EXCEPT !.buffer = Append(@, line), !.made = @ + 1]
     IN /\ told' = [told EXCEPT ![logger.name].lines = Append(@, line)]
        /\ IF now - logger.flushed >= FlushTicks
             THEN \E f \in FlushLog(kept, files[logger.name]) : Writes(f)
             ELSE logger' = kept /\ UNCHANGED <<files, faults>>
  /\ now' = now + 1
  /\ UNCHANGED <<tracker, streamed>>

(* run_session() returns: the logger is dropped, with a last flush.          *)
EndLogSession ==
  /\ streamed.on
  /\ streamed' = [streamed EXCEPT !.on = FALSE]
  /\ IF logger.on
       THEN \E f \in FlushLog(logger, files[logger.name]) :
              /\ files' = [files EXCEPT ![logger.name] = f.lines]
              /\ faults' = faults + (IF f.fault THEN 1 ELSE 0)
              /\ told' = [told EXCEPT ![logger.name].cut = @ \/ f.fault]
       ELSE UNCHANGED <<files, faults, told>>
  /\ logger' = NoLogger
  /\ UNCHANGED <<now, tracker>>

(* The process dies with what is buffered.                                   *)
LoggedProcessDies ==
  /\ streamed.on
  /\ streamed' = [streamed EXCEPT !.on = FALSE]
  /\ tracker' = NewTracker
  /\ told' = [told EXCEPT ![logger.name].cut = @ \/ logger.on]
  /\ logger' = NoLogger
  /\ UNCHANGED <<now, files, faults>>

StatsInit ==
  /\ now = 0 /\ faults = 0
  /\ tracker = NewTracker
  /\ streamed = [on |-> FALSE, session |-> 0, frames |-> 0, measured |-> 0]
  /\ logger = NoLogger
  /\ files = [t \in 0..MaxTicks |-> <<>>]
  /\ told = [t \in 0..MaxTicks |-> [lines |-> <<>>, cut |-> FALSE]]

StatsNext ==
  \/ BeginLogSession \/ SendMeasured \/ LogTick \/ EndLogSession \/ LoggedProcessDies

StatsSpec == StatsInit /\ [][StatsNext]_statsVars

(* A session's file has its lines in order, and misses none but those still  *)
(* in the buffer, whatever the disk refused before, unless the last flush    *)
(* failed or the process died; and a line's latency is of its own session    *)
(* alone once a window of its frames was measured (session_log.rs, Drop).    *)
LogTellsSession ==
  \A t \in 0..MaxTicks :
    LET file == files[t]
        all == told[t].lines
        buffered == IF logger.on /\ logger.name = t THEN Shown(logger.buffer) ELSE {}
        At(line) == CHOOSE i \in 1..Len(file) : file[i] = line /\ \A k \in 1..i - 1 : file[k] # line
    IN /\ ~told[t].cut => Shown(all) = Shown(file) \cup buffered
       /\ \A i, j \in 1..Len(all) :
            i < j /\ {all[i], all[j]} \subseteq Shown(file) => At(all[i]) < At(all[j])
       /\ \A i \in 1..Len(all) : all[i].full => all[i].latency = {all[i].session}
==============================================================================
