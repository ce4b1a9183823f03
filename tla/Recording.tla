----------------------------- MODULE Recording ------------------------------
(***************************************************************************)
(* Session recording: the video writer of the engine (recording/mod.rs,    *)
(* write_recording_nal() in engine.rs), the WAV writer of each session's   *)
(* audio task (recording/audio.rs), their files, and the purge at start.   *)
(* Every write may fail, in part or whole, and the process may die between *)
(* any two of them: what is in a BufWriter is then lost, what is on disk   *)
(* stays.                                                                  *)
(*                                                                         *)
(* Sound is counted in blocks (CHUNK samples), video in frames.  A file's  *)
(* name is its number among those of one second and kind.                  *)
(***************************************************************************)
EXTENDS Naturals, Sequences, FiniteSets, SequencesExt

CONSTANTS
  Second,      \* blocks in a second of sound
  MaxBlocks,   \* MAX_DATA_BYTES, in blocks
  CallBlocks,  \* the most blocks of one write_pcm_f32()
  MaxFrames,   \* bound: frames recorded in one run of the engine
  MaxNames,    \* the names create_new_file() tries (99: the first, -2 to -99)
  MaxMade      \* bound: WAV files ever made

ASSUME RecordingAssumption ==
  /\ {Second, MaxBlocks, CallBlocks, MaxFrames, MaxNames, MaxMade} \subseteq Nat
  /\ Second > 0

VARIABLES
  enabled,  \* RECORDING_ENABLED and AUDIO_RECORDING_ENABLED; `config` is an engine that runs with [recording] enabled
  wavs,     \* WAV files on disk: name -> [of, pcm, riff, data, old]: the recording it is, the blocks in it,
            \* the sizes in its header (in blocks of sound), and whether it is past retention_days
  made,     \* WAV recordings made and not purged
  opened,   \* WAV recordings ever made
  audio,    \* the AudioRecorder: [name, buffered, counted, patched, poisoned, todo, pc, closing], or <<>>
  track,    \* the video file: frames, and "torn" for one that is not whole
  video     \* the Recorder: [buffer, frames, poisoned], or <<>>

recordingVars == <<enabled, wavs, made, opened, audio, track, video>>
audioVars == <<wavs, made, opened, audio>>
videoVars == <<track, video>>

-----------------------------------------------------------------------------
(* The engine and its flags.                                               *)

\* init_recorder(): no recorder unless it is configured, nor if its file cannot be created.
InitRecorder(records) ==
  \/ /\ records
     /\ video' = [buffer |-> <<>>, frames |-> 0, poisoned |-> FALSE]
     /\ track' = <<>>
  \/ UNCHANGED videoVars

\* StreamingEngine::new(): old recordings are purged, some may not be removable.
EngineStarts(records) ==
  /\ ~enabled.config /\ audio = <<>>
  /\ \E gone \in SUBSET {n \in DOMAIN wavs : wavs[n].old} :
       /\ wavs' = [n \in DOMAIN wavs \ gone |-> wavs[n]]
       /\ made' = made \ {wavs[n].of : n \in gone}
  /\ enabled' = [video |-> records, audio |-> records, config |-> records]
  /\ InitRecorder(records)
  /\ UNCHANGED <<opened, audio>>

\* CONFIG_UPDATE 0x03 and 0x05; a recorder that was not opened stays closed, and an engine that is not
\* configured to record reads neither flag.
Toggle(kind, on) ==
  /\ enabled.config
  /\ enabled[kind] # on
  /\ enabled' = [enabled EXCEPT ![kind] = on]
  /\ UNCHANGED <<audioVars, videoVars>>

\* The process dies: what is buffered is gone.
ProcessDies ==
  /\ enabled.config
  /\ enabled' = [enabled EXCEPT !.config = FALSE]
  /\ audio' = <<>> /\ video' = <<>>
  /\ UNCHANGED <<wavs, made, opened, track>>

RetentionEnds(n) ==
  /\ ~wavs[n].old
  /\ audio # <<>> => audio.name # n
  /\ wavs' = [wavs EXCEPT ![n].old = TRUE]
  /\ UNCHANGED <<enabled, made, opened, audio, videoVars>>

-----------------------------------------------------------------------------
(* Video.                                                                  *)

\* write_nal() fails, in the buffer's write or in the frame's own: part of the frame may be in the
\* buffer or on disk, and nothing else is written.
FrameFails ==
  \E piece \in {<<>>, <<"torn">>} :
    \E cut \in Prefixes(video.buffer \o piece) :
      /\ track' = track \o cut
      /\ video' = [buffer |-> SubSeq(video.buffer \o piece, Len(cut) + 1, Len(video.buffer \o piece)),
                   frames |-> video.frames + 1, poisoned |-> TRUE]

\* The frame is buffered; or the buffer was full, and goes to disk first.
WriteFrame ==
  /\ video # <<>> /\ enabled.video /\ ~video.poisoned
  /\ video.frames < MaxFrames
  /\ \/ /\ video' = [video EXCEPT !.buffer = Append(@, "frame"), !.frames = @ + 1]
        /\ UNCHANGED track
     \/ /\ track' = track \o video.buffer
        /\ video' = [video EXCEPT !.buffer = <<"frame">>, !.frames = @ + 1]
     \/ FrameFails
  /\ UNCHANGED <<enabled, audioVars>>

\* close(), when the engine is dropped: flushes, poisoned or not.
CloseVideo ==
  /\ enabled.config /\ audio = <<>>
  /\ enabled' = [enabled EXCEPT !.config = FALSE]
  /\ \E cut \in Prefixes(IF video = <<>> THEN <<>> ELSE video.buffer) : track' = track \o cut
  /\ video' = <<>>
  /\ UNCHANGED audioVars

-----------------------------------------------------------------------------
(* Sound.                                                                  *)

\* create_new_file(): the first name that no file has.
FreeName(n) == n \notin DOMAIN wavs /\ \A k \in 1 .. n - 1 : k \in DOMAIN wavs

\* The session's audio task opens its file; the header, with sizes of 0, is buffered.
OpenWav ==
  /\ audio = <<>> /\ enabled.config
  /\ opened < MaxMade
  /\ \E n \in 1 .. MaxNames :
       /\ FreeName(n)
       /\ wavs' = [k \in DOMAIN wavs \cup {n} |->
                     IF k = n THEN [of |-> opened + 1, pcm |-> 0, riff |-> 0, data |-> 0, old |-> FALSE] ELSE wavs[k]]
       /\ audio' = [name |-> n, buffered |-> 0, counted |-> 0, patched |-> 0, poisoned |-> FALSE,
                    todo |-> 0, pc |-> "idle", closing |-> FALSE]
  /\ opened' = opened + 1
  /\ made' = made \cup {opened + 1}
  /\ UNCHANGED <<enabled, videoVars>>

AudioAt(pc) == audio # <<>> /\ audio.pc = pc
Idle == AudioAt("idle") /\ audio.todo = 0
SoundOnly == UNCHANGED <<enabled, made, opened, videoVars>>

WritePcm(blocks) ==
  /\ Idle
  /\ enabled.audio /\ ~audio.poisoned
  /\ audio' = [audio EXCEPT !.todo = blocks]
  /\ SoundOnly /\ UNCHANGED wavs

\* So many buffered blocks go to disk.
ToDisk(blocks) == wavs' = [wavs EXCEPT ![audio.name].pcm = @ + blocks]

\* The sizes are patched when a second has been written since, after the last block of a call.
Counted(a) == [a EXCEPT !.pc = IF a.todo = 0 /\ a.counted - a.patched >= Second THEN "flush" ELSE "idle"]

WriteBlock ==
  /\ AudioAt("idle") /\ audio.todo > 0
  /\ audio.counted < MaxBlocks
  /\ \/ /\ audio' = Counted([audio EXCEPT !.buffered = @ + 1, !.counted = @ + 1, !.todo = @ - 1])
        /\ UNCHANGED wavs
     \/ /\ audio' = Counted([audio EXCEPT !.buffered = 1, !.counted = @ + 1, !.todo = @ - 1])
        /\ ToDisk(audio.buffered)
     \/ \E part \in 0 .. audio.buffered :
          /\ audio' = [audio EXCEPT !.buffered = @ - part, !.poisoned = TRUE, !.todo = 0]
          /\ ToDisk(part)
  /\ SoundOnly

\* A WAV's sizes are u32: at the limit the file is closed instead.
SizeLimit ==
  /\ AudioAt("idle") /\ audio.todo > 0
  /\ audio.counted = MaxBlocks
  /\ audio' = [audio EXCEPT !.todo = 0, !.closing = TRUE, !.pc = "flush"]
  /\ SoundOnly /\ UNCHANGED wavs

\* close(): the session is cancelled, and the task's recorder dropped.
CloseWav ==
  /\ Idle
  /\ audio' = [audio EXCEPT !.closing = TRUE, !.pc = "flush"]
  /\ SoundOnly /\ UNCHANGED wavs

\* The end of patch_sizes(): close() drops the writer, which tries to flush once more.
Patched(a) == IF a.closing THEN [a EXCEPT !.pc = "drop"] ELSE [a EXCEPT !.pc = "idle"]

PatchFails(blocks) ==
  /\ audio' = Patched([audio EXCEPT !.poisoned = TRUE, !.buffered = @ - blocks])
  /\ ToDisk(blocks)

\* Mutant of Flush: the sizes first, then what is buffered.
FlushLater ==
  /\ AudioAt("flush")
  /\ audio' = [audio EXCEPT !.pc = "riff"]
  /\ SoundOnly /\ UNCHANGED wavs

Flush ==
  /\ AudioAt("flush")
  /\ \/ audio' = [audio EXCEPT !.pc = "riff", !.buffered = 0] /\ ToDisk(audio.buffered)
     \/ \E part \in 0 .. audio.buffered : PatchFails(part)
  /\ SoundOnly

WriteRiffSize ==
  /\ AudioAt("riff")
  /\ \/ audio' = [audio EXCEPT !.pc = "data"] /\ wavs' = [wavs EXCEPT ![audio.name].riff = audio.counted]
     \/ PatchFails(0)
  /\ SoundOnly

WriteDataSize ==
  /\ AudioAt("data")
  /\ \/ /\ audio' = Patched([audio EXCEPT !.patched = audio.counted])
        /\ wavs' = [wavs EXCEPT ![audio.name].data = audio.counted]
     \/ PatchFails(0)
  /\ SoundOnly

DropWriter ==
  /\ AudioAt("drop")
  /\ \E part \in 0 .. audio.buffered : ToDisk(part)
  /\ audio' = <<>>
  /\ SoundOnly

-----------------------------------------------------------------------------
RecordingInit ==
  /\ enabled = [video |-> FALSE, audio |-> FALSE, config |-> FALSE]
  /\ wavs = <<>> /\ made = {} /\ opened = 0
  /\ audio = <<>> /\ track = <<>> /\ video = <<>>

RecordingNext ==
  \/ \E on \in BOOLEAN : EngineStarts(on) \/ \E kind \in {"video", "audio"} : Toggle(kind, on)
  \/ ProcessDies
  \/ \E n \in DOMAIN wavs : RetentionEnds(n)
  \/ WriteFrame \/ CloseVideo
  \/ OpenWav \/ CloseWav \/ SizeLimit \/ WriteBlock
  \/ \E blocks \in 1 .. CallBlocks : WritePcm(blocks)
  \/ Flush \/ WriteRiffSize \/ WriteDataSize \/ DropWriter

RecordingSpec == RecordingInit /\ [][RecordingNext]_recordingVars

-----------------------------------------------------------------------------
(* Properties.                                                             *)

\* A WAV's header never claims sound that is not in the file, at any instant the process might die.
HeaderCovers == \A n \in DOMAIN wavs : wavs[n].data <= wavs[n].riff /\ wavs[n].riff <= wavs[n].pcm

\* While nothing fails, the header lags by less than a second and the call being written.
HeaderFollows ==
  Idle /\ ~audio.poisoned => audio.counted - wavs[audio.name].data < Second

\* No recording is overwritten by the next one of the same second.
NoneWiped == {wavs[n].of : n \in DOMAIN wavs} = made

\* In the video file only the last frame may be torn: after an error nothing follows.
TornIsLast == \A i \in 1 .. Len(track) - 1 : track[i] # "torn"

\* Whatever fails and whenever the process dies, what was recorded before can be played: the header tells
\* the sound on disk, up to the last second; no file took another's place; the video is whole up to its end.
RecordingsReadable == HeaderCovers /\ HeaderFollows /\ NoneWiped /\ TornIsLast

=============================================================================
