--------------------------- MODULE FrameAssembler ---------------------------
(***************************************************************************)
(* Video frames from the encoder to the client's frame assembler           *)
(* (client: frame_assembler.cpp, with the shard decoders of                *)
(* fec_decoder.cpp; engine: pipeline.rs; driver: direct_mode.cpp).         *)
(*                                                                         *)
(* The assembler is a record, and each of its methods an operator from one *)
(* record to the next: the receive thread calls several in one critical    *)
(* section.  Payload bytes are replaced by the identity of the shard they  *)
(* are in, so that a rebuilt frame shows which shards it was made of.      *)
(*                                                                         *)
(* The network may lose, delay, reorder and duplicate packets: any packet  *)
(* of a sent frame may arrive at any later time, any number of times, or   *)
(* never.  The u32 frame index is not wrapped: at 90 frames per second it  *)
(* takes more than a year.  Clocks are left open: a timeout or the end of  *)
(* a rate limit may come at any step the code can see it.                  *)
(***************************************************************************)
EXTENDS Integers, FiniteSets

CONSTANTS
  MaxSlices,      \* slice contexts of the sliced decoder; a frame uses 0 (bulk) or all
  DataShards,     \* data shards of one code word
  ParityShards,   \* parity shards of one code word
  MaxCountedGap,  \* kMaxCountedGap
  MaxIndex,       \* bound: the largest frame index
  MaxRuns         \* bound: runs of the engine

ASSUME AssemblerAssumption ==
  /\ MaxSlices \in Nat
  /\ DataShards \in Nat \ {0}
  /\ ParityShards \in Nat
  /\ MaxCountedGap \in Nat \ {0}
  /\ MaxIndex \in Nat
  /\ MaxRuns \in Nat \ {0}

NoIndex == -1

Indices == 0 .. MaxIndex

\* The driver's first frame has index 1 (m_frameIndex starts at 0), a
\* synthetic source's has 0.
FirstIndices == {0, 1}
SliceIndices == 0 .. MaxSlices - 1
ShardIndices == 0 .. DataShards + ParityShards - 1

NoFrame == [index |-> NoIndex, key |-> FALSE, shards |-> {}]

VARIABLES
  run,      \* which run of the engine this is
  next,     \* the index of the next frame presented
  encoded,  \* the frame the encoder will reference next, or NoIndex
  sent,     \* the frames the engine sent: index -> key, slices, ref
  asm,      \* FrameAssembler, and the Output of its last call
  handed    \* history: the last frame put into an Output in this session

senderVars == <<run, next, encoded, sent>>
assemblerVars == <<senderVars, asm, handed>>

-----------------------------------------------------------------------------
(* Driver and engine.                                                      *)

\* Present(): each one takes an index, also when nothing is encoded, or when
\* the encoder's picture does not reach the network (a failed bitstream lock,
\* a full send channel).  The first picture of an encoder is an IDR.
Present(key, slices) ==
  /\ next <= MaxIndex
  /\ encoded = NoIndex => key
  /\ next' = next + 1
  /\ \/ UNCHANGED <<encoded, sent>>
     \/ /\ encoded' = next
        /\ \/ UNCHANGED sent
           \/ sent' = [i \in DOMAIN sent \cup {next} |->
                         IF i = next THEN [key    |-> key,
                                           slices |-> slices,
                                           ref    |-> IF key THEN NoIndex ELSE encoded]
                                     ELSE sent[i]]
  /\ UNCHANGED run

\* The packets of the sent frames.  A bulk frame is one code word; of a sliced
\* one, every slice is.
Packets ==
  {[run |-> run, index |-> i, slice |-> s, shard |-> d] :
     i \in DOMAIN sent, s \in SliceIndices \cup {0}, d \in ShardIndices}

Arrivable == {p \in Packets : p.slice < sent[p.index].slices \/ p.slice = 0}

-----------------------------------------------------------------------------
(* FecFrameDecoder: one code word.                                         *)
NewWord == [index |-> 0, active |-> FALSE, delivered |-> FALSE, got |-> {}]

BeginWord(i) == [index |-> i, active |-> TRUE, delivered |-> FALSE, got |-> {}]

IsActiveFor(w, i) == w.active /\ w.index = i

AddShard(w, p) ==
  IF w.active /\ ~w.delivered /\ p.shard \notin {q.shard : q \in w.got}
  THEN [w EXCEPT !.got = @ \cup {p}]
  ELSE w

WordComplete(w) == w.active /\ Cardinality(w.got) >= DataShards

-----------------------------------------------------------------------------
(* FrameAssembler.  The m_delivered of its two decoders is left out: once   *)
(* it is set, m_frameFinished is, and no shard gets to the decoder.         *)
NewAssembler ==
  [have      |-> FALSE,    \* m_haveFrame
   index     |-> 0,        \* m_frameIndex
   slices    |-> 0,        \* m_frameSliced and SlicedFecFrameDecoder.m_sliceCount
   key       |-> FALSE,    \* m_isKeyframe of the decoder in use
   finished  |-> FALSE,    \* m_frameFinished
   bulk      |-> NewWord,  \* m_bulk
   words     |-> [s \in SliceIndices |-> NewWord],  \* m_sliced.m_contexts
   done      |-> {},       \* m_sliced.m_sliceCompleted
   waiting   |-> TRUE,     \* m_waitingForKeyframe
   asked     |-> FALSE,    \* m_idrAsked, and less than kIdrRepeat ago
   delivered |-> 0,
   lost      |-> 0,
   skipped   |-> 0,
   first     |-> NoIndex,  \* history: the first frame of this session
   beyond    |-> 0,        \* history: frames of its gaps beyond kMaxCountedGap
   out       |-> NoFrame,  \* Output.frames: one call completes at most one
   idr       |-> FALSE]    \* Output.requestIdr

\* Every call starts with an empty Output.
Called(a) == [a EXCEPT !.out = NoFrame, !.idr = FALSE]

AskForIdr(a) == IF a.asked THEN a ELSE [a EXCEPT !.asked = TRUE, !.idr = TRUE]

LoseFrames(a, count) ==
  AskForIdr([a EXCEPT !.lost = @ + count, !.waiting = TRUE])

\* Frames skipped over by the first packet of frame i, capped.
Gap(a, i) ==
  IF i - a.index - 1 < MaxCountedGap THEN i - a.index - 1 ELSE MaxCountedGap

\* Mutants of LoseUpTo: the newest frame is counted again when the next one begins;
\* only the frame in progress is lost, not those never seen.
CountsFinished(a, i) == IF a.have THEN LoseFrames(a, 1 + Gap(a, i)) ELSE a

MissesTheGap(a, i) == IF a.have /\ ~a.finished THEN LoseFrames(a, 1) ELSE a

\* The frame in progress and the frames skipped over will not come any more.
LoseUpTo(a, i) ==
  LET count == (IF a.finished THEN 0 ELSE 1) + Gap(a, i)
  IN IF a.have /\ count > 0 THEN LoseFrames(a, count) ELSE a

BeginFrame(a, i) ==
  [a EXCEPT !.have = TRUE,
            !.index = i,
            !.finished = FALSE,
            !.slices = sent[i].slices,
            !.key = sent[i].key,
            !.bulk = IF sent[i].slices = 0 THEN BeginWord(i) ELSE @,
            !.done = IF sent[i].slices = 0 THEN @ ELSE {},
            !.first = IF a.have THEN @ ELSE i,
            !.beyond = IF a.have THEN @ + (i - a.index - 1 - Gap(a, i)) ELSE @]

\* SlicedFecFrameDecoder::addShard: a slice's context starts at its first shard.
AddSliceShard(a, p, rebuilds) ==
  LET old  == a.words[p.slice]
      word == AddShard(IF IsActiveFor(old, a.index) THEN old ELSE BeginWord(a.index), p)
      now  == rebuilds /\ p.slice \notin a.done /\ WordComplete(word)
  IN [a EXCEPT !.words[p.slice] = [word EXCEPT !.delivered = @ \/ now],
               !.done = IF now THEN @ \cup {p.slice} ELSE @]

FrameComplete(a) ==
  IF a.slices = 0 THEN WordComplete(a.bulk) ELSE a.done = 0 .. a.slices - 1

\* The shards the finished frame is made of.
FrameShards(a) ==
  IF a.slices = 0 THEN a.bulk.got ELSE UNION {a.words[s].got : s \in a.done}

\* finishCurrent(); only a bulk frame is rebuilt as late as here.
FinishCurrent(a, rebuilds) ==
  LET b == [a EXCEPT !.finished = TRUE]
  IN IF a.slices = 0 /\ ~rebuilds THEN LoseFrames(b, 1)
     ELSE IF a.waiting /\ ~a.key THEN AskForIdr([b EXCEPT !.skipped = @ + 1])
     ELSE [b EXCEPT !.waiting = FALSE,
                    !.delivered = @ + 1,
                    !.out = [index |-> a.index, key |-> a.key, shards |-> FrameShards(a)]]

\* A packet of an older frame, or of one already delivered or lost.
TooLate(a, p) ==
  a.have /\ (p.index < a.index \/ (p.index = a.index /\ a.finished))

FrameOf(a, p) ==
  IF a.have /\ p.index = a.index THEN a ELSE BeginFrame(LoseUpTo(a, p.index), p.index)

OnPacket(a, p, rebuilds) ==
  LET b == FrameOf(a, p)
      c == IF b.slices = 0 THEN [b EXCEPT !.bulk = AddShard(@, p)]
                           ELSE AddSliceShard(b, p, rebuilds)
  IN IF TooLate(a, p) THEN a
     ELSE IF FrameComplete(c) THEN FinishCurrent(c, rebuilds)
     ELSE c

\* Mutant of TimedOut: gives the frame up without waiting for a keyframe.
TimeoutKeepsChain(a) == [a EXCEPT !.finished = TRUE, !.lost = @ + 1]

\* onTick() with kFrameTimeout over: never right after a packet of the frame.
TimedOut(a) == LoseFrames([a EXCEPT !.finished = TRUE], 1)

RequireKeyframe(a) == AskForIdr([a EXCEPT !.waiting = TRUE])

\* Mutant of Reset: the slice contexts survive into the next session.
ResetKeepsWords(a) == [NewAssembler EXCEPT !.index = a.index, !.words = a.words]

\* reset() keeps what it does not name: m_frameIndex.
Reset(a) == [NewAssembler EXCEPT !.index = a.index]

-----------------------------------------------------------------------------
(* One call each, as the receive and the render thread make them.          *)

\* The caller takes the Output out of what the call returns.
Returns(r) ==
  /\ asm' = Called(r)
  /\ handed' = IF r.out = NoFrame THEN handed ELSE r.out

ReceivePacket ==
  /\ \E p \in Arrivable, rebuilds \in BOOLEAN : Returns(OnPacket(asm, p, rebuilds))
  /\ UNCHANGED senderVars

\* Time without a packet of the frame in progress.
FrameTimeout ==
  /\ asm.have
  /\ ~asm.finished
  /\ Returns(TimedOut(asm))
  /\ UNCHANGED senderVars

ConsumerRequiresKeyframe ==
  /\ Returns(RequireKeyframe(asm))
  /\ UNCHANGED senderVars

\* kIdrRepeat since the last request is over.
IdrWindowEnds ==
  /\ asm.asked
  /\ asm' = [asm EXCEPT !.asked = FALSE]
  /\ UNCHANGED <<senderVars, handed>>

\* The next session of the same engine: packets of the last one may be late.
NextSession ==
  /\ asm' = Reset(asm)
  /\ handed' = NoFrame
  /\ UNCHANGED senderVars

\* SteamVR started again: a new engine numbers its frames anew.  The client
\* found the old one gone, and backed off before it connected to the new one:
\* no packet of the old one is left.
EngineRestart ==
  /\ run < MaxRuns
  /\ run' = run + 1
  /\ next' \in FirstIndices
  /\ encoded' = NoIndex
  /\ sent' = <<>>
  /\ asm' = Reset(asm)
  /\ handed' = NoFrame

Presents ==
  /\ \E key \in BOOLEAN, slices \in {0, MaxSlices} : Present(key, slices)
  /\ UNCHANGED <<asm, handed>>

SenderInit ==
  /\ run = 1
  /\ next \in FirstIndices
  /\ encoded = NoIndex
  /\ sent = <<>>

AssemblerInit ==
  /\ SenderInit
  /\ asm = NewAssembler
  /\ handed = NoFrame

AssemblerNext ==
  \/ Presents
  \/ ReceivePacket
  \/ FrameTimeout
  \/ ConsumerRequiresKeyframe
  \/ IdrWindowEnds
  \/ NextSession
  \/ EngineRestart

AssemblerSpec == AssemblerInit /\ [][AssemblerNext]_assemblerVars

-----------------------------------------------------------------------------
(* Properties.                                                             *)

PacketType == [run : 1 .. MaxRuns, index : Indices,
               slice : SliceIndices \cup {0}, shard : ShardIndices]

Words == [index : Indices, active : BOOLEAN, delivered : BOOLEAN, got : SUBSET PacketType]

FrameInfo == [key : BOOLEAN, slices : {0, MaxSlices}, ref : {NoIndex} \cup Indices]

Frames == [index : {NoIndex} \cup Indices, key : BOOLEAN, shards : SUBSET PacketType]

Assemblers ==
  [have : BOOLEAN, index : Indices, slices : {0, MaxSlices}, key : BOOLEAN,
   finished : BOOLEAN, bulk : Words, words : [SliceIndices -> Words],
   done : SUBSET SliceIndices, waiting : BOOLEAN, asked : BOOLEAN,
   delivered : Nat, lost : Nat, skipped : Nat, first : {NoIndex} \cup Indices, beyond : Nat,
   out : Frames, idr : BOOLEAN]

\* Types; in particular the unsigned subtraction of two frame indices in
\* onPacket() never goes below zero.
AssemblerTypeOK ==
  /\ run \in 1 .. MaxRuns
  /\ next \in 0 .. MaxIndex + 1
  /\ encoded \in {NoIndex} \cup Indices
  /\ DOMAIN sent \subseteq Indices
  /\ sent \in [DOMAIN sent -> FrameInfo]
  /\ asm \in Assemblers
  /\ handed \in Frames

Stream == INSTANCE FrameStream WITH
  last <- handed.index, lastKey <- handed.key, chained <- ~asm.waiting

\* The assembler hands frames over as FrameStream allows: in order, each once,
\* from a keyframe on, and only a keyframe after any loss.
HandsOverAStream == Stream!StreamSpec

\* End to end: a frame that is not a keyframe is handed over only directly
\* after the frame the encoder referenced, whatever the driver skipped, the
\* engine dropped and the network did.
ReferenceWasHanded ==
  [][handed' = handed \/ handed' = NoFrame \/ handed'.key
     \/ sent[handed'.index].ref = handed.index]_assemblerVars

\* A frame handed over is made of its own shards only, DataShards of each of
\* its code words: none of an earlier frame, session or run of the engine.
WholeFrames ==
  handed # NoFrame =>
    /\ \A p \in handed.shards : p.run = run /\ p.index = handed.index
    /\ \A s \in 0 .. (IF sent[handed.index].slices = 0 THEN 0 ELSE MaxSlices - 1) :
         Cardinality({p \in handed.shards : p.slice = s}) >= DataShards

\* Every index from the session's first frame up to the newest, which may be
\* in progress, is counted exactly once, delivered, lost or skipped, but for
\* those of a gap that are beyond its first kMaxCountedGap.
EveryFrameCountedOnce ==
  asm.have =>
    asm.delivered + asm.lost + asm.skipped + asm.beyond =
      asm.index - asm.first + (IF asm.finished THEN 1 ELSE 0)

=============================================================================
