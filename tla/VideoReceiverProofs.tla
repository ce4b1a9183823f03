------------------------ MODULE VideoReceiverProofs ------------------------
(***************************************************************************)
(* Proofs about the video's way through the headset, for every number of   *)
(* shards, slices and sessions, any gap and queue limit, any length of a   *)
(* run and every interleaving of the three threads.                        *)
(*                                                                         *)
(* First FrameAssembler: its types, that it implements FrameStream, that   *)
(* references are kept end to end, that every frame is counted once, and   *)
(* that a frame handed over is made of its own shards. The lemmas say what *)
(* each method does to the fields the invariant is about; there the shards *)
(* themselves are only typed, and what the code words hold is added after. *)
(*                                                                         *)
(* Then VideoReceiver: its types with the bound of the queue, that no      *)
(* frame crosses sessions, the order of frames, and that the decoder gets  *)
(* no frame without its reference unless the render thread threw one away. *)
(* What a thread does to the assembler is a step of FrameAssembler or no   *)
(* step, so the invariant IInv of the first part carries over.             *)
(***************************************************************************)
EXTENDS VideoReceiver, TLAPS

-----------------------------------------------------------------------------
(* FrameAssembler.                                                         *)


-----------------------------------------------------------------------------
(* The methods of the assembler.                                           *)

\* b is at the same frame as a, with the same output.
Agree(a, b) ==
  /\ b.have = a.have
  /\ b.index = a.index
  /\ b.key = a.key
  /\ b.slices = a.slices
  /\ b.finished = a.finished
  /\ b.first = a.first
  /\ b.out = a.out
  /\ b.delivered = a.delivered
  /\ b.skipped = a.skipped
  /\ b.beyond = a.beyond

\* How many frames LoseUpTo counts.
UpTo(a, i) ==
  IF a.have THEN (IF a.finished THEN 0 ELSE 1) + Gap(a, i) ELSE 0

\* How many frames of the gap it leaves out.
Uncounted(a, i) == IF a.have THEN i - a.index - 1 - Gap(a, i) ELSE 0

\* What EXCEPT leaves alone is a question of the record's domain.
LEMMA AssemblerFields ==
  ASSUME NEW a \in Assemblers
  PROVE  DOMAIN a = {"have", "index", "slices", "key", "finished", "bulk", "words", "done",
                     "waiting", "asked", "delivered", "lost", "skipped", "first", "beyond",
                     "out", "idr"}
BY SMT DEF Assemblers

\* A fresh word, and a fresh assembler, have their types.
LEMMA NewTypes ==
  /\ NewWord \in Words
  /\ \A i \in Indices : BeginWord(i) \in Words
  /\ NoFrame \in Frames
  /\ NewAssembler \in Assemblers
<1>1. 0 \in Indices
  BY AssemblerAssumption, SMT DEF AssemblerAssumption, Indices
<1>2. NewWord \in Words /\ \A i \in Indices : BeginWord(i) \in Words
  BY <1>1 DEF NewWord, BeginWord, Words
<1>3. NoFrame \in Frames
  BY DEF NoFrame, Frames
<1>4. [s \in SliceIndices |-> NewWord] \in [SliceIndices -> Words]
  BY <1>2
<1>5. NewAssembler \in Assemblers
  BY <1>1, <1>2, <1>3, <1>4, SMT DEF NewAssembler, Assemblers
<1> QED
  BY <1>2, <1>3, <1>5

LEMMA ResetType ==
  ASSUME NEW a \in Assemblers
  PROVE  /\ Reset(a) \in Assemblers
         /\ ~Reset(a).have /\ Reset(a).waiting /\ Reset(a).out = NoFrame
         /\ Reset(a).delivered = 0 /\ Reset(a).lost = 0 /\ Reset(a).skipped = 0
         /\ Reset(a).beyond = 0
<1>1. /\ ~NewAssembler.have /\ NewAssembler.waiting /\ NewAssembler.out = NoFrame
      /\ NewAssembler.delivered = 0 /\ NewAssembler.lost = 0 /\ NewAssembler.skipped = 0
      /\ NewAssembler.beyond = 0
  BY DEF NewAssembler
<1>2. a.index \in Indices
  BY DEF Assemblers
<1>3. [NewAssembler EXCEPT !.index = a.index] \in Assemblers
  BY <1>2, NewTypes, SMT DEF Assemblers
<1> QED
  BY <1>1, <1>3, NewTypes, SMT DEF Reset, Assemblers

\* Asking for a keyframe changes nothing but the request.
LEMMA AskForIdrKeeps ==
  ASSUME NEW a \in Assemblers
  PROVE  /\ AskForIdr(a) \in Assemblers
         /\ Agree(a, AskForIdr(a))
         /\ AskForIdr(a).waiting = a.waiting
         /\ AskForIdr(a).lost = a.lost
<1> DEFINE b == [a EXCEPT !.asked = TRUE, !.idr = TRUE]
<1>1. b \in Assemblers
  BY Zenon DEF Assemblers
<1>2. Agree(a, b) /\ b.waiting = a.waiting /\ b.lost = a.lost
  BY AssemblerFields, Zenon DEF Agree
<1>3. Agree(a, a)
  BY DEF Agree
<1>4. AskForIdr(a) = IF a.asked THEN a ELSE b
  BY DEF AskForIdr
<1> HIDE DEF b
<1> QED
  BY <1>1, <1>2, <1>3, <1>4, Zenon

LEMMA LoseFramesEffect ==
  ASSUME NEW a \in Assemblers, NEW count \in Nat
  PROVE  /\ LoseFrames(a, count) \in Assemblers
         /\ Agree(a, LoseFrames(a, count))
         /\ LoseFrames(a, count).waiting
         /\ LoseFrames(a, count).lost = a.lost + count
<1> DEFINE b == [a EXCEPT !.lost = @ + count, !.waiting = TRUE]
<1>1. \A v \in Nat : [a EXCEPT !.lost = v, !.waiting = TRUE] \in Assemblers
  BY Zenon DEF Assemblers
<1>2. a.lost + count \in Nat
  BY SMT DEF Assemblers
<1>3. b \in Assemblers
  BY <1>1, <1>2, Zenon
<1>4. Agree(a, b) /\ b.waiting /\ b.lost = a.lost + count
  BY AssemblerFields, Zenon DEF Agree
<1>5. LoseFrames(a, count) = AskForIdr(b)
  BY DEF LoseFrames
<1> HIDE DEF b
<1>6. /\ AskForIdr(b) \in Assemblers
      /\ Agree(b, AskForIdr(b))
      /\ AskForIdr(b).waiting = b.waiting
      /\ AskForIdr(b).lost = b.lost
  BY <1>3, AskForIdrKeeps
<1> QED
  BY <1>4, <1>5, <1>6, Zenon DEF Agree

\* The gap is counted up to its cap.
LEMMA GapFacts ==
  ASSUME NEW a \in Assemblers, NEW i \in Indices, a.have => i > a.index
  PROVE  a.have => Gap(a, i) \in Nat /\ i - a.index - 1 - Gap(a, i) \in Nat
<1>1. a.index \in Int /\ i \in Int
  BY AssemblerAssumption, SMT DEF Assemblers, Indices, AssemblerAssumption
<1> QED
  BY <1>1, AssemblerAssumption, SMT DEF Gap, AssemblerAssumption

\* A newer frame loses the one in progress and every one skipped over, and
\* any loss breaks the chain.
LEMMA LoseUpToEffect ==
  ASSUME NEW a \in Assemblers, NEW i \in Indices, a.have => i > a.index
  PROVE  /\ UpTo(a, i) \in Nat
         /\ UpTo(a, i) = 0 /\ a.have => a.finished /\ i = a.index + 1
         /\ LoseUpTo(a, i) \in Assemblers
         /\ Agree(a, LoseUpTo(a, i))
         /\ LoseUpTo(a, i).waiting = (a.waiting \/ UpTo(a, i) > 0)
         /\ LoseUpTo(a, i).lost = a.lost + UpTo(a, i)
<1>1. a.index \in Int /\ i \in Int /\ a.have \in BOOLEAN /\ a.finished \in BOOLEAN
      /\ a.waiting \in BOOLEAN /\ a.lost \in Nat
  BY AssemblerAssumption, SMT DEF Assemblers, Indices, AssemblerAssumption
<1>2. /\ UpTo(a, i) \in Nat
      /\ UpTo(a, i) = 0 /\ a.have => a.finished /\ i = a.index + 1
  <2>1. CASE ~a.have
    BY <2>1, SMT DEF UpTo
  <2>2. CASE a.have
    <3>1. i - a.index - 1 \in Nat
      BY <1>1, <2>2, SMT
    <3>2. Gap(a, i) \in Nat /\ (Gap(a, i) = 0 => i = a.index + 1)
      BY <1>1, <3>1, AssemblerAssumption, SMT DEF Gap, AssemblerAssumption
    <3> HIDE DEF Gap
    <3>3. CASE a.finished
      BY <2>2, <3>2, <3>3, SMT DEF UpTo
    <3>4. CASE ~a.finished
      BY <2>2, <3>2, <3>4, SMT DEF UpTo
    <3> QED
      BY <3>3, <3>4
  <2> QED
    BY <2>1, <2>2
<1>3. CASE a.have /\ UpTo(a, i) > 0
  <2>1. LoseUpTo(a, i) = LoseFrames(a, UpTo(a, i))
    BY <1>3 DEF LoseUpTo, UpTo
  <2> QED
    BY <1>2, <1>3, <2>1, LoseFramesEffect
<1>4. CASE ~(a.have /\ UpTo(a, i) > 0)
  <2>1. LoseUpTo(a, i) = a
    BY <1>4, SMT DEF LoseUpTo, UpTo
  <2>2. UpTo(a, i) = 0
    BY <1>2, <1>4, SMT DEF UpTo
  <2> QED
    BY <1>1, <1>2, <2>1, <2>2, SMT DEF Agree
<1> QED
  BY <1>3, <1>4

\* What the sender's variables have to be for its packets to make sense.
SentTyped ==
  /\ run \in 1 .. MaxRuns
  /\ DOMAIN sent \subseteq Indices
  /\ sent \in [DOMAIN sent -> FrameInfo]

LEMMA PacketFacts ==
  ASSUME SentTyped, NEW p \in Arrivable
  PROVE  /\ p \in PacketType
         /\ p.index \in DOMAIN sent
         /\ sent[p.index] \in FrameInfo
         /\ sent[p.index].slices # 0 => p.slice \in SliceIndices
<1>1. PICK i \in DOMAIN sent, s \in SliceIndices \cup {0}, d \in ShardIndices :
        p = [run |-> run, index |-> i, slice |-> s, shard |-> d]
  BY DEF Arrivable, Packets
<1>2. p \in PacketType /\ p.index = i /\ p.slice = s
  BY <1>1 DEF SentTyped, PacketType
<1>3. sent[i] \in FrameInfo
  BY DEF SentTyped
<1>4. sent[i].slices \in {0, MaxSlices}
  BY <1>3 DEF FrameInfo
<1>5. sent[i].slices # 0 => s \in SliceIndices
  BY <1>4, AssemblerAssumption, SMT DEF SliceIndices, AssemblerAssumption
<1> QED
  BY <1>2, <1>3, <1>5

LEMMA AddShardType ==
  ASSUME NEW w \in Words, NEW p \in PacketType
  PROVE  AddShard(w, p) \in Words
<1>1. \A g \in SUBSET PacketType : [w EXCEPT !.got = g] \in Words
  BY Zenon DEF Words
<1>2. w.got \cup {p} \in SUBSET PacketType
  BY DEF Words
<1> QED
  BY <1>1, <1>2, Zenon DEF AddShard

\* The first packet of frame i makes it the frame in progress.
LEMMA BeginFrameEffect ==
  ASSUME NEW a \in Assemblers, NEW i \in Indices, sent[i] \in FrameInfo, a.have => i > a.index
  PROVE  LET b == BeginFrame(a, i)
         IN /\ b \in Assemblers
            /\ b.have /\ b.index = i /\ ~b.finished
            /\ b.key = sent[i].key /\ b.slices = sent[i].slices
            /\ b.first = IF a.have THEN a.first ELSE i
            /\ b.waiting = a.waiting /\ b.lost = a.lost /\ b.out = a.out
            /\ b.delivered = a.delivered /\ b.skipped = a.skipped
            /\ b.beyond = a.beyond + Uncounted(a, i)
<1> DEFINE word  == IF sent[i].slices = 0 THEN BeginWord(i) ELSE a.bulk
           done  == IF sent[i].slices = 0 THEN a.done ELSE {}
           first == IF a.have THEN a.first ELSE i
           beyond == IF a.have THEN a.beyond + (i - a.index - 1 - Gap(a, i)) ELSE a.beyond
           B(s, k, w, d, f, n) ==
             [a EXCEPT !.have = TRUE, !.index = i, !.finished = FALSE, !.slices = s,
                       !.key = k, !.bulk = w, !.done = d, !.first = f, !.beyond = n]
<1>1. \A s \in {0, MaxSlices}, k \in BOOLEAN, w \in Words, d \in SUBSET SliceIndices,
        f \in {NoIndex} \cup Indices, n \in Nat : B(s, k, w, d, f, n) \in Assemblers
  BY ZenonT(60) DEF Assemblers
<1>10. beyond \in Nat /\ beyond = a.beyond + Uncounted(a, i)
  BY GapFacts, SMT DEF Uncounted, Assemblers
<1>2. /\ sent[i].slices \in {0, MaxSlices} /\ sent[i].key \in BOOLEAN
      /\ word \in Words /\ done \in SUBSET SliceIndices /\ first \in {NoIndex} \cup Indices
  BY NewTypes DEF FrameInfo, Assemblers
<1>3. BeginFrame(a, i) = B(sent[i].slices, sent[i].key, word, done, first, beyond)
  BY DEF BeginFrame
<1> DEFINE b == B(sent[i].slices, sent[i].key, word, done, first, beyond)
<1> HIDE DEF word, done, first, beyond
<1>4. b \in Assemblers
  BY <1>1, <1>2, <1>10
<1>5. b.have = TRUE /\ b.index = i /\ b.finished = FALSE
  BY AssemblerFields, Zenon
<1>6. b.key = sent[i].key /\ b.slices = sent[i].slices /\ b.first = first /\ b.beyond = beyond
  BY AssemblerFields, Zenon
<1>7. /\ b.waiting = a.waiting /\ b.lost = a.lost /\ b.out = a.out
      /\ b.delivered = a.delivered /\ b.skipped = a.skipped
  BY AssemblerFields, Zenon
<1>8. first = IF a.have THEN a.first ELSE i
  BY DEF first
<1> HIDE DEF b
<1>9. BeginFrame(a, i) = b
  BY <1>3 DEF b
<1> QED
  BY <1>4, <1>5, <1>6, <1>7, <1>8, <1>9, <1>10, Zenon

\* A shard of a slice only touches that slice's word and the set of done slices.
LEMMA AddSliceShardKeeps ==
  ASSUME NEW a \in Assemblers, NEW p \in PacketType, p.slice \in SliceIndices,
         NEW rebuilds \in BOOLEAN
  PROVE  LET b == AddSliceShard(a, p, rebuilds)
         IN b \in Assemblers /\ Agree(a, b) /\ b.waiting = a.waiting /\ b.lost = a.lost
<1> DEFINE old  == a.words[p.slice]
           word == AddShard(IF IsActiveFor(old, a.index) THEN old ELSE BeginWord(a.index), p)
           now  == rebuilds /\ p.slice \notin a.done /\ WordComplete(word)
           last == [word EXCEPT !.delivered = @ \/ now]
           done == IF now THEN a.done \cup {p.slice} ELSE a.done
           B(ws, d) == [a EXCEPT !.words = ws, !.done = d]
<1>1. a.words \in [SliceIndices -> Words] /\ a.index \in Indices /\ a.done \in SUBSET SliceIndices
  BY DEF Assemblers
<1>2. old \in Words
  BY <1>1
<1>3. word \in Words
  BY <1>1, <1>2, NewTypes, AddShardType
<1> HIDE DEF word, old
<1>4. \A v \in BOOLEAN : [word EXCEPT !.delivered = v] \in Words
  BY <1>3, Zenon DEF Words
<1>5. last \in Words
  <2>1. (word.delivered \/ now) \in BOOLEAN
    BY Zenon
  <2> QED
    BY <1>4, <2>1, Zenon
<1>6. done \in SUBSET SliceIndices
  BY <1>1
<1>7. AddSliceShard(a, p, rebuilds) = [a EXCEPT !.words[p.slice] = last, !.done = done]
  BY DEF AddSliceShard, old, word
<1> HIDE DEF last, done
<1>8. [a.words EXCEPT ![p.slice] = last] \in [SliceIndices -> Words]
  BY <1>1, <1>5
<1>9. AddSliceShard(a, p, rebuilds) = B([a.words EXCEPT ![p.slice] = last], done)
  BY <1>7, AssemblerFields, Zenon
<1>10. \A ws \in [SliceIndices -> Words], d \in SUBSET SliceIndices : B(ws, d) \in Assemblers
  BY Zenon DEF Assemblers
<1>11. \A ws, d : Agree(a, B(ws, d)) /\ B(ws, d).waiting = a.waiting /\ B(ws, d).lost = a.lost
  BY AssemblerFields, Zenon DEF Agree
<1> HIDE DEF B
<1> QED
  BY <1>6, <1>8, <1>9, <1>10, <1>11, ZenonT(60)

\* b finishes the frame a has in progress: lost, skipped or delivered.
Same(a, b) ==
  /\ b.have = a.have
  /\ b.index = a.index
  /\ b.key = a.key
  /\ b.slices = a.slices
  /\ b.first = a.first
  /\ b.beyond = a.beyond

EndsLost(a, b) ==
  /\ Same(a, b) /\ b.finished /\ b.waiting /\ b.lost = a.lost + 1
  /\ b.delivered = a.delivered /\ b.skipped = a.skipped /\ b.out = a.out

EndsSkipped(a, b) ==
  /\ Same(a, b) /\ b.finished /\ b.waiting /\ b.skipped = a.skipped + 1
  /\ b.delivered = a.delivered /\ b.lost = a.lost /\ b.out = a.out

EndsDelivered(a, b) ==
  /\ Same(a, b) /\ b.finished /\ ~b.waiting /\ b.delivered = a.delivered + 1
  /\ b.skipped = a.skipped /\ b.lost = a.lost
  /\ b.out.index = a.index /\ b.out.key = a.key
  /\ a.key \/ ~a.waiting

LEMMA FinishCurrentEffect ==
  ASSUME NEW a \in Assemblers, NEW rebuilds \in BOOLEAN
  PROVE  LET b == FinishCurrent(a, rebuilds)
         IN b \in Assemblers /\ (EndsLost(a, b) \/ EndsSkipped(a, b) \/ EndsDelivered(a, b))
<1> DEFINE f == [a EXCEPT !.finished = TRUE]
<1>1. f \in Assemblers
  BY Zenon DEF Assemblers
<1>2. /\ Same(a, f) /\ f.finished /\ f.waiting = a.waiting /\ f.lost = a.lost
      /\ f.delivered = a.delivered /\ f.skipped = a.skipped /\ f.out = a.out
  BY AssemblerFields, Zenon DEF Same
<1> HIDE DEF f
<1>3. CASE a.slices = 0 /\ ~rebuilds
  <2>1. FinishCurrent(a, rebuilds) = LoseFrames(f, 1)
    BY <1>3, Zenon DEF FinishCurrent, f
  <2>2. /\ LoseFrames(f, 1) \in Assemblers
        /\ Agree(f, LoseFrames(f, 1))
        /\ LoseFrames(f, 1).waiting
        /\ LoseFrames(f, 1).lost = f.lost + 1
    BY <1>1, LoseFramesEffect
  <2> QED
    BY <1>2, <2>1, <2>2, Zenon DEF Agree, Same, EndsLost
<1>4. CASE ~(a.slices = 0 /\ ~rebuilds) /\ a.waiting /\ ~a.key
  <2> DEFINE g == [f EXCEPT !.skipped = @ + 1]
  <2>1. FinishCurrent(a, rebuilds) = AskForIdr(g)
    BY <1>4, Zenon DEF FinishCurrent, f
  <2>2. \A v \in Nat : [f EXCEPT !.skipped = v] \in Assemblers
    BY <1>1, Zenon DEF Assemblers
  <2>3. f.skipped + 1 \in Nat
    BY <1>1, SMT DEF Assemblers
  <2>4. g \in Assemblers
    BY <2>2, <2>3
  <2>5. Same(f, g) /\ g.finished = f.finished /\ g.waiting = f.waiting
    BY <1>1, AssemblerFields, Zenon DEF Same
  <2>6. /\ g.skipped = f.skipped + 1 /\ g.lost = f.lost
        /\ g.delivered = f.delivered /\ g.out = f.out
    BY <1>1, AssemblerFields, Zenon
  <2> HIDE DEF g
  <2>7. /\ AskForIdr(g) \in Assemblers /\ Agree(g, AskForIdr(g))
        /\ AskForIdr(g).waiting = g.waiting /\ AskForIdr(g).lost = g.lost
    BY <2>4, AskForIdrKeeps
  <2>8. EndsSkipped(a, AskForIdr(g))
    BY <1>2, <1>4, <2>5, <2>6, <2>7, Zenon DEF Agree, Same, EndsSkipped
  <2> QED
    BY <2>1, <2>7, <2>8
<1>5. CASE ~(a.slices = 0 /\ ~rebuilds) /\ ~(a.waiting /\ ~a.key)
  <2> DEFINE frame == [index |-> a.index, key |-> a.key, shards |-> FrameShards(a)]
             D(n, x) == [f EXCEPT !.waiting = FALSE, !.delivered = n, !.out = x]
             g == D(f.delivered + 1, frame)
  <2>1. FinishCurrent(a, rebuilds) = g
    BY <1>5, Zenon DEF FinishCurrent, f
  <2>2. FrameShards(a) \in SUBSET PacketType
    <3>1. a.bulk \in Words /\ a.words \in [SliceIndices -> Words] /\ a.done \subseteq SliceIndices
      BY DEF Assemblers
    <3> QED
      BY <3>1 DEF FrameShards, Words
  <2>3. frame \in Frames
    BY <2>2 DEF Frames, Assemblers
  <2>4. f.delivered + 1 \in Nat
    BY <1>1, SMT DEF Assemblers
  <2>5. \A n \in Nat, x \in Frames : D(n, x) \in Assemblers
    BY <1>1, Zenon DEF Assemblers
  <2>6. frame.index = a.index /\ frame.key = a.key
    OBVIOUS
  <2> HIDE DEF frame
  <2>7. g \in Assemblers
    BY <2>3, <2>4, <2>5
  <2>8. /\ Same(f, g) /\ g.finished = f.finished /\ g.waiting = FALSE
        /\ g.skipped = f.skipped /\ g.lost = f.lost
    BY <1>1, AssemblerFields, Zenon DEF Same
  <2>9. g.delivered = f.delivered + 1 /\ g.out = frame
    BY <1>1, AssemblerFields, Zenon
  <2> HIDE DEF g
  <2>10. EndsDelivered(a, g)
    BY <1>2, <1>5, <2>6, <2>8, <2>9, Zenon DEF Same, EndsDelivered
  <2> QED
    BY <2>1, <2>7, <2>10
<1> QED
  BY <1>3, <1>4, <1>5

\* The frame in progress is one the engine sent, as it was sent.
Tracks(a) ==
  a.have => /\ a.index \in DOMAIN sent
            /\ a.key = sent[a.index].key
            /\ a.slices = sent[a.index].slices

\* How many frames the packet's frame makes lost when it begins.
Behind(a, i) == IF a.have /\ i = a.index THEN 0 ELSE UpTo(a, i)

\* How many of those before it are not counted.
Left(a, i) == IF a.have /\ i = a.index THEN 0 ELSE Uncounted(a, i)

\* b has frame i in progress, everything between a's and that counted.
Begun(a, b, i) ==
  /\ b.have /\ b.index = i /\ ~b.finished
  /\ b.key = sent[i].key /\ b.slices = sent[i].slices
  /\ b.first = IF a.have THEN a.first ELSE i
  /\ b.waiting = (a.waiting \/ Behind(a, i) > 0)
  /\ b.lost = a.lost + Behind(a, i)
  /\ b.beyond = a.beyond + Left(a, i)
  /\ b.out = a.out /\ b.delivered = a.delivered /\ b.skipped = a.skipped

LEMMA FrameOfEffect ==
  ASSUME SentTyped, NEW a \in Assemblers, Tracks(a), NEW p \in Arrivable, ~TooLate(a, p)
  PROVE  FrameOf(a, p) \in Assemblers /\ Begun(a, FrameOf(a, p), p.index)
<1> DEFINE i == p.index
<1>1. i \in Indices /\ i \in DOMAIN sent /\ sent[i] \in FrameInfo
  BY PacketFacts DEF SentTyped
<1>2. a.index \in Int /\ i \in Int /\ a.have \in BOOLEAN /\ a.waiting \in BOOLEAN /\ a.lost \in Nat
      /\ a.beyond \in Nat
  BY <1>1, AssemblerAssumption, SMT DEF Assemblers, Indices, AssemblerAssumption
<1>3. CASE a.have /\ i = a.index
  <2>1. FrameOf(a, p) = a
    BY <1>3 DEF FrameOf
  <2>2. ~a.finished
    BY <1>3 DEF TooLate
  <2>3. Behind(a, i) = 0 /\ ~(Behind(a, i) > 0) /\ a.lost = a.lost + 0
        /\ a.beyond = a.beyond + Left(a, i)
    BY <1>2, <1>3, SMT DEF Behind, Left
  <2>4. a.waiting = (a.waiting \/ Behind(a, i) > 0)
    BY <1>2, <2>3, Zenon
  <2>5. a.lost = a.lost + Behind(a, i)
    BY <2>3
  <2>6. a.first = IF a.have THEN a.first ELSE i
    BY <1>3
  <2>7. a.key = sent[i].key /\ a.slices = sent[i].slices
    BY <1>3, Zenon DEF Tracks
  <2>8. Begun(a, a, i)
    BY <1>3, <2>2, <2>3, <2>4, <2>5, <2>6, <2>7, Zenon DEF Begun
  <2> QED
    BY <2>1, <2>8
<1>4. CASE ~(a.have /\ i = a.index)
  <2> DEFINE l == LoseUpTo(a, i)
  <2>1. a.have => i > a.index
    BY <1>2, <1>4, SMT DEF TooLate
  <2>2. /\ l \in Assemblers /\ Agree(a, l)
        /\ l.waiting = (a.waiting \/ UpTo(a, i) > 0) /\ l.lost = a.lost + UpTo(a, i)
    BY <1>1, <2>1, LoseUpToEffect
  <2>3. FrameOf(a, p) = BeginFrame(l, i)
    BY <1>4, Zenon DEF FrameOf
  <2> HIDE DEF l, i
  <2>4. LET b == BeginFrame(l, i)
        IN /\ b \in Assemblers
           /\ b.have /\ b.index = i /\ ~b.finished
           /\ b.key = sent[i].key /\ b.slices = sent[i].slices
           /\ b.first = IF l.have THEN l.first ELSE i
           /\ b.waiting = l.waiting /\ b.lost = l.lost /\ b.out = l.out
           /\ b.delivered = l.delivered /\ b.skipped = l.skipped
           /\ b.beyond = l.beyond + Uncounted(l, i)
    BY <1>1, <2>1, <2>2, BeginFrameEffect, Zenon DEF Agree, i
  <2>5. Behind(a, i) = UpTo(a, i) /\ Left(a, i) = Uncounted(l, i)
    BY <1>4, <2>2, Zenon DEF Behind, Left, Uncounted, Gap, Agree
  <2> QED
    BY <2>2, <2>3, <2>4, <2>5, Zenon DEF Begun, Agree, i
<1> QED
  BY <1>3, <1>4

\* What one packet does, in terms of the frame it belongs to.
LEMMA OnPacketEffect ==
  ASSUME SentTyped, NEW a \in Assemblers, Tracks(a), NEW p \in Arrivable,
         NEW rebuilds \in BOOLEAN
  PROVE  LET r == OnPacket(a, p, rebuilds)
         IN /\ r \in Assemblers
            /\ \/ r = a
               \/ \E b \in Assemblers :
                    /\ ~TooLate(a, p)
                    /\ Begun(a, b, p.index)
                    /\ \/ Agree(b, r) /\ r.waiting = b.waiting /\ r.lost = b.lost
                       \/ EndsLost(b, r) \/ EndsSkipped(b, r) \/ EndsDelivered(b, r)
<1> DEFINE r == OnPacket(a, p, rebuilds)
           b == FrameOf(a, p)
           c == IF b.slices = 0 THEN [b EXCEPT !.bulk = AddShard(@, p)]
                                ELSE AddSliceShard(b, p, rebuilds)
<1>1. CASE TooLate(a, p)
  BY <1>1, Zenon DEF OnPacket
<1>2. CASE ~TooLate(a, p)
  <2>1. b \in Assemblers /\ Begun(a, b, p.index)
    BY <1>2, FrameOfEffect
  <2>2. r = IF FrameComplete(c) THEN FinishCurrent(c, rebuilds) ELSE c
    BY <1>2, Zenon DEF OnPacket
  <2> HIDE DEF b, r
  <2>3. p \in PacketType /\ (b.slices # 0 => p.slice \in SliceIndices)
    BY <2>1, PacketFacts, Zenon DEF Begun
  <2>4. c \in Assemblers /\ Agree(b, c) /\ c.waiting = b.waiting /\ c.lost = b.lost
    <3>1. CASE b.slices = 0
      <4>1. \A w \in Words : [b EXCEPT !.bulk = w] \in Assemblers
        BY <2>1, Zenon DEF Assemblers
      <4>2. AddShard(b.bulk, p) \in Words
        BY <2>1, <2>3, AddShardType DEF Assemblers
      <4>3. c = [b EXCEPT !.bulk = AddShard(b.bulk, p)]
        BY <3>1, Zenon
      <4>4. \A w : Agree(b, [b EXCEPT !.bulk = w])
        BY <2>1, AssemblerFields, Zenon DEF Agree
      <4>5. \A w : /\ [b EXCEPT !.bulk = w].waiting = b.waiting
                   /\ [b EXCEPT !.bulk = w].lost = b.lost
        BY <2>1, AssemblerFields, Zenon
      <4> QED
        BY <4>1, <4>2, <4>3, <4>4, <4>5, Zenon
    <3>2. CASE b.slices # 0
      <4>1. c = AddSliceShard(b, p, rebuilds)
        BY <3>2, Zenon
      <4> QED
        BY <2>1, <2>3, <3>2, <4>1, AddSliceShardKeeps, Zenon
    <3> QED
      BY <3>1, <3>2
  <2> HIDE DEF c
  <2>5. CASE ~FrameComplete(c)
    BY <1>2, <2>1, <2>2, <2>4, <2>5, Zenon DEF r
  <2>6. CASE FrameComplete(c)
    <3>1. r = FinishCurrent(c, rebuilds)
      BY <2>2, <2>6, Zenon
    <3>2. r \in Assemblers /\ (EndsLost(c, r) \/ EndsSkipped(c, r) \/ EndsDelivered(c, r))
      BY <2>4, <3>1, FinishCurrentEffect
    <3>3. CASE EndsLost(c, r)
      <4>1. EndsLost(b, r)
        BY <2>4, <3>3, Zenon DEF EndsLost, Agree, Same
      <4> QED
        BY <1>2, <2>1, <3>2, <4>1, Zenon DEF r
    <3>4. CASE EndsSkipped(c, r)
      <4>1. EndsSkipped(b, r)
        BY <2>4, <3>4, Zenon DEF EndsSkipped, Agree, Same
      <4> QED
        BY <1>2, <2>1, <3>2, <4>1, Zenon DEF r
    <3>5. CASE EndsDelivered(c, r)
      <4>1. EndsDelivered(b, r)
        BY <2>4, <3>5, Zenon DEF EndsDelivered, Agree, Same
      <4> QED
        BY <1>2, <2>1, <3>2, <4>1, Zenon DEF r
    <3> QED
      BY <3>2, <3>3, <3>4, <3>5
  <2> QED
    BY <2>5, <2>6
<1> QED
  BY <1>1, <1>2

-----------------------------------------------------------------------------
(* The inductive invariant.                                                *)

\* What the sender promises: a frame's reference is the newest encoded before
\* it, so no sent frame lies between the two.
SentInv ==
  /\ encoded < next
  /\ \A i \in DOMAIN sent : i <= encoded
  /\ \A i \in DOMAIN sent : ~sent[i].key => sent[i].ref < i
  /\ \A i, j \in DOMAIN sent : j < i /\ ~sent[i].key => j <= sent[i].ref

\* Before the frame in progress, or that frame itself once finished.
Newest(a) == IF a.finished THEN a.index ELSE a.index - 1

\* While the chain holds, the last frame handed over is the newest finished
\* one; it is never newer than that.
ChainInv ==
  /\ Tracks(asm)
  /\ asm.out = NoFrame
  /\ ~asm.have => /\ asm.waiting
                  /\ handed = NoFrame
                  /\ asm.delivered = 0 /\ asm.lost = 0 /\ asm.skipped = 0 /\ asm.beyond = 0
  /\ handed = NoFrame \/ (handed.index \in DOMAIN sent /\ handed.index <= Newest(asm))
  /\ ~asm.waiting => handed.index \in DOMAIN sent /\ handed.index = Newest(asm)

IInv == AssemblerTypeOK /\ SentInv /\ ChainInv /\ EveryFrameCountedOnce

\* Taking the Output out of a record leaves the rest.
LEMMA CalledKeeps ==
  ASSUME NEW a \in Assemblers
  PROVE  /\ Called(a) \in Assemblers
         /\ Same(a, Called(a)) /\ Called(a).finished = a.finished
         /\ Called(a).waiting = a.waiting /\ Called(a).out = NoFrame
         /\ Called(a).delivered = a.delivered /\ Called(a).lost = a.lost
         /\ Called(a).skipped = a.skipped
<1> DEFINE C(x) == [a EXCEPT !.out = x, !.idr = FALSE]
<1>1. \A x \in Frames : C(x) \in Assemblers
  BY Zenon DEF Assemblers
<1>2. Called(a) \in Assemblers
  BY <1>1, NewTypes, Zenon DEF Called
<1>3. /\ Same(a, Called(a)) /\ Called(a).finished = a.finished
      /\ Called(a).waiting = a.waiting
  BY AssemblerFields, Zenon DEF Called, Same
<1>4. /\ Called(a).out = NoFrame
      /\ Called(a).delivered = a.delivered /\ Called(a).lost = a.lost
      /\ Called(a).skipped = a.skipped
  BY AssemblerFields, Zenon DEF Called
<1> QED
  BY <1>2, <1>3, <1>4

\* The fields of an assembler that are counted with.
LEMMA FieldTypes ==
  ASSUME NEW a \in Assemblers
  PROVE  /\ a.index \in Nat /\ a.index <= MaxIndex /\ a.first \in Int
         /\ a.delivered \in Nat /\ a.lost \in Nat /\ a.skipped \in Nat
         /\ a.beyond \in Nat
         /\ a.have \in BOOLEAN /\ a.finished \in BOOLEAN /\ a.waiting \in BOOLEAN
         /\ a.key \in BOOLEAN /\ a.out \in Frames
<1>1. a.index \in Indices /\ a.first \in {NoIndex} \cup Indices
  BY DEF Assemblers
<1>2. a.index \in Nat /\ a.index <= MaxIndex /\ a.first \in Int
  BY <1>1, AssemblerAssumption, SMT DEF Indices, NoIndex, AssemblerAssumption
<1> QED
  BY <1>2 DEF Assemblers

\* Behind() in numbers.
LEMMA BehindFacts ==
  ASSUME NEW a \in Assemblers, NEW i \in Indices, a.have => i >= a.index,
         a.have /\ i = a.index => ~a.finished
  PROVE  /\ Behind(a, i) \in Nat
         /\ a.have => Newest(a) < i
         /\ a.have /\ Behind(a, i) = 0 => Newest(a) = i - 1
         /\ a.have => Behind(a, i) + Left(a, i) = i - 1 - Newest(a) /\ Left(a, i) \in Nat
         /\ ~a.have => Behind(a, i) = 0 /\ Left(a, i) = 0
<1>1. /\ a.index \in Nat /\ a.index <= MaxIndex /\ i \in Nat /\ i <= MaxIndex /\ MaxIndex \in Nat
      /\ MaxCountedGap \in Nat \ {0}
  BY FieldTypes, AssemblerAssumption, SMT DEF Indices, AssemblerAssumption
<1>2. CASE ~a.have
  BY <1>1, <1>2, SMT DEF Behind, UpTo, Left, Uncounted
<1>3. CASE a.have /\ i = a.index
  BY <1>1, <1>3, SMT DEF Behind, Left, Newest
<1>4. CASE a.have /\ i # a.index /\ a.finished
  BY <1>1, <1>4, SMT DEF Behind, UpTo, Left, Uncounted, Newest, Gap
<1>5. CASE a.have /\ i # a.index /\ ~a.finished
  BY <1>1, <1>5, SMT DEF Behind, UpTo, Left, Uncounted, Newest, Gap
<1> QED
  BY <1>2, <1>3, <1>4, <1>5

\* What a step of the assembler does to the frames handed over.
Handover ==
  \/ /\ handed' = handed
     /\ asm'.waiting \/ asm'.waiting = asm.waiting
  \/ /\ ~asm'.waiting
     /\ handed' \in Frames
     /\ handed'.index > handed.index
     /\ \/ handed'.key
        \/ /\ ~asm.waiting
           /\ handed'.index = handed.index + 1
           /\ sent[handed'.index].ref = handed.index

LEMMA PacketStep ==
  ASSUME IInv, ReceivePacket
  PROVE  AssemblerTypeOK' /\ ChainInv' /\ EveryFrameCountedOnce' /\ Handover
<1> DEFINE a == asm
<1>1. SentTyped /\ a \in Assemblers /\ Tracks(a) /\ handed \in Frames /\ a.out = NoFrame
  BY DEF IInv, AssemblerTypeOK, SentTyped, ChainInv
<1>2. PICK p \in Arrivable, rebuilds \in BOOLEAN : Returns(OnPacket(a, p, rebuilds))
  BY DEF ReceivePacket
<1> DEFINE r == OnPacket(a, p, rebuilds)
           i == p.index
<1>3. asm' = Called(r) /\ handed' = IF r.out = NoFrame THEN handed ELSE r.out
  BY <1>2 DEF Returns
<1>4. UNCHANGED senderVars
  BY DEF ReceivePacket
<1>5. /\ r \in Assemblers
      /\ \/ r = a
         \/ \E b \in Assemblers :
              /\ ~TooLate(a, p)
              /\ Begun(a, b, i)
              /\ \/ Agree(b, r) /\ r.waiting = b.waiting /\ r.lost = b.lost
                 \/ EndsLost(b, r) \/ EndsSkipped(b, r) \/ EndsDelivered(b, r)
  BY <1>1, OnPacketEffect
<1>6. i \in DOMAIN sent /\ i \in Indices /\ i \in Nat /\ i <= MaxIndex /\ NoIndex \notin DOMAIN sent
  BY <1>1, PacketFacts, AssemblerAssumption, SMT DEF SentTyped, Indices, NoIndex, AssemblerAssumption
<1> HIDE DEF r, i
<1>7. /\ asm' \in Assemblers
      /\ Same(r, asm') /\ asm'.finished = r.finished
      /\ asm'.waiting = r.waiting /\ asm'.out = NoFrame
      /\ asm'.delivered = r.delivered /\ asm'.lost = r.lost /\ asm'.skipped = r.skipped
  BY <1>3, <1>5, CalledKeeps
<1>8. handed' \in Frames
  BY <1>1, <1>3, <1>5, FieldTypes
<1>9. AssemblerTypeOK'
  BY <1>4, <1>7, <1>8 DEF IInv, AssemblerTypeOK, senderVars
<1>11. CASE r = a
  <2>1. handed' = handed
    BY <1>1, <1>3, <1>11
  <2>2. Newest(asm)' = Newest(asm)
    BY <1>7, <1>11, Zenon DEF Newest, Same
  <2>3. Tracks(asm)'
    BY <1>1, <1>4, <1>7, <1>11, Zenon DEF Tracks, Same, senderVars
  <2>4. ChainInv'
    BY <1>4, <1>7, <1>11, <2>1, <2>2, <2>3, Zenon DEF IInv, ChainInv, Same, senderVars
  <2>5. EveryFrameCountedOnce'
    BY <1>7, <1>11, Zenon DEF IInv, EveryFrameCountedOnce, Same
  <2> QED
    BY <1>7, <1>9, <1>11, <2>1, <2>4, <2>5 DEF Handover
<1>12. CASE r # a
  <2>1. PICK b \in Assemblers :
           /\ ~TooLate(a, p)
           /\ Begun(a, b, i)
           /\ \/ Agree(b, r) /\ r.waiting = b.waiting /\ r.lost = b.lost
              \/ EndsLost(b, r) \/ EndsSkipped(b, r) \/ EndsDelivered(b, r)
    BY <1>5, <1>12
  <2>2. (a.have => i >= a.index) /\ (a.have /\ i = a.index => ~a.finished)
    BY <1>1, <1>6, <2>1, FieldTypes, SMT DEF TooLate, i
  <2>3. /\ Behind(a, i) \in Nat
        /\ a.have => Newest(a) < i
        /\ a.have /\ Behind(a, i) = 0 => Newest(a) = i - 1
        /\ a.have => Behind(a, i) + Left(a, i) = i - 1 - Newest(a) /\ Left(a, i) \in Nat
        /\ ~a.have => Behind(a, i) = 0 /\ Left(a, i) = 0
    BY <1>1, <1>6, <2>2, BehindFacts
  <2>4. asm'.have /\ asm'.index = i /\ asm'.key = sent[i].key /\ asm'.slices = sent[i].slices
        /\ asm'.first = IF a.have THEN a.first ELSE i
    BY <1>7, <2>1, Zenon DEF Begun, Agree, Same, EndsLost, EndsSkipped, EndsDelivered
  <2>15. asm'.beyond = b.beyond
    <3>1. r.beyond = b.beyond
      BY <2>1, Zenon DEF Agree, Same, EndsLost, EndsSkipped, EndsDelivered
    <3> QED
      BY <1>7, <3>1, Zenon DEF Same
  <2>5. Tracks(asm)'
    BY <1>4, <1>6, <2>4, Zenon DEF Tracks, senderVars
  <2>6. /\ handed.index \in Int
        /\ handed = NoFrame => handed.index = -1
        /\ handed = NoFrame \/ (a.have /\ handed.index \in DOMAIN sent /\ handed.index <= Newest(a))
    <3>1. handed.index \in {NoIndex} \cup Indices
      BY <1>1 DEF Frames
    <3>2. handed.index \in Int
      BY <3>1, AssemblerAssumption, SMT DEF NoIndex, Indices, AssemblerAssumption
    <3>3. NoFrame.index = -1
      BY DEF NoFrame, NoIndex
    <3> QED
      BY <3>2, <3>3 DEF IInv, ChainInv
  <2>7. handed.index < i
    BY <1>1, <1>6, <2>3, <2>6, FieldTypes, SMT DEF Newest
  <2>8. /\ b.delivered \in Nat /\ b.lost \in Nat /\ b.skipped \in Nat /\ asm'.first \in Int
        /\ b.waiting \in BOOLEAN /\ a.waiting \in BOOLEAN /\ a.have \in BOOLEAN
        /\ a.delivered \in Nat /\ a.lost \in Nat /\ a.skipped \in Nat
        /\ a.first \in Int /\ a.index \in Nat /\ b.key \in BOOLEAN
        /\ a.beyond \in Nat /\ b.beyond \in Nat
        /\ asm'.delivered \in Nat /\ asm'.lost \in Nat /\ asm'.skipped \in Nat
    BY <1>1, <1>7, <2>1, FieldTypes
  <2>9. /\ b.lost = a.lost + Behind(a, i) /\ b.delivered = a.delivered
        /\ b.skipped = a.skipped /\ b.out = NoFrame /\ b.key = sent[i].key
        /\ b.beyond = a.beyond + Left(a, i)
    BY <1>1, <2>1, Zenon DEF Begun
  <2>10. b.delivered + b.lost + b.skipped + b.beyond = i - asm'.first
    <3>1. CASE a.have
      <4>1. asm'.first = a.first
        BY <2>4, <3>1
      <4>2. a.delivered + a.lost + a.skipped + a.beyond = Newest(a) + 1 - a.first
        <5>1. a.delivered + a.lost + a.skipped + a.beyond =
                  a.index - a.first + (IF a.finished THEN 1 ELSE 0)
          BY <3>1 DEF IInv, EveryFrameCountedOnce
        <5>2. CASE a.finished
          BY <2>8, <5>1, <5>2, SMT DEF Newest
        <5>3. CASE ~a.finished
          BY <2>8, <5>1, <5>3, SMT DEF Newest
        <5> QED
          BY <5>2, <5>3
      <4>3. Newest(a) \in Int
        BY <2>8, SMT DEF Newest
      <4>4. Behind(a, i) + Left(a, i) = i - 1 - Newest(a)
            /\ Behind(a, i) \in Nat /\ Left(a, i) \in Nat
        BY <2>3, <3>1
      <4>5. b.delivered + b.lost + b.skipped + b.beyond =
              (a.delivered + a.lost + a.skipped + a.beyond) + (Behind(a, i) + Left(a, i))
        <5> HIDE DEF a
        <5> QED
          BY <2>8, <2>9, <4>4, SMT
      <4>6. (Newest(a) + 1 - a.first) + (i - 1 - Newest(a)) = i - a.first
        <5>1. a.first \in Int /\ i \in Int
          BY <1>6, <2>8
        <5> HIDE DEF a
        <5> QED
          BY <4>3, <5>1, SMT
      <4> QED
        BY <4>1, <4>2, <4>4, <4>5, <4>6, Zenon
    <3>2. CASE ~a.have
      <4>1. a.delivered = 0 /\ a.lost = 0 /\ a.skipped = 0 /\ a.beyond = 0
        BY <3>2 DEF IInv, ChainInv
      <4>2. asm'.first = i
        BY <2>4, <3>2
      <4> QED
        BY <1>6, <2>3, <2>8, <2>9, <3>2, <4>1, <4>2, SMT
    <3> QED
      BY <3>1, <3>2
  <2>11. ~b.waiting => ~a.waiting /\ handed.index = i - 1 /\ i - 1 \in DOMAIN sent
    <3> SUFFICES ASSUME ~b.waiting
                 PROVE  ~a.waiting /\ handed.index = i - 1 /\ i - 1 \in DOMAIN sent
      OBVIOUS
    <3>1. ~a.waiting /\ ~(Behind(a, i) > 0)
      BY <2>1, Zenon DEF Begun
    <3>2. a.have
      BY <3>1 DEF IInv, ChainInv
    <3>3. Behind(a, i) = 0
      BY <2>3, <3>1, SMT
    <3>4. Newest(a) = i - 1
      BY <2>3, <3>2, <3>3
    <3> QED
      BY <3>1, <3>4 DEF IInv, ChainInv
  <2>12. CASE Agree(b, r) /\ r.waiting = b.waiting /\ r.lost = b.lost
    <3>1. handed' = handed /\ asm'.waiting = b.waiting /\ ~asm'.finished
      BY <1>3, <1>7, <2>1, <2>9, <2>12, Zenon DEF Agree, Begun
    <3>2. Newest(asm)' = i - 1
      BY <2>4, <3>1, Zenon DEF Newest
    <3>3. handed = NoFrame \/ (handed.index \in DOMAIN sent /\ handed.index <= i - 1)
      BY <1>6, <2>6, <2>7, SMT
    <3>4. ChainInv'
      BY <1>4, <1>7, <2>4, <2>5, <2>11, <3>1, <3>2, <3>3, Zenon DEF ChainInv, senderVars
    <3>5. asm'.delivered = b.delivered /\ asm'.lost = b.lost /\ asm'.skipped = b.skipped
      BY <1>7, <2>12, Zenon DEF Agree
    <3>6. EveryFrameCountedOnce'
      BY <1>6, <2>4, <2>8, <2>10, <2>15, <3>1, <3>5, SMT DEF EveryFrameCountedOnce
    <3>7. asm'.waiting \/ asm'.waiting = asm.waiting
      BY <2>8, <2>11, <3>1, Zenon
    <3> QED
      BY <1>9, <3>1, <3>4, <3>6, <3>7 DEF Handover
  <2>13. CASE EndsLost(b, r) \/ EndsSkipped(b, r)
    <3>1. handed' = handed /\ asm'.waiting /\ asm'.finished
      BY <1>3, <1>7, <2>9, <2>13, Zenon DEF EndsLost, EndsSkipped
    <3>2. Newest(asm)' = i
      BY <2>4, <3>1, Zenon DEF Newest
    <3>3. handed = NoFrame \/ (handed.index \in DOMAIN sent /\ handed.index <= i)
      BY <1>6, <2>6, <2>7, SMT
    <3>4. ChainInv'
      BY <1>4, <1>7, <2>4, <2>5, <3>1, <3>2, <3>3, Zenon DEF ChainInv, senderVars
    <3>5. asm'.delivered + asm'.lost + asm'.skipped = b.delivered + b.lost + b.skipped + 1
      <4>1. CASE EndsLost(b, r)
        BY <1>7, <2>8, <4>1, SMT DEF EndsLost
      <4>2. CASE EndsSkipped(b, r)
        BY <1>7, <2>8, <4>2, SMT DEF EndsSkipped
      <4> QED
        BY <2>13, <4>1, <4>2
    <3>6. EveryFrameCountedOnce'
      BY <1>6, <2>4, <2>8, <2>10, <2>15, <3>1, <3>5, SMT DEF EveryFrameCountedOnce
    <3> QED
      BY <1>9, <3>1, <3>4, <3>6 DEF Handover
  <2>14. CASE EndsDelivered(b, r)
    <3>1. r.out.index = i /\ r.out.key = sent[i].key /\ r.out # NoFrame
      <4>1. r.out.index = i /\ r.out.key = sent[i].key
        BY <2>1, <2>9, <2>14, Zenon DEF EndsDelivered, Begun
      <4>2. NoFrame.index \notin DOMAIN sent
        BY <1>6 DEF NoFrame
      <4> QED
        BY <1>6, <4>1, <4>2
    <3>2. handed' = r.out /\ ~asm'.waiting /\ asm'.finished
      BY <1>3, <1>7, <2>14, <3>1, Zenon DEF EndsDelivered
    <3>3. Newest(asm)' = i
      BY <2>4, <3>2, Zenon DEF Newest
    <3>4. ChainInv'
      <4>1. handed'.index = i /\ handed'.index <= i
        BY <1>6, <3>1, <3>2, SMT
      <4> QED
        BY <1>4, <1>6, <1>7, <2>4, <2>5, <3>2, <3>3, <4>1, Zenon DEF ChainInv, senderVars
    <3>5. asm'.delivered + asm'.lost + asm'.skipped = b.delivered + b.lost + b.skipped + 1
      BY <1>7, <2>8, <2>14, SMT DEF EndsDelivered
    <3>6. EveryFrameCountedOnce'
      BY <1>6, <2>4, <2>8, <2>10, <2>15, <3>2, <3>5, SMT DEF EveryFrameCountedOnce
    <3>7. handed'.index > handed.index
      BY <1>6, <2>6, <2>7, <3>1, <3>2, SMT
    <3>8. handed'.key \/ (~asm.waiting /\ handed.index = i - 1 /\ i - 1 \in DOMAIN sent)
      BY <2>9, <2>11, <2>14, <3>1, <3>2, Zenon DEF EndsDelivered
    <3>9. handed'.key \/ sent[i].ref = i - 1
      <4> SUFFICES ASSUME ~handed'.key
                   PROVE  sent[i].ref = i - 1
        OBVIOUS
      <4>1. ~sent[i].key /\ i - 1 \in DOMAIN sent
        BY <3>1, <3>2, <3>8
      <4>2. sent[i].ref < i /\ (i - 1 < i => i - 1 <= sent[i].ref)
        BY <1>6, <4>1 DEF IInv, SentInv
      <4>3. sent[i].ref \in {NoIndex} \cup Indices
        BY <1>1, <1>6 DEF SentTyped, FrameInfo
      <4> QED
        BY <1>6, <4>2, <4>3, AssemblerAssumption, SMT DEF NoIndex, Indices, AssemblerAssumption
    <3>10. \/ handed'.key
           \/ /\ ~asm.waiting
              /\ handed'.index = handed.index + 1
              /\ sent[handed'.index].ref = handed.index
      <4>1. handed'.index = i
        BY <3>1, <3>2
      <4>2. handed.index = i - 1 => i = handed.index + 1
        BY <1>6, SMT
      <4>3. CASE handed'.key
        BY <4>3
      <4>4. CASE ~handed'.key
        <5>1. ~asm.waiting /\ handed'.index = handed.index + 1
          BY <3>8, <4>1, <4>2, <4>4
        <5>2. sent[handed'.index].ref = handed.index
          BY <3>8, <3>9, <4>1, <4>4
        <5> QED
          BY <5>1, <5>2
      <4> QED
        BY <4>3, <4>4
    <3> QED
      BY <1>8, <1>9, <3>2, <3>4, <3>6, <3>7, <3>10 DEF Handover
  <2> QED
    BY <2>1, <2>12, <2>13, <2>14
<1> QED
  BY <1>11, <1>12

\* The other steps.
LEMMA PresentsStep ==
  ASSUME IInv, Presents
  PROVE  IInv' /\ UNCHANGED <<asm, handed>>
<1>1. PICK key \in BOOLEAN, slices \in {0, MaxSlices} : Present(key, slices)
  BY DEF Presents
<1>2. UNCHANGED <<asm, handed, run>> /\ next' = next + 1 /\ next <= MaxIndex
  BY <1>1 DEF Presents, Present
<1>3. /\ next \in Nat /\ encoded \in Int /\ encoded < next /\ DOMAIN sent \subseteq Indices
      /\ next \in Indices /\ MaxIndex \in Nat
  BY <1>2, AssemblerAssumption, SMT
     DEF IInv, AssemblerTypeOK, SentInv, Indices, NoIndex, AssemblerAssumption
<1>4. \A i \in DOMAIN sent : i \in Nat /\ i < next
  BY <1>3, SMT DEF IInv, SentInv, Indices
<1>5. next' \in 0 .. MaxIndex + 1
  BY <1>2, <1>3, SMT
<1>6. CASE UNCHANGED <<encoded, sent>>
  <2>1. AssemblerTypeOK'
    BY <1>2, <1>5, <1>6 DEF IInv, AssemblerTypeOK
  <2>2. SentInv'
    BY <1>2, <1>3, <1>6, SMT DEF IInv, SentInv
  <2>3. ChainInv' /\ EveryFrameCountedOnce'
    BY <1>2, <1>6 DEF IInv, ChainInv, Tracks, Newest, EveryFrameCountedOnce
  <2> QED
    BY <1>2, <2>1, <2>2, <2>3 DEF IInv
<1>7. CASE encoded' = next /\ UNCHANGED sent
  <2>1. AssemblerTypeOK'
    BY <1>2, <1>3, <1>5, <1>7 DEF IInv, AssemblerTypeOK
  <2>2. SentInv'
    BY <1>2, <1>3, <1>4, <1>7, SMT DEF IInv, SentInv
  <2>3. ChainInv' /\ EveryFrameCountedOnce'
    BY <1>2, <1>7 DEF IInv, ChainInv, Tracks, Newest, EveryFrameCountedOnce
  <2> QED
    BY <1>2, <2>1, <2>2, <2>3 DEF IInv
<1> DEFINE info == [key |-> key, slices |-> slices, ref |-> IF key THEN NoIndex ELSE encoded]
<1>8. CASE /\ encoded' = next
           /\ sent' = [i \in DOMAIN sent \cup {next} |-> IF i = next THEN info ELSE sent[i]]
  <2>1. info \in FrameInfo /\ (~info.key => info.ref = encoded)
    BY DEF FrameInfo, IInv, AssemblerTypeOK
  <2> HIDE DEF info
  <2>2. next \notin DOMAIN sent
    BY <1>3, <1>4, SMT
  <2>3. /\ DOMAIN sent' = DOMAIN sent \cup {next}
        /\ \A i \in DOMAIN sent : sent'[i] = sent[i]
        /\ sent'[next] = info
        /\ sent' = [i \in DOMAIN sent' |-> sent'[i]]
    BY <1>8, <2>2
  <2>4. DOMAIN sent' \subseteq Indices
    BY <1>3, <2>3
  <2>5. sent' \in [DOMAIN sent' -> FrameInfo]
    BY <2>1, <2>3 DEF IInv, AssemblerTypeOK
  <2>6. AssemblerTypeOK'
    BY <1>2, <1>3, <1>5, <1>8, <2>4, <2>5 DEF IInv, AssemblerTypeOK
  <2>7. SentInv'
    <3>1. encoded' < next' /\ \A i \in DOMAIN sent' : i <= encoded'
      BY <1>2, <1>3, <1>4, <1>8, <2>3, SMT
    <3>2. \A i \in DOMAIN sent' : ~sent'[i].key => sent'[i].ref < i
      BY <1>3, <2>1, <2>3 DEF IInv, SentInv
    <3>3. \A i, j \in DOMAIN sent' : j < i /\ ~sent'[i].key => j <= sent'[i].ref
      <4> SUFFICES ASSUME NEW i \in DOMAIN sent', NEW j \in DOMAIN sent', j < i, ~sent'[i].key
                   PROVE  j <= sent'[i].ref
        OBVIOUS
      <4>1. CASE i = next
        <5>1. j \in DOMAIN sent
          BY <1>3, <2>3, <4>1, SMT
        <5> QED
          BY <2>1, <2>3, <4>1, <5>1 DEF IInv, SentInv
      <4>2. CASE i # next
        <5>1. i \in DOMAIN sent /\ i < next
          BY <1>4, <2>3, <4>2
        <5>2. j # next
          BY <1>3, <1>4, <5>1, SMT
        <5>3. j \in DOMAIN sent
          BY <2>3, <5>2
        <5> QED
          BY <2>3, <5>1, <5>3 DEF IInv, SentInv
      <4> QED
        BY <4>1, <4>2
    <3> QED
      BY <3>1, <3>2, <3>3 DEF SentInv
  <2>8. Tracks(asm)'
    BY <1>2, <2>3 DEF IInv, ChainInv, Tracks
  <2>9. ChainInv' /\ EveryFrameCountedOnce'
    BY <1>2, <2>3, <2>8 DEF IInv, ChainInv, Newest, EveryFrameCountedOnce
  <2> QED
    BY <1>2, <2>6, <2>7, <2>9 DEF IInv
<1> QED
  BY <1>1, <1>6, <1>7, <1>8 DEF Present

LEMMA TimeoutStep ==
  ASSUME IInv, FrameTimeout
  PROVE  IInv' /\ UNCHANGED handed /\ asm'.waiting
<1> DEFINE a == asm
           f == [a EXCEPT !.finished = TRUE]
           r == LoseFrames(f, 1)
<1>1. a \in Assemblers /\ Tracks(a) /\ a.have /\ ~a.finished /\ a.out = NoFrame
  BY DEF IInv, AssemblerTypeOK, ChainInv, FrameTimeout
<1>2. /\ f \in Assemblers
      /\ Same(a, f) /\ f.finished /\ f.waiting = a.waiting /\ f.lost = a.lost
      /\ f.delivered = a.delivered /\ f.skipped = a.skipped /\ f.out = a.out
  <2>1. f \in Assemblers
    BY <1>1, Zenon DEF Assemblers
  <2> QED
    BY <1>1, <2>1, AssemblerFields, Zenon DEF Same
<1>3. asm' = Called(r) /\ handed' = IF r.out = NoFrame THEN handed ELSE r.out
  BY DEF FrameTimeout, Returns, TimedOut
<1> HIDE DEF f
<1>4. r \in Assemblers /\ Agree(f, r) /\ r.waiting /\ r.lost = f.lost + 1
  BY <1>2, LoseFramesEffect, SMT
<1> HIDE DEF r
<1>5. /\ asm' \in Assemblers
      /\ Same(r, asm') /\ asm'.finished = r.finished /\ asm'.waiting = r.waiting
      /\ asm'.out = NoFrame /\ asm'.delivered = r.delivered /\ asm'.lost = r.lost
      /\ asm'.skipped = r.skipped
  BY <1>3, <1>4, CalledKeeps
<1>6. /\ asm'.have /\ asm'.finished /\ asm'.waiting /\ asm'.index = a.index
      /\ asm'.key = a.key /\ asm'.slices = a.slices /\ asm'.first = a.first
      /\ asm'.delivered = a.delivered /\ asm'.skipped = a.skipped /\ asm'.beyond = a.beyond
  BY <1>1, <1>2, <1>4, <1>5, Zenon DEF Same, Agree
<1>7. asm'.lost = a.lost + 1
  BY <1>2, <1>4, <1>5
<1>8. UNCHANGED handed
  BY <1>1, <1>2, <1>3, <1>4, Zenon DEF Agree
<1>9. UNCHANGED senderVars
  BY DEF FrameTimeout
<1>10. AssemblerTypeOK' /\ SentInv'
  BY <1>5, <1>8, <1>9 DEF IInv, AssemblerTypeOK, SentInv, senderVars
<1>11. ChainInv'
  <2>1. Tracks(asm)'
    BY <1>1, <1>6, <1>9, Zenon DEF Tracks, senderVars
  <2>2. Newest(asm) = a.index - 1 /\ Newest(asm)' = a.index
    BY <1>1, <1>6, Zenon DEF Newest
  <2>3. handed.index \in DOMAIN sent /\ handed.index <= a.index - 1 => handed.index <= a.index
    BY <1>1, FieldTypes, SMT DEF IInv, AssemblerTypeOK, Indices
  <2>4. handed = NoFrame \/ (handed.index \in DOMAIN sent /\ handed.index <= a.index)
    BY <2>2, <2>3 DEF IInv, ChainInv
  <2> QED
    BY <1>5, <1>6, <1>8, <1>9, <2>1, <2>2, <2>4, Zenon DEF ChainInv, senderVars
<1>12. EveryFrameCountedOnce'
  BY <1>1, <1>6, <1>7, FieldTypes, SMT DEF IInv, EveryFrameCountedOnce
<1> QED
  BY <1>6, <1>8, <1>10, <1>11, <1>12 DEF IInv

\* A record with the same fields but a broken chain, or another rate limit.
LEMMA WaitingKeepsIInv ==
  ASSUME IInv, UNCHANGED <<senderVars, handed>>, asm' \in Assemblers,
         Same(asm, asm'), asm'.finished = asm.finished, asm'.out = NoFrame,
         asm'.waiting \/ asm'.waiting = asm.waiting,
         asm'.lost = asm.lost, asm'.delivered = asm.delivered, asm'.skipped = asm.skipped
  PROVE  IInv'
<1>1. AssemblerTypeOK' /\ SentInv'
  BY DEF IInv, AssemblerTypeOK, SentInv, senderVars
<1>2. Tracks(asm)' /\ Newest(asm)' = Newest(asm)
  BY Zenon DEF IInv, ChainInv, Tracks, Newest, Same, senderVars
<1>3. ChainInv'
  <2>1. asm.waiting \in BOOLEAN /\ asm'.waiting \in BOOLEAN
    BY DEF IInv, AssemblerTypeOK, Assemblers
  <2> QED
    BY <1>2, <2>1, Zenon DEF IInv, ChainInv, Same, senderVars
<1>4. EveryFrameCountedOnce'
  BY Zenon DEF IInv, EveryFrameCountedOnce, Same
<1> QED
  BY <1>1, <1>3, <1>4 DEF IInv

LEMMA RequireKeyframeStep ==
  ASSUME IInv, ConsumerRequiresKeyframe
  PROVE  IInv' /\ UNCHANGED handed /\ asm'.waiting
<1> DEFINE f == [asm EXCEPT !.waiting = TRUE]
           r == AskForIdr(f)
<1>1. asm \in Assemblers /\ asm.out = NoFrame
  BY DEF IInv, AssemblerTypeOK, ChainInv
<1>2. f \in Assemblers
  BY <1>1, Zenon DEF Assemblers
<1>3. /\ Same(asm, f) /\ f.waiting /\ f.lost = asm.lost /\ f.finished = asm.finished
      /\ f.delivered = asm.delivered /\ f.skipped = asm.skipped /\ f.out = asm.out
  BY <1>1, AssemblerFields, Zenon DEF Same
<1>4. /\ asm' = Called(r) /\ handed' = IF r.out = NoFrame THEN handed ELSE r.out
      /\ UNCHANGED senderVars
  BY DEF ConsumerRequiresKeyframe, Returns, RequireKeyframe
<1> HIDE DEF f
<1>5. r \in Assemblers /\ Agree(f, r) /\ r.waiting = f.waiting /\ r.lost = f.lost
  BY <1>2, AskForIdrKeeps
<1> HIDE DEF r
<1>6. /\ asm' \in Assemblers
      /\ Same(r, asm') /\ asm'.finished = r.finished /\ asm'.waiting = r.waiting
      /\ asm'.out = NoFrame /\ asm'.delivered = r.delivered /\ asm'.lost = r.lost
      /\ asm'.skipped = r.skipped
  BY <1>4, <1>5, CalledKeeps
<1>7. UNCHANGED handed
  BY <1>1, <1>3, <1>4, <1>5, Zenon DEF Agree
<1>8. /\ Same(asm, asm') /\ asm'.finished = asm.finished /\ asm'.waiting
      /\ asm'.lost = asm.lost /\ asm'.delivered = asm.delivered /\ asm'.skipped = asm.skipped
  BY <1>3, <1>5, <1>6, Zenon DEF Same, Agree
<1> QED
  BY <1>4, <1>6, <1>7, <1>8, WaitingKeepsIInv

LEMMA IdrWindowStep ==
  ASSUME IInv, IdrWindowEnds
  PROVE  IInv' /\ UNCHANGED handed /\ asm'.waiting = asm.waiting
<1>1. asm \in Assemblers /\ asm.out = NoFrame
  BY DEF IInv, AssemblerTypeOK, ChainInv
<1>2. asm' = [asm EXCEPT !.asked = FALSE] /\ UNCHANGED <<senderVars, handed>>
  BY DEF IdrWindowEnds
<1>3. asm' \in Assemblers
  BY <1>1, <1>2, Zenon DEF Assemblers
<1>4. /\ Same(asm, asm') /\ asm'.waiting = asm.waiting /\ asm'.lost = asm.lost
      /\ asm'.finished = asm.finished /\ asm'.delivered = asm.delivered
      /\ asm'.skipped = asm.skipped /\ asm'.out = asm.out
  BY <1>1, <1>2, AssemblerFields, Zenon DEF Same
<1> QED
  BY <1>1, <1>2, <1>3, <1>4, WaitingKeepsIInv

\* After a reset the invariant holds whatever the engine kept of its frames.
LEMMA ResetInv ==
  ASSUME NEW a \in Assemblers, asm' = Reset(a), handed' = NoFrame
  PROVE  asm' \in Assemblers /\ handed' \in Frames /\ ChainInv' /\ EveryFrameCountedOnce'
<1>1. /\ asm' \in Assemblers /\ ~asm'.have /\ asm'.waiting /\ asm'.out = NoFrame
      /\ asm'.delivered = 0 /\ asm'.lost = 0 /\ asm'.skipped = 0 /\ asm'.beyond = 0
  BY ResetType
<1>2. ChainInv'
  BY <1>1 DEF ChainInv, Tracks
<1> QED
  BY <1>1, <1>2, NewTypes DEF EveryFrameCountedOnce

LEMMA SessionStep ==
  ASSUME IInv, NextSession \/ EngineRestart
  PROVE  IInv' /\ handed' = NoFrame /\ asm'.waiting
<1>1. asm \in Assemblers /\ asm' = Reset(asm) /\ handed' = NoFrame
  BY DEF IInv, AssemblerTypeOK, NextSession, EngineRestart
<1>2. asm' \in Assemblers /\ handed' \in Frames /\ ChainInv' /\ EveryFrameCountedOnce'
  BY <1>1, ResetInv
<1>3. asm'.waiting
  BY <1>1, ResetType
<1>4. CASE NextSession
  <2>1. AssemblerTypeOK' /\ SentInv'
    BY <1>2, <1>4 DEF NextSession, senderVars, IInv, AssemblerTypeOK, SentInv
  <2> QED
    BY <1>1, <1>2, <1>3, <2>1 DEF IInv
<1>5. CASE EngineRestart
  <2>1. DOMAIN sent' = {} /\ sent' \in [{} -> FrameInfo]
    BY <1>5 DEF EngineRestart
  <2>2. run' \in 1 .. MaxRuns /\ next' \in 0 .. MaxIndex + 1 /\ encoded' < next'
    BY <1>5, AssemblerAssumption, SMT
       DEF EngineRestart, IInv, AssemblerTypeOK, AssemblerAssumption, NoIndex, FirstIndices
  <2>3. AssemblerTypeOK' /\ SentInv'
    BY <1>2, <1>5, <2>1, <2>2 DEF EngineRestart, AssemblerTypeOK, SentInv
  <2> QED
    BY <1>1, <1>2, <1>3, <2>3 DEF IInv
<1> QED
  BY <1>4, <1>5

-----------------------------------------------------------------------------
(* The theorems.                                                           *)

LEMMA InitIInv == AssemblerInit => IInv
<1> SUFFICES ASSUME AssemblerInit PROVE IInv
  OBVIOUS
<1>1. /\ run = 1 /\ next \in FirstIndices /\ encoded = NoIndex /\ DOMAIN sent = {}
      /\ asm = NewAssembler /\ handed = NoFrame
  BY DEF AssemblerInit, SenderInit
<1>2. run \in 1 .. MaxRuns /\ next \in 0 .. MaxIndex + 1 /\ encoded < next
  BY <1>1, AssemblerAssumption, SMT DEF AssemblerAssumption, NoIndex, FirstIndices
<1>3. sent \in [DOMAIN sent -> FrameInfo]
  BY DEF AssemblerInit, SenderInit
<1>4. AssemblerTypeOK
  BY <1>1, <1>2, <1>3, NewTypes DEF AssemblerTypeOK
<1>5. SentInv
  BY <1>1, <1>2 DEF SentInv
<1>6. /\ ~asm.have /\ asm.waiting /\ asm.out = NoFrame
      /\ asm.delivered = 0 /\ asm.lost = 0 /\ asm.skipped = 0 /\ asm.beyond = 0
  BY <1>1 DEF NewAssembler
<1>7. ChainInv /\ EveryFrameCountedOnce
  BY <1>1, <1>6 DEF ChainInv, Tracks, EveryFrameCountedOnce
<1> QED
  BY <1>4, <1>5, <1>7 DEF IInv

\* Every step keeps the invariant, and hands a frame over only as Handover
\* says, or begins a new session.
LEMMA AssemblerStep ==
  ASSUME IInv, [AssemblerNext]_assemblerVars
  PROVE  /\ IInv'
         /\ Handover \/ (handed' = NoFrame /\ asm'.waiting)
<1>1. CASE Presents
  BY <1>1, PresentsStep, Zenon DEF Handover
<1>2. CASE ReceivePacket
  <2>1. AssemblerTypeOK' /\ ChainInv' /\ EveryFrameCountedOnce' /\ Handover
    BY <1>2, PacketStep
  <2>2. SentInv'
    BY <1>2 DEF ReceivePacket, senderVars, IInv, SentInv
  <2> QED
    BY <2>1, <2>2 DEF IInv
<1>3. CASE FrameTimeout
  BY <1>3, TimeoutStep DEF Handover
<1>4. CASE ConsumerRequiresKeyframe
  BY <1>4, RequireKeyframeStep DEF Handover
<1>5. CASE IdrWindowEnds
  BY <1>5, IdrWindowStep, Zenon DEF Handover
<1>6. CASE NextSession \/ EngineRestart
  BY <1>6, SessionStep
<1>7. CASE UNCHANGED assemblerVars
  <2>1. IInv'
    BY <1>7 DEF assemblerVars, senderVars, IInv, AssemblerTypeOK, SentInv, ChainInv, Tracks,
                Newest, EveryFrameCountedOnce
  <2> QED
    BY <1>7, <2>1, Zenon DEF assemblerVars, Handover
<1> QED
  BY <1>1, <1>2, <1>3, <1>4, <1>5, <1>6, <1>7 DEF AssemblerNext

\* The invariant of every run, whatever the network and the consumer do.
THEOREM AssemblerInvariant == AssemblerSpec => []IInv
<1>1. IInv /\ [AssemblerNext]_assemblerVars => IInv'
  BY AssemblerStep
<1> QED
  BY <1>1, InitIInv, PTL DEF AssemblerSpec

\* The assembler's counters, indices and words keep their types; the unsigned
\* difference of two frame indices in onPacket() stays a natural number.
THEOREM AssemblerTypeCorrect == AssemblerSpec => []AssemblerTypeOK
<1>1. IInv => AssemblerTypeOK
  BY DEF IInv
<1> QED
  BY <1>1, AssemblerInvariant, PTL

\* framesDelivered, framesLost and framesSkipped add up to the frames of the
\* session, however long it is, but for the frames of a gap beyond its first
\* kMaxCountedGap.
THEOREM FramesCountedOnce == AssemblerSpec => []EveryFrameCountedOnce
<1>1. IInv => EveryFrameCountedOnce
  BY DEF IInv
<1> QED
  BY <1>1, AssemblerInvariant, PTL

\* The promise of frame_assembler.h: in order, each frame once, starting at a
\* keyframe, and only a keyframe after a loss.
THEOREM ImplementsFrameStream == AssemblerSpec => HandsOverAStream
<1>1. AssemblerInit => Stream!StreamInit
  <2>1. NoFrame.index = NoIndex /\ NoFrame.key = FALSE /\ NewAssembler.waiting
    BY DEF NoFrame, NewAssembler
  <2> QED
    BY <2>1 DEF AssemblerInit, Stream!StreamInit, Stream!NoIndex, NoIndex
<1>2. IInv /\ [AssemblerNext]_assemblerVars => [Stream!StreamNext]_(Stream!streamVars)
  <2> SUFFICES ASSUME IInv, [AssemblerNext]_assemblerVars
               PROVE  [Stream!StreamNext]_(Stream!streamVars)
    OBVIOUS
  <2>1. IInv' /\ (Handover \/ (handed' = NoFrame /\ asm'.waiting))
    BY AssemblerStep
  <2>2. /\ asm.waiting \in BOOLEAN /\ asm'.waiting \in BOOLEAN
        /\ handed'.key \in BOOLEAN /\ handed'.index \in Int
    BY <2>1, AssemblerAssumption, SMT
       DEF IInv, AssemblerTypeOK, Assemblers, Frames, Indices, NoIndex, AssemblerAssumption
  <2>3. CASE handed' = handed /\ (asm'.waiting \/ asm'.waiting = asm.waiting)
    BY <2>2, <2>3, Zenon DEF Stream!StreamNext, Stream!Break, Stream!streamVars
  <2>4. CASE ~asm'.waiting /\ handed'.index > handed.index /\ handed'.key
    BY <2>2, <2>4, Zenon DEF Stream!StreamNext, Stream!HandKey
  <2>5. CASE /\ ~asm'.waiting /\ ~asm.waiting /\ ~handed'.key
             /\ handed'.index = handed.index + 1
    BY <2>2, <2>5, Zenon DEF Stream!StreamNext, Stream!HandNext
  <2>6. CASE handed' = NoFrame /\ asm'.waiting
    <3>1. handed'.index = Stream!NoIndex /\ handed'.key = FALSE
      BY <2>6 DEF NoFrame, NoIndex, Stream!NoIndex
    <3> QED
      BY <2>2, <2>6, <3>1, Zenon DEF Stream!StreamNext, Stream!Restart
  <2> QED
    BY <2>1, <2>3, <2>4, <2>5, <2>6 DEF Handover
<1> QED
  BY <1>1, <1>2, AssemblerInvariant, PTL DEF AssemblerSpec, HandsOverAStream, Stream!StreamSpec

\* End to end: whatever the driver skipped, the engine dropped or the network
\* did, a frame that needs a reference is handed over directly after it.
THEOREM ReferencesKept == AssemblerSpec => ReferenceWasHanded
<1>1. IInv /\ [AssemblerNext]_assemblerVars =>
        [\/ handed' = handed \/ handed' = NoFrame \/ handed'.key
         \/ sent[handed'.index].ref = handed.index]_assemblerVars
  BY AssemblerStep DEF Handover
<1> QED
  BY <1>1, AssemblerInvariant, PTL DEF AssemblerSpec, ReferenceWasHanded

-----------------------------------------------------------------------------
(* The shards.                                                             *)

\* A word has shards of its own frame and slice only, of this run of the engine.
Own(w, s) == w.active => \A p \in w.got : p.run = run /\ p.index = w.index /\ p.slice = s

\* The word of slice s is that of frame i, and rebuilt: it takes no more shards.
Rebuilt(w, i) == w.active /\ w.index = i /\ w.delivered /\ WordComplete(w)

WordsOwn(a) ==
  /\ Own(a.bulk, 0) /\ \A s \in SliceIndices : Own(a.words[s], s)
  /\ a.bulk.active => a.have /\ a.bulk.index <= a.index
  /\ \A s \in SliceIndices : a.words[s].active => a.have /\ a.words[s].index <= a.index
  /\ a.have /\ a.slices = 0 => a.bulk.active /\ a.bulk.index = a.index
  /\ a.have /\ a.slices # 0 => \A s \in a.done : Rebuilt(a.words[s], a.index)

\* What WholeFrames says of the frame handed over last.
Whole(f) ==
  /\ \A p \in f.shards : p.run = run /\ p.index = f.index
  /\ \A s \in 0 .. (IF sent[f.index].slices = 0 THEN 0 ELSE MaxSlices - 1) :
       Cardinality({p \in f.shards : p.slice = s}) >= DataShards

WholeInv == WordsOwn(asm) /\ (handed # NoFrame => Whole(handed))

\* b has the words of a.
SameWords(a, b) ==
  /\ b.bulk = a.bulk /\ b.words = a.words /\ b.done = a.done
  /\ b.have = a.have /\ b.index = a.index /\ b.slices = a.slices

LEMMA SameWordsOwn ==
  ASSUME NEW a, NEW b, SameWords(a, b), WordsOwn(a)
  PROVE  WordsOwn(b)
BY Zenon DEF SameWords, WordsOwn

\* Flags, counters and outputs are not words.
LEMMA WordsKept ==
  ASSUME NEW a \in Assemblers
  PROVE  /\ \A v : SameWords(a, [a EXCEPT !.finished = v])
         /\ \A v : SameWords(a, [a EXCEPT !.waiting = v])
         /\ \A v : SameWords(a, [a EXCEPT !.asked = v])
         /\ \A v : SameWords(a, [a EXCEPT !.skipped = v])
         /\ \A v, w : SameWords(a, [a EXCEPT !.asked = v, !.idr = w])
         /\ \A v, w : SameWords(a, [a EXCEPT !.lost = v, !.waiting = w])
         /\ \A v, w : SameWords(a, [a EXCEPT !.out = v, !.idr = w])
         /\ \A v, w, x : SameWords(a, [a EXCEPT !.waiting = v, !.delivered = w, !.out = x])
<1>1. /\ \A v : SameWords(a, [a EXCEPT !.finished = v])
      /\ \A v : SameWords(a, [a EXCEPT !.waiting = v])
  BY AssemblerFields, Zenon DEF SameWords
<1>2. /\ \A v : SameWords(a, [a EXCEPT !.asked = v])
      /\ \A v : SameWords(a, [a EXCEPT !.skipped = v])
  BY AssemblerFields, Zenon DEF SameWords
<1>3. /\ \A v, w : SameWords(a, [a EXCEPT !.asked = v, !.idr = w])
      /\ \A v, w : SameWords(a, [a EXCEPT !.lost = v, !.waiting = w])
  BY AssemblerFields, Zenon DEF SameWords
<1>4. \A v, w : SameWords(a, [a EXCEPT !.out = v, !.idr = w])
  BY AssemblerFields, Zenon DEF SameWords
<1>5. \A v, w, x : SameWords(a, [a EXCEPT !.waiting = v, !.delivered = w, !.out = x])
  BY AssemblerFields, Zenon DEF SameWords
<1> QED
  BY <1>1, <1>2, <1>3, <1>4, <1>5

LEMMA SameWordsOfAll ==
  ASSUME NEW a \in Assemblers
  PROVE  /\ SameWords(a, AskForIdr(a)) /\ SameWords(a, Called(a))
         /\ \A count \in Nat : SameWords(a, LoseFrames(a, count))
<1>1. SameWords(a, a)
  BY DEF SameWords
<1>2. SameWords(a, AskForIdr(a))
  BY <1>1, WordsKept, Zenon DEF AskForIdr
<1>3. SameWords(a, Called(a))
  BY WordsKept, Zenon DEF Called
<1>4. ASSUME NEW count \in Nat PROVE SameWords(a, LoseFrames(a, count))
  <2> DEFINE b == [a EXCEPT !.lost = a.lost + count, !.waiting = TRUE]
  <2>1. b \in Assemblers /\ SameWords(a, b)
    <3>1. a.lost + count \in Nat
      BY SMT DEF Assemblers
    <3>2. \A v \in Nat : [a EXCEPT !.lost = v, !.waiting = TRUE] \in Assemblers
      BY Zenon DEF Assemblers
    <3> QED
      BY <3>1, <3>2, WordsKept, Zenon
  <2>2. LoseFrames(a, count) = AskForIdr(b)
    BY Zenon DEF LoseFrames
  <2> HIDE DEF b
  <2>3. SameWords(b, AskForIdr(b))
    <3>1. SameWords(b, b)
      BY DEF SameWords
    <3> QED
      BY <2>1, <3>1, WordsKept, Zenon DEF AskForIdr
  <2> QED
    BY <2>1, <2>2, <2>3, Zenon DEF SameWords
<1> QED
  BY <1>2, <1>3, <1>4

\* The frame that begins has new words where it uses them at once, and those that its
\* slices will use are of older frames.
LEMMA BeginFrameOwn ==
  ASSUME NEW a \in Assemblers, NEW i \in Indices, sent[i] \in FrameInfo, WordsOwn(a), a.have => i > a.index
  PROVE  WordsOwn(BeginFrame(a, i))
<1> DEFINE b == BeginFrame(a, i)
<1>1. b.have /\ b.index = i /\ b.slices = sent[i].slices
  BY BeginFrameEffect
<1>2. /\ b.bulk = IF sent[i].slices = 0 THEN BeginWord(i) ELSE a.bulk
      /\ b.done = IF sent[i].slices = 0 THEN a.done ELSE {}
      /\ b.words = a.words
  BY AssemblerFields, Zenon DEF BeginFrame
<1> HIDE DEF b
<1>3. /\ i \in Int /\ a.index \in Int
      /\ a.words \in [SliceIndices -> Words] /\ a.bulk \in Words /\ \A w \in Words : w.index \in Int
  BY AssemblerAssumption, SMT DEF Assemblers, Indices, Words, AssemblerAssumption
<1>4. Own(b.bulk, 0) /\ \A s \in SliceIndices : Own(b.words[s], s)
  <2>1. Own(BeginWord(i), 0)
    BY DEF Own, BeginWord
  <2> QED
    BY <1>2, <2>1, Zenon DEF WordsOwn
<1>5. b.bulk.active => b.bulk.index <= i
  <2>1. CASE sent[i].slices = 0
    BY <1>2, <1>3, <2>1, SMT DEF BeginWord
  <2>2. CASE sent[i].slices # 0
    BY <1>2, <1>3, <2>2, SMT DEF WordsOwn
  <2> QED
    BY <2>1, <2>2
<1>6. \A s \in SliceIndices : b.words[s].active => b.words[s].index <= i
  BY <1>2, <1>3, SMT DEF WordsOwn
<1>7. b.slices = 0 => b.bulk.active /\ b.bulk.index = i
  <2>1. BeginWord(i).active = TRUE /\ BeginWord(i).index = i
    BY DEF BeginWord
  <2>2. b.slices = 0 => b.bulk = BeginWord(i)
    BY <1>1, <1>2, Zenon
  <2> QED
    BY <2>1, <2>2
<1>8. b.slices # 0 => b.done = {}
  BY <1>1, <1>2, Zenon
<1>9. WordsOwn(b)
  BY <1>1, <1>4, <1>5, <1>6, <1>7, <1>8, SMT DEF WordsOwn
<1> QED
  BY <1>9 DEF b

LEMMA AddShardOwn ==
  ASSUME NEW w \in Words, NEW s, NEW p, Own(w, s), p.run = run, p.index = w.index, p.slice = s
  PROVE  LET v == AddShard(w, p)
         IN /\ Own(v, s) /\ v.active = w.active /\ v.index = w.index /\ v.delivered = w.delivered
            /\ w.delivered => v = w
<1>1. DOMAIN w = {"index", "active", "delivered", "got"}
  BY SMT DEF Words
<1> DEFINE v == AddShard(w, p)
<1>2. v = w \/ (~w.delivered /\ v = [w EXCEPT !.got = w.got \cup {p}])
  BY Zenon DEF AddShard
<1> HIDE DEF v
<1>3. CASE v = w
  BY <1>3, Zenon DEF v
<1>4. CASE ~w.delivered /\ v = [w EXCEPT !.got = w.got \cup {p}]
  <2>1. v.active = w.active /\ v.index = w.index /\ v.delivered = w.delivered /\ v.got = w.got \cup {p}
    BY <1>1, <1>4, Zenon
  <2>2. Own(v, s)
    BY <2>1 DEF Own
  <2> QED
    BY <1>4, <2>1, <2>2, Zenon DEF v
<1> QED
  BY <1>2, <1>3, <1>4

LEMMA AddBulkShardOwn ==
  ASSUME NEW a \in Assemblers, WordsOwn(a), a.have, a.slices = 0,
         NEW p, p.run = run, p.index = a.index, p.slice = 0
  PROVE  WordsOwn([a EXCEPT !.bulk = AddShard(@, p)])
<1> DEFINE w == AddShard(a.bulk, p)
           c == [a EXCEPT !.bulk = w]
<1>1. a.bulk \in Words /\ Own(a.bulk, 0) /\ a.bulk.active /\ a.bulk.index = a.index /\ a.bulk.index <= a.index
  <2>1. a.bulk \in Words
    BY DEF Assemblers
  <2> QED
    BY <2>1, Zenon DEF WordsOwn
<1>2. Own(w, 0) /\ w.active = a.bulk.active /\ w.index = a.bulk.index
  <2>1. p.index = a.bulk.index
    BY <1>1
  <2> HIDE DEF c
  <2> QED
    BY <1>1, <2>1, AddShardOwn
<1> HIDE DEF w
<1>3. /\ c.bulk = w /\ c.words = a.words /\ c.done = a.done
      /\ c.have = a.have /\ c.index = a.index /\ c.slices = a.slices
  BY AssemblerFields, Zenon
<1> HIDE DEF c
<1>4. Own(c.bulk, 0) /\ c.bulk.active /\ c.have /\ c.bulk.index = c.index /\ c.bulk.index <= c.index
  BY <1>1, <1>2, <1>3, Zenon
<1>5. /\ \A s \in SliceIndices : Own(c.words[s], s)
      /\ \A s \in SliceIndices : c.words[s].active => c.words[s].index <= c.index
  BY <1>3, Zenon DEF WordsOwn
<1>6. c.slices = 0
  BY <1>3
<1>7. WordsOwn(c)
  BY <1>4, <1>5, <1>6, Zenon DEF WordsOwn
<1> QED
  BY <1>7, Zenon DEF c, w

LEMMA AddSliceShardOwn ==
  ASSUME NEW a \in Assemblers, WordsOwn(a), a.have, a.slices # 0, NEW rebuilds \in BOOLEAN,
         NEW p \in PacketType, p.run = run, p.index = a.index, p.slice \in SliceIndices
  PROVE  WordsOwn(AddSliceShard(a, p, rebuilds))
<1> DEFINE s    == p.slice
           old  == a.words[s]
           from == IF IsActiveFor(old, a.index) THEN old ELSE BeginWord(a.index)
           word == AddShard(from, p)
           now  == rebuilds /\ s \notin a.done /\ WordComplete(word)
           last == [word EXCEPT !.delivered = @ \/ now]
           done == IF now THEN a.done \cup {s} ELSE a.done
           b    == AddSliceShard(a, p, rebuilds)
<1>1. /\ a.words \in [SliceIndices -> Words] /\ a.index \in Indices /\ old \in Words
      /\ BeginWord(a.index) \in Words
  BY NewTypes DEF Assemblers
<1>2. from \in Words /\ Own(from, s) /\ from.active /\ from.index = a.index
  <2>1. Own(BeginWord(a.index), s) /\ BeginWord(a.index).active /\ BeginWord(a.index).index = a.index
    BY DEF Own, BeginWord
  <2>2. Own(old, s)
    BY Zenon DEF WordsOwn
  <2> QED
    BY <1>1, <2>1, <2>2, Zenon DEF IsActiveFor
<1>3. s \in a.done => from = old /\ Rebuilt(old, a.index)
  BY Zenon DEF WordsOwn, Rebuilt, IsActiveFor
<1>4. /\ word \in Words /\ Own(word, s) /\ word.active /\ word.index = a.index
      /\ from.delivered => word = from
  <2> HIDE DEF from
  <2>1. LET v == AddShard(from, p)
        IN /\ Own(v, s) /\ v.active = from.active /\ v.index = from.index /\ v.delivered = from.delivered
           /\ from.delivered => v = from
    <3>1. p.run = run /\ p.index = from.index /\ p.slice = s
      BY <1>2
    <3>2. from \in Words /\ Own(from, s)
      BY <1>2
    <3> HIDE DEF s
    <3> QED
      BY <3>1, <3>2, AddShardOwn
  <2>2. AddShard(from, p) \in Words
    BY <1>2, AddShardType
  <2> QED
    BY <1>2, <2>1, <2>2, Zenon
<1>5. b.words = [a.words EXCEPT ![s] = last] /\ b.done = done
  BY AssemblerFields, Zenon DEF AddSliceShard
<1>6. b.have = a.have /\ b.index = a.index /\ b.slices = a.slices /\ b.bulk = a.bulk
  BY AssemblerFields, Zenon DEF AddSliceShard
<1> HIDE DEF from, word, b
<1>7. DOMAIN word = {"index", "active", "delivered", "got"}
  BY <1>4, SMT DEF Words
<1>8. /\ last.index = word.index /\ last.active = word.active /\ last.got = word.got
      /\ last.delivered = (word.delivered \/ now)
  BY <1>7, Zenon
<1> HIDE DEF last
<1>9. Own(last, s) /\ last.active /\ last.index = a.index
  BY <1>4, <1>8, Zenon DEF Own
<1>10. s \in done => Rebuilt(last, a.index)
  <2>1. CASE now
    BY <1>8, <1>9, <2>1, Zenon DEF Rebuilt, WordComplete
  <2>2. CASE s \in a.done
    <3>1. from = old /\ Rebuilt(old, a.index) /\ word = old
      BY <1>3, <1>4, <2>2, Zenon DEF Rebuilt
    <3> QED
      BY <1>8, <1>9, <3>1, Zenon DEF Rebuilt, WordComplete
  <2> QED
    BY <2>1, <2>2, Zenon
<1>11. /\ b.words[s] = last
       /\ \A t \in SliceIndices : t # s => b.words[t] = a.words[t]
  BY <1>1, <1>5, Zenon
<1>12. \A t \in SliceIndices : Own(b.words[t], t)
  BY <1>9, <1>11, Zenon DEF WordsOwn
<1>13. \A t \in SliceIndices : b.words[t].active => b.have /\ b.words[t].index <= b.index
  <2>1. a.index <= a.index
    BY <1>1, AssemblerAssumption, SMT DEF Indices, AssemblerAssumption
  <2> QED
    BY <1>6, <1>9, <1>11, <2>1, Zenon DEF WordsOwn
<1>14. \A t \in b.done : Rebuilt(b.words[t], b.index)
  <2>1. ASSUME NEW t \in b.done PROVE Rebuilt(b.words[t], b.index)
    <3>1. CASE t = s
      BY <1>5, <1>6, <1>10, <1>11, <2>1, <3>1, Zenon
    <3>2. CASE t # s
      <4>1. t \in a.done /\ t \in SliceIndices
        BY <1>5, <3>2, Zenon DEF Assemblers
      <4> QED
        BY <1>6, <1>11, <3>2, <4>1, Zenon DEF WordsOwn
    <3> QED
      BY <3>1, <3>2
  <2> QED
    BY <2>1
<1>15. WordsOwn(b)
  BY <1>6, <1>12, <1>13, <1>14, Zenon DEF WordsOwn
<1> QED
  BY <1>15, Zenon DEF b

\* What is finished is made of the words of the frame.
LEMMA FinishedIsWhole ==
  ASSUME SentTyped, NEW a \in Assemblers, WordsOwn(a), a.have, FrameComplete(a), a.slices = sent[a.index].slices,
         a.index \in DOMAIN sent, NEW f, f.index = a.index, f.shards = FrameShards(a)
  PROVE  Whole(f)
<1>1. CASE a.slices = 0
  <2>1. /\ f.shards = a.bulk.got /\ Cardinality(a.bulk.got) >= DataShards
        /\ a.bulk.active /\ a.bulk.index = a.index /\ Own(a.bulk, 0)
    BY <1>1, Zenon DEF FrameShards, FrameComplete, WordComplete, WordsOwn
  <2>2. \A p \in f.shards : p.run = run /\ p.index = f.index /\ p.slice = 0
    BY <2>1, Zenon DEF Own
  <2>3. {p \in f.shards : p.slice = 0} = a.bulk.got
    BY <2>1, <2>2
  <2>4. \A s \in 0 .. 0 : Cardinality({p \in f.shards : p.slice = s}) >= DataShards
    <3>1. 0 .. 0 = {0}
      OBVIOUS
    <3> QED
      BY <2>1, <2>3, <3>1, Zenon
  <2> QED
    BY <1>1, <2>2, <2>4 DEF Whole
<1>2. CASE a.slices # 0
  <2>1. sent[a.index] \in FrameInfo
    BY DEF SentTyped
  <2>2. a.slices = MaxSlices
    BY <1>2, <2>1 DEF FrameInfo
  <2>3. a.done = 0 .. MaxSlices - 1 /\ f.shards = UNION {a.words[s].got : s \in a.done}
    BY <1>2, <2>2, Zenon DEF FrameComplete, FrameShards
  <2>4. \A s \in a.done : /\ s \in SliceIndices /\ Rebuilt(a.words[s], a.index) /\ Own(a.words[s], s)
    BY <1>2, <2>3, Zenon DEF WordsOwn, SliceIndices
  <2>5. \A s \in a.done : \A p \in a.words[s].got : p.run = run /\ p.index = a.index /\ p.slice = s
    BY <2>4, Zenon DEF Own, Rebuilt
  <2>6. \A s \in a.done : Cardinality(a.words[s].got) >= DataShards
    BY <2>4, Zenon DEF Rebuilt, WordComplete
  <2>7. \A s \in a.done : {p \in f.shards : p.slice = s} = a.words[s].got
    BY <2>3, <2>5
  <2>8. \A p \in f.shards : p.run = run /\ p.index = f.index
    BY <2>3, <2>5
  <2>9. \A s \in 0 .. MaxSlices - 1 : Cardinality({p \in f.shards : p.slice = s}) >= DataShards
    BY <2>3, <2>6, <2>7
  <2> QED
    BY <1>2, <2>8, <2>9, Zenon DEF Whole
<1> QED
  BY <1>1, <1>2

\* Finishing a frame leaves its words; what is handed over is made of them.
LEMMA FinishCurrentOwn ==
  ASSUME NEW a \in Assemblers, NEW rebuilds \in BOOLEAN
  PROVE  LET r == FinishCurrent(a, rebuilds)
         IN /\ SameWords(a, r)
            /\ r.out = a.out \/ (r.out.index = a.index /\ r.out.shards = FrameShards(a))
<1> DEFINE f == [a EXCEPT !.finished = TRUE]
           r == FinishCurrent(a, rebuilds)
<1>1. f \in Assemblers
  BY Zenon DEF Assemblers
<1>2. SameWords(a, f) /\ f.out = a.out /\ f.skipped = a.skipped /\ f.delivered = a.delivered
  BY AssemblerFields, Zenon DEF SameWords
<1> HIDE DEF f
<1>3. CASE a.slices = 0 /\ ~rebuilds
  <2>1. r = LoseFrames(f, 1)
    BY <1>3, Zenon DEF FinishCurrent, f
  <2>2. SameWords(f, LoseFrames(f, 1)) /\ LoseFrames(f, 1).out = f.out
    BY <1>1, SameWordsOfAll, LoseFramesEffect DEF Agree
  <2> QED
    BY <1>2, <2>1, <2>2, Zenon DEF SameWords
<1>4. CASE ~(a.slices = 0 /\ ~rebuilds) /\ a.waiting /\ ~a.key
  <2> DEFINE g == [f EXCEPT !.skipped = f.skipped + 1]
  <2>1. r = AskForIdr(g)
    BY <1>4, Zenon DEF FinishCurrent, f
  <2>2. f.skipped + 1 \in Nat
    BY <1>1, SMT DEF Assemblers
  <2>3. \A v \in Nat : [f EXCEPT !.skipped = v] \in Assemblers
    BY <1>1, Zenon DEF Assemblers
  <2>4. g \in Assemblers /\ SameWords(f, g) /\ g.out = f.out
    BY <1>1, <2>2, <2>3, WordsKept, AssemblerFields, Zenon
  <2> HIDE DEF g
  <2>5. SameWords(g, AskForIdr(g)) /\ AskForIdr(g).out = g.out
    BY <2>4, SameWordsOfAll, AskForIdrKeeps DEF Agree
  <2> QED
    BY <1>2, <2>1, <2>4, <2>5, Zenon DEF SameWords
<1>5. CASE ~(a.slices = 0 /\ ~rebuilds) /\ ~(a.waiting /\ ~a.key)
  <2> DEFINE frame == [index |-> a.index, key |-> a.key, shards |-> FrameShards(a)]
  <2>1. r = [f EXCEPT !.waiting = FALSE, !.delivered = f.delivered + 1, !.out = frame]
    BY <1>5, Zenon DEF FinishCurrent, f
  <2>2. frame.index = a.index /\ frame.shards = FrameShards(a)
    OBVIOUS
  <2> HIDE DEF frame, r
  <2>3. SameWords(f, r)
    BY <1>1, <2>1, WordsKept, Zenon
  <2>4. r.out = frame
    BY <1>1, <2>1, AssemblerFields, Zenon
  <2>5. SameWords(a, r)
    BY <1>2, <2>3, Zenon DEF SameWords
  <2> QED
    BY <2>2, <2>4, <2>5 DEF r
<1> QED
  BY <1>3, <1>4, <1>5

\* A packet of the network is of this run, and of slice 0 if its frame is not sliced.
LEMMA PacketOwn ==
  ASSUME NEW p \in Arrivable
  PROVE  p.run = run /\ (sent[p.index].slices = 0 => p.slice = 0)
<1>1. PICK i \in DOMAIN sent, s \in SliceIndices \cup {0}, d \in ShardIndices :
        p = [run |-> run, index |-> i, slice |-> s, shard |-> d]
  BY DEF Arrivable, Packets
<1>2. p.run = run /\ p.slice = s
  BY <1>1
<1>3. p.slice < sent[p.index].slices \/ p.slice = 0
  BY DEF Arrivable
<1>4. s \in Nat
  BY AssemblerAssumption, SMT DEF SliceIndices, AssemblerAssumption
<1> QED
  BY <1>2, <1>3, <1>4, SMT

\* The frame a packet belongs to has its own words only.
LEMMA FrameOfOwn ==
  ASSUME SentTyped, NEW a \in Assemblers, Tracks(a), NEW p \in Arrivable, ~TooLate(a, p), WordsOwn(a)
  PROVE  WordsOwn(FrameOf(a, p))
<1> DEFINE i == p.index
<1>1. i \in Indices /\ sent[i] \in FrameInfo
  BY PacketFacts DEF SentTyped
<1>2. a.index \in Int /\ i \in Int
  BY <1>1, AssemblerAssumption, SMT DEF Assemblers, Indices, AssemblerAssumption
<1>3. CASE a.have /\ i = a.index
  BY <1>3, Zenon DEF FrameOf
<1>4. CASE ~(a.have /\ i = a.index)
  <2> DEFINE l == LoseUpTo(a, i)
  <2>1. a.have => i > a.index
    BY <1>2, <1>4, SMT DEF TooLate
  <2>2. UpTo(a, i) \in Nat /\ l \in Assemblers
    BY <1>1, <2>1, LoseUpToEffect
  <2>3. l = a \/ l = LoseFrames(a, UpTo(a, i))
    BY Zenon DEF LoseUpTo, UpTo
  <2>4. SameWords(a, l)
    <3>1. SameWords(a, a)
      BY DEF SameWords
    <3> HIDE DEF l
    <3> QED
      BY <2>2, <2>3, <3>1, SameWordsOfAll
  <2>5. FrameOf(a, p) = BeginFrame(l, i)
    BY <1>4, Zenon DEF FrameOf
  <2> HIDE DEF l, i
  <2>6. WordsOwn(l)
    BY <2>4, SameWordsOwn
  <2>7. l.have => i > l.index
    BY <2>1, <2>4, Zenon DEF SameWords
  <2>8. WordsOwn(BeginFrame(l, i))
    BY <1>1, <2>2, <2>6, <2>7, BeginFrameOwn
  <2> QED
    BY <2>5, <2>8
<1> QED
  BY <1>3, <1>4

LEMMA OnPacketOwn ==
  ASSUME SentTyped, NEW a \in Assemblers, Tracks(a), NEW p \in Arrivable,
         NEW rebuilds \in BOOLEAN, WordsOwn(a), a.out = NoFrame
  PROVE  LET r == OnPacket(a, p, rebuilds)
         IN WordsOwn(r) /\ (r.out # NoFrame => Whole(r.out))
<1> DEFINE r == OnPacket(a, p, rebuilds)
           b == FrameOf(a, p)
           c == IF b.slices = 0 THEN [b EXCEPT !.bulk = AddShard(@, p)]
                                ELSE AddSliceShard(b, p, rebuilds)
<1>1. CASE TooLate(a, p)
  BY <1>1, Zenon DEF OnPacket
<1>2. CASE ~TooLate(a, p)
  <2>1. b \in Assemblers /\ Begun(a, b, p.index) /\ WordsOwn(b)
    BY <1>2, FrameOfEffect, FrameOfOwn
  <2>2. r = IF FrameComplete(c) THEN FinishCurrent(c, rebuilds) ELSE c
    BY <1>2, Zenon DEF OnPacket
  <2> HIDE DEF b, r
  <2>3. /\ b.have /\ b.index = p.index /\ b.slices = sent[b.index].slices /\ b.out = NoFrame
    BY <2>1, Zenon DEF Begun
  <2>4. /\ p \in PacketType /\ p.index \in DOMAIN sent /\ p.run = run
        /\ b.slices # 0 => p.slice \in SliceIndices
        /\ b.slices = 0 => p.slice = 0
    BY <2>3, PacketFacts, PacketOwn
  <2>5. c \in Assemblers /\ Agree(b, c) /\ WordsOwn(c)
    <3>1. CASE b.slices = 0
      <4>1. \A w \in Words : [b EXCEPT !.bulk = w] \in Assemblers
        BY <2>1, Zenon DEF Assemblers
      <4>2. AddShard(b.bulk, p) \in Words
        BY <2>1, <2>4, AddShardType DEF Assemblers
      <4>3. c = [b EXCEPT !.bulk = AddShard(b.bulk, p)]
        BY <3>1, Zenon
      <4>4. \A w : Agree(b, [b EXCEPT !.bulk = w])
        BY <2>1, AssemblerFields, Zenon DEF Agree
      <4>5. p.index = b.index /\ p.slice = 0
        BY <2>3, <2>4, <3>1
      <4>6. WordsOwn([b EXCEPT !.bulk = AddShard(b.bulk, p)])
        BY <2>1, <2>3, <2>4, <3>1, <4>5, AddBulkShardOwn
      <4> QED
        BY <4>1, <4>2, <4>3, <4>4, <4>6, Zenon
    <3>2. CASE b.slices # 0
      <4>1. c = AddSliceShard(b, p, rebuilds)
        BY <3>2, Zenon
      <4>2. p.index = b.index /\ p.slice \in SliceIndices
        BY <2>3, <2>4, <3>2
      <4>3. AddSliceShard(b, p, rebuilds) \in Assemblers /\ Agree(b, AddSliceShard(b, p, rebuilds))
        BY <2>1, <2>4, <4>2, AddSliceShardKeeps
      <4>4. WordsOwn(AddSliceShard(b, p, rebuilds))
        BY <2>1, <2>3, <2>4, <3>2, <4>2, AddSliceShardOwn
      <4> QED
        BY <4>1, <4>3, <4>4, Zenon
    <3> QED
      BY <3>1, <3>2
  <2> HIDE DEF c
  <2>6. /\ c.have /\ c.index = p.index /\ c.slices = sent[c.index].slices /\ c.out = NoFrame
    BY <2>3, <2>5, Zenon DEF Agree
  <2>7. CASE ~FrameComplete(c)
    BY <2>2, <2>5, <2>6, <2>7, Zenon DEF r
  <2>8. CASE FrameComplete(c)
    <3>1. r = FinishCurrent(c, rebuilds)
      BY <2>2, <2>8, Zenon
    <3>2. /\ SameWords(c, r)
          /\ r.out = c.out \/ (r.out.index = c.index /\ r.out.shards = FrameShards(c))
      BY <2>5, <3>1, FinishCurrentOwn
    <3>3. WordsOwn(r)
      BY <2>5, <3>2, SameWordsOwn
    <3>4. ASSUME r.out # NoFrame PROVE Whole(r.out)
      <4>1. r.out.index = c.index /\ r.out.shards = FrameShards(c)
        BY <2>6, <3>2, <3>4
      <4>2. c.index \in DOMAIN sent
        BY <2>4, <2>6
      <4> QED
        BY <2>5, <2>6, <2>8, <4>1, <4>2, FinishedIsWhole
    <3> QED
      BY <3>3, <3>4 DEF r
  <2> QED
    BY <2>7, <2>8
<1> QED
  BY <1>1, <1>2

\* An assembler as new has no word in use.
LEMMA NewWordsOwn ==
  ASSUME NEW a, ~a.have, a.bulk = NewWord, a.words = [s \in SliceIndices |-> NewWord]
  PROVE  WordsOwn(a)
<1>1. ~NewWord.active
  BY DEF NewWord
<1>2. \A s \in SliceIndices : a.words[s] = NewWord
  BY Zenon
<1> QED
  BY <1>1, <1>2, Zenon DEF WordsOwn, Own

LEMMA WholeInit == AssemblerInit => WholeInv
<1> SUFFICES ASSUME AssemblerInit PROVE WholeInv
  OBVIOUS
<1>1. asm = NewAssembler /\ handed = NoFrame
  BY DEF AssemblerInit
<1>2. ~asm.have /\ asm.bulk = NewWord /\ asm.words = [s \in SliceIndices |-> NewWord]
  BY <1>1, Zenon DEF NewAssembler
<1> QED
  BY <1>1, <1>2, NewWordsOwn DEF WholeInv

\* The words, in a step that leaves the engine's run alone.
LEMMA WordsOwnNext ==
  ASSUME NEW a, NEW b, WordsOwn(a), SameWords(a, b), run' = run, asm' = b
  PROVE  WordsOwn(asm)'
<1>1. WordsOwn(b)
  BY SameWordsOwn
<1> QED
  BY <1>1, Zenon DEF WordsOwn, Own, Rebuilt, WordComplete

LEMMA WholeStep ==
  ASSUME IInv, WholeInv, [AssemblerNext]_assemblerVars
  PROVE  WholeInv'
<1> DEFINE KeepsWords == run' = run /\ SameWords(asm, asm')
           KeepsHanded == /\ handed' = handed /\ run' = run
                          /\ handed # NoFrame => sent'[handed.index] = sent[handed.index]
<1>1. asm \in Assemblers /\ SentTyped /\ Tracks(asm) /\ asm.out = NoFrame /\ WordsOwn(asm)
  BY DEF IInv, AssemblerTypeOK, SentTyped, ChainInv, WholeInv
<1>2. KeepsWords => WordsOwn(asm)'
  BY <1>1, WordsOwnNext
<1>3. KeepsHanded => (handed # NoFrame => Whole(handed))'
  BY Zenon DEF WholeInv, Whole
<1>4. SameWords(asm, asm)
  BY DEF SameWords
<1>5. CASE Presents
  <2>1. PICK key \in BOOLEAN, slices \in {0, MaxSlices} : Present(key, slices)
    BY <1>5 DEF Presents
  <2>2. run' = run /\ asm' = asm /\ handed' = handed
    BY <1>5, <2>1 DEF Presents, Present
  <2>3. \A i \in DOMAIN sent : sent'[i] = sent[i]
    <3>1. next \notin DOMAIN sent
      BY AssemblerAssumption, SMT DEF IInv, AssemblerTypeOK, SentInv, Indices, NoIndex, AssemblerAssumption
    <3> QED
      BY <2>1, <3>1 DEF Present
  <2>4. handed # NoFrame => handed.index \in DOMAIN sent
    BY DEF IInv, ChainInv
  <2> QED
    BY <1>2, <1>3, <1>4, <2>2, <2>3, <2>4, Zenon DEF WholeInv
<1>6. CASE ReceivePacket
  <2>1. PICK p \in Arrivable, rebuilds \in BOOLEAN : Returns(OnPacket(asm, p, rebuilds))
    BY <1>6 DEF ReceivePacket
  <2>2. run' = run /\ sent' = sent
    BY <1>6 DEF ReceivePacket, senderVars
  <2> DEFINE r == OnPacket(asm, p, rebuilds)
  <2>3. r \in Assemblers /\ WordsOwn(r) /\ (r.out # NoFrame => Whole(r.out))
    BY <1>1, OnPacketEffect, OnPacketOwn
  <2>4. asm' = Called(r) /\ handed' = IF r.out = NoFrame THEN handed ELSE r.out
    BY <2>1 DEF Returns
  <2> HIDE DEF r
  <2>5. WordsOwn(asm)'
    BY <2>2, <2>3, <2>4, SameWordsOfAll, WordsOwnNext
  <2>6. handed' # NoFrame => Whole(handed')
    BY <2>3, <2>4, Zenon DEF WholeInv
  <2>7. (handed # NoFrame => Whole(handed))'
    BY <2>2, <2>6, Zenon DEF Whole
  <2> QED
    BY <2>5, <2>7 DEF WholeInv
<1>7. CASE FrameTimeout
  <2> DEFINE f == [asm EXCEPT !.finished = TRUE]
             r == LoseFrames(f, 1)
  <2>1. UNCHANGED handed
    BY <1>7, TimeoutStep
  <2>2. asm' = Called(r) /\ run' = run /\ sent' = sent
    BY <1>7 DEF FrameTimeout, Returns, TimedOut, senderVars
  <2>3. f \in Assemblers /\ SameWords(asm, f)
    BY <1>1, WordsKept, Zenon DEF Assemblers
  <2> HIDE DEF f
  <2>4. r \in Assemblers /\ SameWords(f, r)
    BY <2>3, LoseFramesEffect, SameWordsOfAll
  <2> HIDE DEF r
  <2>5. SameWords(r, asm')
    BY <2>2, <2>4, SameWordsOfAll
  <2>6. SameWords(asm, asm')
    BY <2>3, <2>4, <2>5, Zenon DEF SameWords
  <2> QED
    BY <1>2, <1>3, <2>1, <2>2, <2>6 DEF WholeInv
<1>8. CASE ConsumerRequiresKeyframe
  <2> DEFINE f == [asm EXCEPT !.waiting = TRUE]
             r == AskForIdr(f)
  <2>1. UNCHANGED handed
    BY <1>8, RequireKeyframeStep
  <2>2. asm' = Called(r) /\ run' = run /\ sent' = sent
    BY <1>8 DEF ConsumerRequiresKeyframe, Returns, RequireKeyframe, senderVars
  <2>3. f \in Assemblers /\ SameWords(asm, f)
    BY <1>1, WordsKept, Zenon DEF Assemblers
  <2> HIDE DEF f
  <2>4. r \in Assemblers /\ SameWords(f, r)
    BY <2>3, AskForIdrKeeps, SameWordsOfAll
  <2> HIDE DEF r
  <2>5. SameWords(r, asm')
    BY <2>2, <2>4, SameWordsOfAll
  <2>6. SameWords(asm, asm')
    BY <2>3, <2>4, <2>5, Zenon DEF SameWords
  <2> QED
    BY <1>2, <1>3, <2>1, <2>2, <2>6 DEF WholeInv
<1>9. CASE IdrWindowEnds
  <2>1. asm' = [asm EXCEPT !.asked = FALSE] /\ handed' = handed /\ run' = run /\ sent' = sent
    BY <1>9 DEF IdrWindowEnds, senderVars
  <2>2. SameWords(asm, asm')
    BY <1>1, <2>1, WordsKept, Zenon
  <2> QED
    BY <1>2, <1>3, <2>1, <2>2 DEF WholeInv
<1>10. CASE NextSession \/ EngineRestart
  <2>1. asm' = Reset(asm) /\ handed' = NoFrame
    BY <1>10 DEF NextSession, EngineRestart
  <2>2. ~asm'.have /\ asm'.bulk = NewWord /\ asm'.words = [s \in SliceIndices |-> NewWord]
    <3>1. /\ ~NewAssembler.have /\ NewAssembler.bulk = NewWord
          /\ NewAssembler.words = [s \in SliceIndices |-> NewWord]
      BY Zenon DEF NewAssembler
    <3> QED
      BY <2>1, <3>1, NewTypes, AssemblerFields, Zenon DEF Reset
  <2>3. WordsOwn(asm)'
    <3>1. ~NewWord.active
      BY DEF NewWord
    <3>2. \A s \in SliceIndices : asm'.words[s] = NewWord
      BY <2>2, Zenon
    <3> QED
      BY <2>2, <3>1, <3>2, Zenon DEF WordsOwn, Own
  <2> QED
    BY <2>1, <2>3, Zenon DEF WholeInv
<1>11. CASE UNCHANGED assemblerVars
  BY <1>2, <1>3, <1>4, <1>11, Zenon DEF assemblerVars, senderVars, WholeInv
<1> QED
  BY <1>5, <1>6, <1>7, <1>8, <1>9, <1>10, <1>11 DEF AssemblerNext

\* A frame reaches the decoder made of its own shards, enough of each of its code
\* words, however many sessions and engine runs the assembler has lived through.
THEOREM FramesAreWhole == AssemblerSpec => []WholeFrames
<1>1. WholeInv => WholeFrames
  BY Zenon DEF WholeInv, Whole, WholeFrames
<1>2. IInv /\ WholeInv /\ [AssemblerNext]_assemblerVars => WholeInv'
  BY WholeStep
<1> QED
  BY <1>1, <1>2, AssemblerInvariant, WholeInit, PTL DEF AssemblerSpec

-----------------------------------------------------------------------------
(* VideoReceiver.                                                          *)


\* Assembled earlier: in an older session, or earlier in the same one.
Before(x, y) == x.gen < y.gen \/ (x.gen = y.gen /\ x.index < y.index)

\* Assembled in an ended session, or in this one and no later than the last
\* frame handed over.
Seen(f) ==
  f.gen < generation \/ (f.gen = generation /\ active /\ f.index <= handed.index)

\* The generation is odd in a session and even between two.
SessionInv ==
  /\ active <=> session \in {"beginning", "on"}
  /\ active => \E k \in Nat : generation = 2 * k + 1
  /\ ~active => \E k \in Nat : generation = 2 * k

QueueInv ==
  /\ \A j \in DOMAIN queue : Seen(queue[j]) /\ Before(popped, queue[j])
  /\ \A j, k \in DOMAIN queue : j < k => Before(queue[j], queue[k])

\* The frame in the hands of the receive thread.
PushInv ==
  receiving = "push" =>
    /\ assembled \in Queueable
    /\ Seen(assembled)
    /\ assembled.gen = generation =>
         Before(popped, assembled) /\ \A j \in DOMAIN queue : Before(queue[j], assembled)

PoppedInv == popped = NoAssembled \/ Seen(popped)

\* What holds of the threads and the queue.
ThreadInv ==
  /\ ReceiverTypeOK
  /\ SessionInv
  /\ QueueInv
  /\ PushInv
  /\ PoppedInv
  /\ NoFrameOfAnotherSession

ReceiverInv == IInv /\ ThreadInv

-----------------------------------------------------------------------------
(* The receive thread's step of the assembler.                             *)

\* A frame that a packet completes is newer than any handed over before.
LEMMA DeliversNewer ==
  ASSUME IInv, NEW p \in Arrivable, OnPacket(asm, p, TRUE).out # NoFrame
  PROVE  LET f == OnPacket(asm, p, TRUE).out
         IN f \in Frames /\ f.index \in DOMAIN sent /\ f.index > handed.index
<1> DEFINE a == asm
           r == OnPacket(a, p, TRUE)
           i == p.index
<1>1. SentTyped /\ a \in Assemblers /\ Tracks(a) /\ handed \in Frames /\ a.out = NoFrame
  BY DEF IInv, AssemblerTypeOK, SentTyped, ChainInv
<1>2. r \in Assemblers
  BY <1>1, OnPacketEffect
<1>3. PICK b \in Assemblers :
         /\ ~TooLate(a, p)
         /\ Begun(a, b, i)
         /\ \/ Agree(b, r) /\ r.waiting = b.waiting /\ r.lost = b.lost
            \/ EndsLost(b, r) \/ EndsSkipped(b, r) \/ EndsDelivered(b, r)
  BY <1>1, OnPacketEffect
<1> HIDE DEF r
<1>4. r.out # NoFrame
  BY DEF r
<1>5. b.out = NoFrame /\ b.index = i
  BY <1>1, <1>3, Zenon DEF Begun
<1>6. r.out.index = i
  BY <1>3, <1>4, <1>5, Zenon DEF Agree, EndsLost, EndsSkipped, EndsDelivered
<1>7. i \in DOMAIN sent /\ i \in Nat
  BY <1>1, PacketFacts, SMT DEF SentTyped, Indices
<1>8. (a.have => i >= a.index) /\ (a.have /\ i = a.index => ~a.finished)
  BY <1>1, <1>3, <1>7, FieldTypes, SMT DEF TooLate
<1>9. a.have => Newest(a) < i
  BY <1>1, <1>7, <1>8, FieldTypes, SMT DEF Newest
<1>10. NoFrame.index = -1
  BY DEF NoFrame, NoIndex
<1>11. handed = NoFrame \/ (a.have /\ handed.index <= Newest(a))
  BY DEF IInv, ChainInv
<1>12. Newest(a) \in Int /\ handed.index \in Int
  BY <1>1, FieldTypes, AssemblerAssumption, SMT
     DEF Newest, Frames, Indices, NoIndex, AssemblerAssumption
<1>13. i > handed.index
  BY <1>7, <1>9, <1>10, <1>11, <1>12, SMT
<1>14. r.out \in Frames
  BY <1>2, FieldTypes
<1> QED
  BY <1>6, <1>7, <1>13, <1>14 DEF r

\* A timeout hands nothing over.
LEMMA TimedOutKeepsOut ==
  ASSUME NEW a \in Assemblers
  PROVE  TimedOut(a).out = a.out
<1> DEFINE f == [a EXCEPT !.finished = TRUE]
<1>1. f \in Assemblers
  BY Zenon DEF Assemblers
<1>2. f.out = a.out
  BY AssemblerFields, Zenon
<1> HIDE DEF f
<1>3. LoseFrames(f, 1).out = f.out
  BY <1>1, LoseFramesEffect DEF Agree
<1> QED
  BY <1>2, <1>3 DEF TimedOut, f

\* onPacket() and onTick() in one critical section.
LEMMA AssemblesStep ==
  ASSUME IInv, UNCHANGED senderVars, NEW r, NEW refreshed \in BOOLEAN,
         \/ r = asm
         \/ \E p \in Arrivable : r = OnPacket(asm, p, TRUE) /\ refreshed = ~TooLate(asm, p),
         Assembles(r, refreshed)
  PROVE  /\ IInv' /\ Handover
         /\ \/ handed' = handed /\ UNCHANGED <<receiving, assembled>>
            \/ /\ handed' \in Frames
               /\ handed'.index \in DOMAIN sent
               /\ handed'.index > handed.index
               /\ receiving' = "push"
               /\ assembled' = [index |-> handed'.index, key |-> handed'.key,
                                ref |-> sent[handed'.index].ref, gen |-> generation]
<1>1. asm \in Assemblers /\ asm.out = NoFrame
  BY DEF IInv, AssemblerTypeOK, ChainInv
<1>2. PICK t \in {r} \cup (IF r.have /\ ~r.finished /\ ~refreshed THEN {TimedOut(r)} ELSE {}) :
         /\ Returns(t)
         /\ IF t.out = NoFrame
            THEN UNCHANGED <<receiving, assembled>>
            ELSE /\ receiving' = "push"
                 /\ assembled' = [index |-> t.out.index, key |-> t.out.key,
                                  ref |-> sent[t.out.index].ref, gen |-> generation]
  BY DEF Assembles
<1>3. handed' = IF t.out = NoFrame THEN handed ELSE t.out
  BY <1>2 DEF Returns
<1>4. CASE t = asm
  <2>1. asm' = Called(asm) /\ handed' = handed /\ UNCHANGED <<receiving, assembled>>
    BY <1>1, <1>2, <1>4 DEF Returns
  <2>2. IInv' /\ asm'.waiting = asm.waiting
    BY <1>1, <2>1, CalledKeeps, WaitingKeepsIInv
  <2> QED
    BY <2>1, <2>2 DEF Handover
<1>5. CASE t = TimedOut(asm) /\ asm.have /\ ~asm.finished
  <2>1. FrameTimeout
    BY <1>2, <1>5 DEF FrameTimeout
  <2>2. t.out = NoFrame
    BY <1>1, <1>5, TimedOutKeepsOut
  <2>3. IInv' /\ Handover
    BY <2>1, TimeoutStep DEF Handover
  <2> QED
    BY <1>2, <1>3, <2>2, <2>3
<1>6. CASE \E p \in Arrivable : t = OnPacket(asm, p, TRUE)
  <2>1. PICK p \in Arrivable : t = OnPacket(asm, p, TRUE)
    BY <1>6
  <2>2. ReceivePacket
    BY <1>2, <2>1 DEF ReceivePacket
  <2>3. IInv' /\ Handover
    BY <2>2, AssemblerStep, PacketStep DEF AssemblerNext
  <2>4. t.out # NoFrame => t.out \in Frames /\ t.out.index \in DOMAIN sent /\ t.out.index > handed.index
    BY <2>1, DeliversNewer
  <2> QED
    BY <1>2, <1>3, <2>3, <2>4
<1>7. CASE r = asm
  BY <1>2, <1>4, <1>5, <1>7
<1>8. CASE \E p \in Arrivable : r = OnPacket(asm, p, TRUE) /\ refreshed = ~TooLate(asm, p)
  <2>1. PICK p \in Arrivable : r = OnPacket(asm, p, TRUE) /\ refreshed = ~TooLate(asm, p)
    BY <1>8
  <2>2. CASE t = r
    BY <1>6, <2>1, <2>2
  <2>3. CASE t = TimedOut(r) /\ r.have /\ ~r.finished /\ ~refreshed
    <3>1. r = asm
      BY <2>1, <2>3 DEF OnPacket
    <3> QED
      BY <1>5, <2>3, <3>1
  <2> QED
    BY <1>2, <2>2, <2>3
<1> QED
  BY <1>7, <1>8

-----------------------------------------------------------------------------
(* The steps.                                                              *)

\* Steps that leave the queue and the sessions alone, and hand nothing over.
LEMMA QuietStep ==
  ASSUME ThreadInv, UNCHANGED <<generation, active, queue, assembled, session, popped, handed>>,
         receiving' = "push" => receiving = "push"
  PROVE  SessionInv' /\ QueueInv' /\ PushInv' /\ PoppedInv' /\ NoFrameOfAnotherSession'
<1>1. \A f : Seen(f)' = Seen(f)
  BY DEF Seen
<1>2. SessionInv' /\ NoFrameOfAnotherSession'
  BY DEF ThreadInv, SessionInv, NoFrameOfAnotherSession
<1>3. QueueInv'
  BY DEF ThreadInv, QueueInv, Seen
<1>4. PushInv'
  BY DEF ThreadInv, PushInv, Seen
<1>5. PoppedInv'
  BY DEF ThreadInv, PoppedInv, Seen
<1> QED
  BY <1>2, <1>3, <1>4, <1>5

LEMMA QuietSteps ==
  ASSUME ReceiverInv,
         StreamedPresents \/ Overflow \/ RequireRestart \/ Pause \/ Resume
  PROVE  ReceiverInv' /\ UNCHANGED popped
<1>1. CASE StreamedPresents
  <2>1. IInv' /\ UNCHANGED handed
    BY <1>1, PresentsStep DEF StreamedPresents, ReceiverInv
  <2>2. SessionInv' /\ QueueInv' /\ PushInv' /\ PoppedInv' /\ NoFrameOfAnotherSession'
    BY <1>1, <2>1, QuietStep DEF StreamedPresents, threadVars, ReceiverInv
  <2>3. ReceiverTypeOK'
    BY <1>1, <2>1 DEF StreamedPresents, threadVars, ReceiverInv, ThreadInv, ReceiverTypeOK, IInv
  <2> QED
    BY <1>1, <2>1, <2>2, <2>3 DEF ReceiverInv, ThreadInv, StreamedPresents
<1>2. CASE Overflow \/ RequireRestart
  <2>1. /\ UNCHANGED <<senderVars, generation, active, queue, assembled, rendering, session,
                       fed, popped>>
        /\ receiving' = receiving \/ (receiving' = "read" /\ receiving = "overflow")
        /\ consuming' \in {"idle", "require", "clear"}
    BY <1>2 DEF Overflow, RequireRestart, ReceiverInv, ThreadInv, ReceiverTypeOK
  <2>2. Returns(RequireKeyframe(asm)) \/ UNCHANGED <<asm, handed>>
    BY <1>2 DEF Overflow, RequireRestart
  <2>3. IInv' /\ UNCHANGED handed
    <3>1. CASE Returns(RequireKeyframe(asm))
      BY <2>1, <3>1, RequireKeyframeStep DEF ConsumerRequiresKeyframe, ReceiverInv
    <3>2. CASE UNCHANGED <<asm, handed>>
      BY <2>1, <3>2, AssemblerStep DEF assemblerVars, ReceiverInv
    <3> QED
      BY <2>2, <3>1, <3>2
  <2>4. SessionInv' /\ QueueInv' /\ PushInv' /\ PoppedInv' /\ NoFrameOfAnotherSession'
    BY <2>1, <2>3, QuietStep DEF ReceiverInv
  <2>5. ReceiverTypeOK'
    BY <2>1, <2>3 DEF ReceiverInv, ThreadInv, ReceiverTypeOK, IInv
  <2> QED
    BY <2>1, <2>3, <2>4, <2>5 DEF ReceiverInv, ThreadInv
<1>3. CASE Pause \/ Resume
  <2>1. /\ UNCHANGED <<assemblerVars, generation, active, queue, receiving, assembled, session,
                       fed, popped>>
        /\ rendering' \in BOOLEAN /\ consuming' \in {"idle", "require", "clear"}
    BY <1>3 DEF Pause, Resume, ReceiverInv, ThreadInv, ReceiverTypeOK
  <2>2. IInv' /\ UNCHANGED handed
    BY <2>1, AssemblerStep DEF assemblerVars, ReceiverInv
  <2>3. SessionInv' /\ QueueInv' /\ PushInv' /\ PoppedInv' /\ NoFrameOfAnotherSession'
    BY <2>1, <2>2, QuietStep DEF ReceiverInv
  <2>4. ReceiverTypeOK'
    BY <2>1, <2>2 DEF ReceiverInv, ThreadInv, ReceiverTypeOK, IInv
  <2> QED
    BY <2>1, <2>2, <2>3, <2>4 DEF ReceiverInv, ThreadInv
<1> QED
  BY <1>1, <1>2, <1>3

\* What was seen stays seen while frames are handed over in order.
LEMMA ReceiveStep ==
  ASSUME ReceiverInv, Receive
  PROVE  ReceiverInv' /\ UNCHANGED popped
<1>1. /\ receiving = "read"
      /\ UNCHANGED <<senderVars, generation, active, queue, rendering, consuming, session, fed,
                     popped>>
  BY DEF Receive
<1>2. CASE UNCHANGED <<asm, handed, receiving, assembled>>
  <2>1. IInv'
    BY <1>1, <1>2, AssemblerStep DEF assemblerVars, ReceiverInv
  <2>2. SessionInv' /\ QueueInv' /\ PushInv' /\ PoppedInv' /\ NoFrameOfAnotherSession'
    BY <1>1, <1>2, QuietStep DEF ReceiverInv
  <2>3. ReceiverTypeOK'
    BY <1>1, <1>2, <2>1 DEF ReceiverInv, ThreadInv, ReceiverTypeOK, IInv
  <2> QED
    BY <1>1, <2>1, <2>2, <2>3 DEF ReceiverInv, ThreadInv
<1>3. ASSUME active, NEW r, NEW refreshed \in BOOLEAN,
             \/ r = asm
             \/ \E p \in Arrivable : r = OnPacket(asm, p, TRUE) /\ refreshed = ~TooLate(asm, p),
             Assembles(r, refreshed)
      PROVE  ReceiverInv' /\ UNCHANGED popped
  <2>1. /\ IInv'
        /\ \/ handed' = handed /\ UNCHANGED <<receiving, assembled>>
           \/ /\ handed' \in Frames
              /\ handed'.index \in DOMAIN sent
              /\ handed'.index > handed.index
              /\ receiving' = "push"
              /\ assembled' = [index |-> handed'.index, key |-> handed'.key,
                               ref |-> sent[handed'.index].ref, gen |-> generation]
    BY <1>1, <1>3, AssemblesStep DEF ReceiverInv
  <2>2. CASE handed' = handed /\ UNCHANGED <<receiving, assembled>>
    <3>1. SessionInv' /\ QueueInv' /\ PushInv' /\ PoppedInv' /\ NoFrameOfAnotherSession'
      BY <1>1, <2>2, QuietStep DEF ReceiverInv
    <3>2. ReceiverTypeOK'
      BY <1>1, <2>1, <2>2 DEF ReceiverInv, ThreadInv, ReceiverTypeOK, IInv
    <3> QED
      BY <1>1, <2>1, <3>1, <3>2 DEF ReceiverInv, ThreadInv
  <2>3. CASE /\ handed' \in Frames
             /\ handed'.index \in DOMAIN sent
             /\ handed'.index > handed.index
             /\ receiving' = "push"
             /\ assembled' = [index |-> handed'.index, key |-> handed'.key,
                              ref |-> sent[handed'.index].ref, gen |-> generation]
    <3>1. /\ handed'.index \in Indices /\ handed'.key \in BOOLEAN
          /\ sent[handed'.index].ref \in {NoIndex} \cup Indices
      <4>1. DOMAIN sent \subseteq Indices /\ sent[handed'.index] \in FrameInfo
        BY <2>3 DEF ReceiverInv, IInv, AssemblerTypeOK
      <4> QED
        BY <2>3, <4>1 DEF Frames, FrameInfo
    <3>2. generation \in 1 .. 2 * MaxSessions
      BY <1>3, ReceiverAssumption, SMT
         DEF ReceiverInv, ThreadInv, SessionInv, ReceiverTypeOK, ReceiverAssumption
    <3>3. assembled' \in Queueable
      BY <2>3, <3>1, <3>2 DEF Queueable
    <3>4. ReceiverTypeOK'
      BY <1>1, <2>1, <2>3, <3>3 DEF ReceiverInv, ThreadInv, ReceiverTypeOK, IInv
    <3>5. handed.index \in Int /\ handed'.index \in Int /\ generation \in Nat
      BY <2>3, <3>1, <3>2, AssemblerAssumption, SMT
         DEF ReceiverInv, IInv, AssemblerTypeOK, Frames, Indices, NoIndex, AssemblerAssumption
    <3>6. \A f \in Queueable \cup {NoAssembled} : Seen(f) => Seen(f)' /\ Before(f, assembled')
      <4> SUFFICES ASSUME NEW f \in Queueable \cup {NoAssembled}, Seen(f)
                   PROVE  Seen(f)' /\ Before(f, assembled')
        OBVIOUS
      <4>1. f.index \in Int /\ f.gen \in Int
        BY AssemblerAssumption, SMT
           DEF Queueable, NoAssembled, Indices, NoIndex, AssemblerAssumption
      <4>2. assembled'.gen = generation /\ assembled'.index = handed'.index
        BY <2>3
      <4> QED
        BY <1>1, <2>3, <3>5, <4>1, <4>2, SMT DEF Seen, Before
    <3>7. \A j \in DOMAIN queue : queue[j] \in Queueable
      BY DEF ReceiverInv, ThreadInv, ReceiverTypeOK
    <3>8. QueueInv'
      BY <1>1, <3>6, <3>7 DEF ReceiverInv, ThreadInv, QueueInv
    <3>9. PoppedInv' /\ Before(popped, assembled')
      <4>1. popped \in Queueable \cup {NoAssembled}
        BY DEF ReceiverInv, ThreadInv, ReceiverTypeOK
      <4>2. Before(NoAssembled, assembled')
        BY <2>3, <3>2, SMT DEF Before, NoAssembled
      <4> QED
        BY <1>1, <3>6, <4>1, <4>2 DEF ReceiverInv, ThreadInv, PoppedInv
    <3>10. Seen(assembled)'
      BY <1>1, <1>3, <2>3, <3>5, SMT DEF Seen
    <3>11. PushInv'
      BY <1>1, <3>3, <3>6, <3>7, <3>9, <3>10 DEF PushInv, ReceiverInv, ThreadInv, QueueInv
    <3>12. SessionInv' /\ NoFrameOfAnotherSession'
      BY <1>1 DEF ReceiverInv, ThreadInv, SessionInv, NoFrameOfAnotherSession
    <3> QED
      BY <1>1, <2>1, <3>4, <3>8, <3>9, <3>11, <3>12 DEF ReceiverInv, ThreadInv
  <2> QED
    BY <2>1, <2>2, <2>3
<1>4. \/ UNCHANGED <<asm, handed, receiving, assembled>>
      \/ active /\ Assembles(asm, FALSE)
      \/ active /\ \E p \in Arrivable : Assembles(OnPacket(asm, p, TRUE), ~TooLate(asm, p))
  BY DEF Receive
<1>5. CASE active /\ Assembles(asm, FALSE)
  BY <1>3, <1>5
<1>6. CASE active /\ \E p \in Arrivable : Assembles(OnPacket(asm, p, TRUE), ~TooLate(asm, p))
  <2>1. PICK p \in Arrivable : Assembles(OnPacket(asm, p, TRUE), ~TooLate(asm, p))
    BY <1>6
  <2>2. (~TooLate(asm, p)) \in BOOLEAN
    BY DEF TooLate
  <2> QED
    BY <1>3, <1>6, <2>1, <2>2
<1> QED
  BY <1>2, <1>4, <1>5, <1>6

\* The queue takes a frame of this session only, and never one too many.
LEMMA PushStep ==
  ASSUME ReceiverInv, Push
  PROVE  ReceiverInv' /\ UNCHANGED popped
<1>1. /\ receiving = "push" /\ receiving' \in {"read", "overflow"}
      /\ assembled' = NoAssembled
      /\ UNCHANGED <<assemblerVars, generation, active, rendering, consuming, session, fed, popped>>
  BY DEF Push, PushFrame
<1>2. IInv' /\ UNCHANGED handed
  BY <1>1, AssemblerStep DEF assemblerVars, ReceiverInv
<1>3. assembled \in Queueable /\ Seen(assembled)
  BY <1>1 DEF ReceiverInv, ThreadInv, PushInv
<1>4. SessionInv' /\ PushInv' /\ PoppedInv'
  BY <1>1, <1>2 DEF ReceiverInv, ThreadInv, SessionInv, PushInv, PoppedInv, Seen
<1>5. \A f : Seen(f)' = Seen(f)
  BY <1>1, <1>2 DEF Seen
<1>6. queue \in Seq(Queueable) /\ Len(queue) <= MaxQueued
  BY DEF ReceiverInv, ThreadInv, ReceiverTypeOK
<1>7. CASE queue' = queue \/ queue' = <<>>
  <2>1. queue' \in Seq(Queueable) /\ Len(queue') <= MaxQueued
    <3>1. <<>> \in Seq(Queueable) /\ Len(<<>>) = 0
      OBVIOUS
    <3>2. 0 <= MaxQueued
      BY ReceiverAssumption, SMT DEF ReceiverAssumption
    <3> QED
      BY <1>6, <1>7, <3>1, <3>2, Zenon
  <2>2. ReceiverTypeOK'
    BY <1>1, <1>2, <2>1 DEF ReceiverInv, ThreadInv, ReceiverTypeOK, IInv
  <2>3. QueueInv' /\ NoFrameOfAnotherSession'
    BY <1>1, <1>2, <1>7 DEF ReceiverInv, ThreadInv, QueueInv, NoFrameOfAnotherSession, Seen
  <2> QED
    BY <1>1, <1>2, <1>4, <2>2, <2>3 DEF ReceiverInv, ThreadInv
<1>8. CASE /\ assembled.gen = generation
           /\ Len(queue) < MaxQueued
           /\ queue' = Append(queue, assembled)
  <2>1. /\ Len(queue') = Len(queue) + 1 /\ queue' \in Seq(Queueable)
        /\ DOMAIN queue' = 1 .. Len(queue) + 1 /\ DOMAIN queue = 1 .. Len(queue)
        /\ \A j \in 1 .. Len(queue) : queue'[j] = queue[j]
        /\ queue'[Len(queue) + 1] = assembled
        /\ Len(queue) \in Nat
    BY <1>3, <1>6, <1>8
  <2>2. ReceiverTypeOK'
    <3>1. Len(queue') <= MaxQueued
      BY <1>6, <1>8, <2>1, ReceiverAssumption, SMT DEF ReceiverAssumption
    <3> QED
      BY <1>1, <1>2, <2>1, <3>1 DEF ReceiverInv, ThreadInv, ReceiverTypeOK, IInv
  <2>3. Before(popped, assembled) /\ \A j \in DOMAIN queue : Before(queue[j], assembled)
    BY <1>1, <1>8 DEF ReceiverInv, ThreadInv, PushInv
  <2>4. \A j \in DOMAIN queue' : j \in DOMAIN queue \/ j = Len(queue) + 1
    BY <2>1
  <2>5. \A j \in DOMAIN queue' : Seen(queue'[j]) /\ Before(popped', queue'[j])
    BY <1>1, <1>3, <2>1, <2>3, <2>4 DEF ReceiverInv, ThreadInv, QueueInv
  <2>6. \A j, k \in DOMAIN queue' : j < k => Before(queue'[j], queue'[k])
    <3> SUFFICES ASSUME NEW j \in DOMAIN queue', NEW k \in DOMAIN queue', j < k
                 PROVE  Before(queue'[j], queue'[k])
      OBVIOUS
    <3>1. j \in DOMAIN queue
      BY <2>1
    <3>2. CASE k = Len(queue) + 1
      BY <2>1, <2>3, <3>1, <3>2
    <3>3. CASE k \in DOMAIN queue
      BY <2>1, <3>1, <3>3 DEF ReceiverInv, ThreadInv, QueueInv
    <3> QED
      BY <2>4, <3>2, <3>3
  <2>7. QueueInv'
    BY <1>1, <1>2, <2>5, <2>6 DEF QueueInv, Seen
  <2>8. NoFrameOfAnotherSession'
    BY <1>1, <1>8, <2>1, <2>4 DEF ReceiverInv, ThreadInv, NoFrameOfAnotherSession
  <2> QED
    BY <1>1, <1>2, <1>4, <2>2, <2>7, <2>8 DEF ReceiverInv, ThreadInv
<1> QED
  BY <1>7, <1>8 DEF Push, PushFrame

\* The render thread takes the oldest frame.
LEMMA PopStep ==
  ASSUME ReceiverInv, Pop,
         consuming' \in {"idle", "require"}, rendering' \in BOOLEAN,
         fed' \in {popped', NoAssembled}
  PROVE  ReceiverInv' /\ Before(popped, popped')
<1>1. /\ queue # <<>> /\ popped' = Head(queue) /\ queue' = Tail(queue)
      /\ UNCHANGED <<assemblerVars, generation, active, receiving, assembled, session>>
  BY DEF Pop
<1>2. IInv' /\ UNCHANGED handed
  BY <1>1, AssemblerStep DEF assemblerVars, ReceiverInv
<1>3. queue \in Seq(Queueable) /\ Len(queue) <= MaxQueued
  BY DEF ReceiverInv, ThreadInv, ReceiverTypeOK
<1>4. /\ Len(queue') = Len(queue) - 1 /\ queue' \in Seq(Queueable)
      /\ \A j \in DOMAIN queue' : /\ j \in Int
                                  /\ j + 1 \in DOMAIN queue
                                  /\ queue'[j] = queue[j + 1]
                                  /\ 1 < j + 1
      /\ popped' = queue[1] /\ 1 \in DOMAIN queue /\ popped' \in Queueable
      /\ Len(queue) \in Nat
  BY <1>1, <1>3
<1>5. \A f : Seen(f)' = Seen(f)
  BY <1>1, <1>2 DEF Seen
<1>6. ReceiverTypeOK'
  <2>1. Len(queue') <= MaxQueued
    BY <1>3, <1>4, ReceiverAssumption, SMT DEF ReceiverAssumption
  <2> QED
    BY <1>1, <1>2, <1>4, <2>1 DEF ReceiverInv, ThreadInv, ReceiverTypeOK, IInv
<1>7. SessionInv'
  BY <1>1 DEF ReceiverInv, ThreadInv, SessionInv
<1>8. QueueInv'
  <2>1. \A j \in DOMAIN queue' : Seen(queue'[j]) /\ Before(popped', queue'[j])
    BY <1>4 DEF ReceiverInv, ThreadInv, QueueInv
  <2>2. \A j, k \in DOMAIN queue' : j < k => Before(queue'[j], queue'[k])
    <3> SUFFICES ASSUME NEW j \in DOMAIN queue', NEW k \in DOMAIN queue', j < k
                 PROVE  Before(queue'[j], queue'[k])
      OBVIOUS
    <3>1. /\ j + 1 \in DOMAIN queue /\ k + 1 \in DOMAIN queue /\ j + 1 < k + 1
          /\ queue'[j] = queue[j + 1] /\ queue'[k] = queue[k + 1]
      BY <1>4
    <3> QED
      BY <3>1 DEF ReceiverInv, ThreadInv, QueueInv
  <2> QED
    BY <1>1, <1>2, <2>1, <2>2 DEF QueueInv, Seen
<1>9. PushInv'
  BY <1>1, <1>4, <1>5 DEF ReceiverInv, ThreadInv, PushInv
<1>10. PoppedInv' /\ Before(popped, popped')
  BY <1>4, <1>5 DEF ReceiverInv, ThreadInv, PoppedInv, QueueInv
<1>11. NoFrameOfAnotherSession'
  BY <1>1, <1>4 DEF ReceiverInv, ThreadInv, NoFrameOfAnotherSession
<1> QED
  BY <1>2, <1>6, <1>7, <1>8, <1>9, <1>10, <1>11 DEF ReceiverInv, ThreadInv

LEMMA PopSteps ==
  ASSUME ReceiverInv, Feed \/ Reject \/ Discard
  PROVE  ReceiverInv' /\ Before(popped, popped')
<1>1. /\ Pop
      /\ consuming' \in {"idle", "require"}
      /\ rendering' \in BOOLEAN
      /\ fed' \in {popped', NoAssembled}
  BY DEF Feed, Reject, Discard, Pop, ReceiverInv, ThreadInv, ReceiverTypeOK
<1> QED
  BY <1>1, PopStep

\* An empty queue, whoever emptied it.
LEMMA EmptyQueueStep ==
  ASSUME ReceiverInv, ClearQueue \/ SessionClearsQueue
  PROVE  ReceiverInv' /\ UNCHANGED popped
<1>1. /\ queue' = <<>>
      /\ UNCHANGED <<assemblerVars, generation, active, receiving, assembled, rendering, popped>>
      /\ fed' \in {fed, NoAssembled}
      /\ consuming' \in {"idle", "require", "clear"}
      /\ session' \in {"off", "beginning", "on", "ending"}
      /\ session' \in {"beginning", "on"} <=> session \in {"beginning", "on"}
  BY DEF ClearQueue, SessionClearsQueue, ReceiverInv, ThreadInv, ReceiverTypeOK
<1>2. IInv' /\ UNCHANGED handed
  BY <1>1, AssemblerStep DEF assemblerVars, ReceiverInv
<1>3. queue' \in Seq(Queueable) /\ Len(queue') <= MaxQueued
  <2>1. <<>> \in Seq(Queueable) /\ Len(<<>>) = 0
    OBVIOUS
  <2>2. 0 <= MaxQueued
    BY ReceiverAssumption, SMT DEF ReceiverAssumption
  <2> QED
    BY <1>1, <2>1, <2>2
<1>4. ReceiverTypeOK'
  BY <1>1, <1>2, <1>3 DEF ReceiverInv, ThreadInv, ReceiverTypeOK, IInv
<1>5. SessionInv'
  BY <1>1 DEF ReceiverInv, ThreadInv, SessionInv
<1>6. QueueInv' /\ NoFrameOfAnotherSession'
  BY <1>1 DEF QueueInv, NoFrameOfAnotherSession
<1>7. PushInv' /\ PoppedInv'
  BY <1>1, <1>2 DEF ReceiverInv, ThreadInv, PushInv, PoppedInv, Seen
<1> QED
  BY <1>1, <1>2, <1>4, <1>5, <1>6, <1>7 DEF ReceiverInv, ThreadInv

\* A new generation: everything seen so far belongs to an older one.
LEMMA NewGeneration ==
  ASSUME ReceiverInv, generation' = generation + 1, generation' <= 2 * MaxSessions,
         IInv', active' = ~active, active' <=> session' = "beginning",
         session' \in {"beginning", "ending"}, session \in {"on", "off"},
         UNCHANGED <<queue, receiving, assembled, rendering, consuming, fed, popped>>
  PROVE  ReceiverInv'
<1>1. generation \in Nat /\ active \in BOOLEAN
  BY SMT DEF ReceiverInv, ThreadInv, ReceiverTypeOK
<1>2. ReceiverTypeOK'
  <2>1. generation' \in 0 .. 2 * MaxSessions
    BY <1>1, ReceiverAssumption, SMT DEF ReceiverAssumption
  <2> QED
    BY <1>1, <2>1 DEF ReceiverInv, ThreadInv, ReceiverTypeOK, IInv
<1>3. SessionInv'
  <2>1. CASE active
    <3>1. PICK k \in Nat : generation = 2 * k + 1
      BY <2>1 DEF ReceiverInv, ThreadInv, SessionInv
    <3>2. k + 1 \in Nat /\ generation' = 2 * (k + 1)
      BY <3>1, SMT
    <3> QED
      BY <2>1, <3>2 DEF SessionInv
  <2>2. CASE ~active
    BY <2>2 DEF ReceiverInv, ThreadInv, SessionInv
  <2> QED
    BY <2>1, <2>2
<1>4. \A f \in Queueable \cup {NoAssembled} : Seen(f) => f.gen < generation'
  <2> SUFFICES ASSUME NEW f \in Queueable \cup {NoAssembled}, Seen(f)
               PROVE  f.gen < generation'
    OBVIOUS
  <2>1. f.gen \in Int
    BY SMT DEF Queueable, NoAssembled
  <2> QED
    BY <1>1, <2>1, SMT DEF Seen
<1>5. \A j \in DOMAIN queue : queue[j] \in Queueable
  BY DEF ReceiverInv, ThreadInv, ReceiverTypeOK
<1>6. popped \in Queueable \cup {NoAssembled}
  BY DEF ReceiverInv, ThreadInv, ReceiverTypeOK
<1>7. QueueInv'
  BY <1>4, <1>5 DEF ReceiverInv, ThreadInv, QueueInv, Seen
<1>8. PushInv'
  <2>1. receiving = "push" => /\ assembled \in Queueable /\ assembled.gen < generation'
                              /\ assembled.gen \in Int
    BY <1>4 DEF ReceiverInv, ThreadInv, PushInv, Queueable
  <2>2. receiving = "push" => assembled.gen # generation'
    BY <1>1, <2>1, SMT
  <2> QED
    BY <2>1, <2>2 DEF PushInv, Seen
<1>9. PoppedInv'
  BY <1>4, <1>6 DEF ReceiverInv, ThreadInv, PoppedInv, Seen
<1>10. NoFrameOfAnotherSession'
  BY DEF NoFrameOfAnotherSession
<1> QED
  BY <1>2, <1>3, <1>7, <1>8, <1>9, <1>10 DEF ReceiverInv, ThreadInv

LEMMA SessionSteps ==
  ASSUME ReceiverInv, BeginSession \/ EndSession \/ RestartedEngine
  PROVE  ReceiverInv' /\ UNCHANGED popped
<1>1. generation \in Nat /\ generation <= 2 * MaxSessions /\ active \in BOOLEAN
      /\ (active <=> session \in {"beginning", "on"})
  BY SMT DEF ReceiverInv, ThreadInv, ReceiverTypeOK, SessionInv
<1>2. CASE BeginSession
  <2>1. /\ session = "off" /\ session' = "beginning" /\ active' = TRUE
        /\ generation < 2 * MaxSessions /\ generation' = generation + 1
        /\ asm' = Reset(asm) /\ handed' = NoFrame /\ sent' = <<>>
        /\ UNCHANGED <<run, next, encoded>>
        /\ UNCHANGED <<queue, receiving, assembled, rendering, consuming, fed, popped>>
    BY <1>2 DEF BeginSession
  <2>2. IInv'
    <3>1. asm' \in Assemblers /\ handed' \in Frames /\ ChainInv' /\ EveryFrameCountedOnce'
      BY <2>1, ResetInv DEF ReceiverInv, IInv, AssemblerTypeOK
    <3>2. DOMAIN sent' = {} /\ sent' \in [{} -> FrameInfo]
      BY <2>1
    <3>3. AssemblerTypeOK' /\ SentInv'
      BY <2>1, <3>1, <3>2 DEF ReceiverInv, IInv, AssemblerTypeOK, SentInv
    <3> QED
      BY <3>1, <3>3 DEF IInv
  <2>3. generation' <= 2 * MaxSessions
    BY <1>1, <2>1, ReceiverAssumption, SMT DEF ReceiverAssumption
  <2>4. active' = ~active /\ (active' <=> session' = "beginning")
    BY <1>1, <2>1
  <2> QED
    BY <2>1, <2>2, <2>3, <2>4, NewGeneration
<1>3. CASE EndSession
  <2>1. /\ session = "on" /\ session' = "ending" /\ active' = FALSE
        /\ generation' = generation + 1
        /\ UNCHANGED <<assemblerVars, queue, receiving, assembled, rendering, consuming, fed, popped>>
    BY <1>3 DEF EndSession
  <2>2. IInv'
    BY <2>1, AssemblerStep DEF ReceiverInv
  <2>3. generation' <= 2 * MaxSessions
    <3>1. PICK k \in Nat : generation = 2 * k + 1
      BY <1>1, <2>1 DEF ReceiverInv, ThreadInv, SessionInv
    <3> QED
      BY <1>1, <2>1, <3>1, ReceiverAssumption, SMT DEF ReceiverAssumption
  <2>4. active' = ~active /\ (active' <=> session' = "beginning")
    BY <1>1, <2>1
  <2> QED
    BY <2>1, <2>2, <2>3, <2>4, NewGeneration
<1>4. CASE RestartedEngine
  <2>1. /\ EngineRestart /\ ~active
        /\ UNCHANGED <<generation, active, queue, receiving, assembled, rendering, consuming,
                       session, fed, popped>>
    BY <1>1, <1>4 DEF RestartedEngine, threadVars
  <2>2. IInv'
    BY <2>1, SessionStep DEF ReceiverInv
  <2>3. ReceiverTypeOK'
    BY <2>1, <2>2 DEF ReceiverInv, ThreadInv, ReceiverTypeOK, IInv
  <2>4. \A f : Seen(f) => f.gen < generation
    BY <2>1 DEF Seen
  <2>5. QueueInv' /\ PoppedInv'
    BY <2>1, <2>4 DEF ReceiverInv, ThreadInv, QueueInv, PoppedInv, Seen
  <2>6. PushInv'
    BY <2>1, <2>4 DEF ReceiverInv, ThreadInv, PushInv, Seen
  <2>7. SessionInv' /\ NoFrameOfAnotherSession'
    BY <2>1 DEF ReceiverInv, ThreadInv, SessionInv, NoFrameOfAnotherSession
  <2> QED
    BY <2>1, <2>2, <2>3, <2>5, <2>6, <2>7 DEF ReceiverInv, ThreadInv
<1> QED
  BY <1>2, <1>3, <1>4

LEMMA ReceiverInitInv == ReceiverInit => ReceiverInv
<1> SUFFICES ASSUME ReceiverInit PROVE ReceiverInv
  OBVIOUS
<1>1. IInv
  BY InitIInv DEF ReceiverInit
<1>2. <<>> \in Seq(Queueable) /\ Len(<<>>) = 0 /\ DOMAIN <<>> = {}
  OBVIOUS
<1>3. 0 \in 0 .. 2 * MaxSessions /\ 0 <= MaxQueued
  BY ReceiverAssumption, SMT DEF ReceiverAssumption
<1>4. ReceiverTypeOK
  BY <1>1, <1>2, <1>3 DEF ReceiverInit, ReceiverTypeOK, IInv
<1>5. SessionInv
  <2>1. generation = 2 * 0
    BY DEF ReceiverInit
  <2> QED
    BY <2>1 DEF ReceiverInit, SessionInv
<1>6. QueueInv /\ PushInv /\ PoppedInv /\ NoFrameOfAnotherSession
  BY DEF ReceiverInit, QueueInv, PushInv, PoppedInv, NoFrameOfAnotherSession
<1> QED
  BY <1>1, <1>4, <1>5, <1>6 DEF ReceiverInv, ThreadInv

\* Every step keeps the invariant; only popping changes popped, and in order.
LEMMA ReceiverStep ==
  ASSUME ReceiverInv, [ReceiverNext]_receiverVars
  PROVE  ReceiverInv' /\ (UNCHANGED popped \/ Before(popped, popped'))
<1>1. CASE StreamedPresents \/ Overflow \/ RequireRestart \/ Pause \/ Resume
  BY <1>1, QuietSteps
<1>2. CASE Receive
  BY <1>2, ReceiveStep
<1>3. CASE Push
  BY <1>3, PushStep
<1>4. CASE Feed \/ Reject \/ Discard
  BY <1>4, PopSteps
<1>5. CASE ClearQueue \/ SessionClearsQueue
  BY <1>5, EmptyQueueStep
<1>6. CASE BeginSession \/ EndSession \/ RestartedEngine
  BY <1>6, SessionSteps
<1>7. CASE UNCHANGED receiverVars
  <2>1. IInv'
    BY <1>7, AssemblerStep DEF receiverVars, ReceiverInv
  <2>2. UNCHANGED <<assemblerVars, generation, active, queue, receiving, assembled, rendering,
                    consuming, session, fed, popped, handed>>
    BY <1>7 DEF receiverVars, threadVars, assemblerVars
  <2>3. SessionInv' /\ QueueInv' /\ PushInv' /\ PoppedInv' /\ NoFrameOfAnotherSession'
    BY <2>2, QuietStep DEF ReceiverInv
  <2>4. ReceiverTypeOK'
    BY <2>1, <2>2 DEF ReceiverInv, ThreadInv, ReceiverTypeOK, IInv
  <2> QED
    BY <2>1, <2>2, <2>3, <2>4 DEF ReceiverInv, ThreadInv
<1> QED
  BY <1>1, <1>2, <1>3, <1>4, <1>5, <1>6, <1>7 DEF ReceiverNext

\* The invariant of every interleaving of the three threads.
THEOREM ReceiverInvariant == ReceiverSpec => []ReceiverInv
<1>1. ReceiverInv /\ [ReceiverNext]_receiverVars => ReceiverInv'
  BY ReceiverStep
<1> QED
  BY <1>1, ReceiverInitInv, PTL DEF ReceiverSpec

\* No more than kMaxQueuedFrames frames wait, and the assembler keeps its types
\* under the calls of three threads.
THEOREM QueueIsBounded == ReceiverSpec => []ReceiverTypeOK
<1>1. ReceiverInv => ReceiverTypeOK
  BY DEF ReceiverInv, ThreadInv
<1> QED
  BY <1>1, ReceiverInvariant, PTL

\* A frame the receive thread held while a session ended or began never gets
\* into the queue of another one.
THEOREM SessionsDoNotMix == ReceiverSpec => []NoFrameOfAnotherSession
<1>1. ReceiverInv => NoFrameOfAnotherSession
  BY DEF ReceiverInv, ThreadInv
<1> QED
  BY <1>1, ReceiverInvariant, PTL

\* popFrame() never gives a frame twice or out of order, over overflows,
\* keyframe restarts and sessions, nor one of another session.
THEOREM FramesPoppedInOrder == ReceiverSpec => PopsInOrder
<1>1. ReceiverInv /\ [ReceiverNext]_receiverVars =>
        [popped' # popped =>
           /\ popped'.gen > popped.gen
                \/ (popped'.gen = popped.gen /\ popped'.index > popped.index)
           /\ session \in {"on", "off"} => popped'.gen = generation]_receiverVars
  <2> SUFFICES ASSUME ReceiverInv, [ReceiverNext]_receiverVars, popped' # popped
               PROVE  /\ popped'.gen > popped.gen
                           \/ (popped'.gen = popped.gen /\ popped'.index > popped.index)
                      /\ session \in {"on", "off"} => popped'.gen = generation
    OBVIOUS
  <2>1. Before(popped, popped')
    BY ReceiverStep
  <2>2. /\ popped \in Queueable \cup {NoAssembled}
        /\ popped' \in Queueable \cup {NoAssembled}
    BY ReceiverStep DEF ReceiverInv, ThreadInv, ReceiverTypeOK
  <2>3. popped.gen \in Int /\ popped.index \in Int /\ popped'.gen \in Int /\ popped'.index \in Int
    BY <2>2, AssemblerAssumption, SMT
       DEF Queueable, NoAssembled, Indices, NoIndex, AssemblerAssumption
  <2>4. Pop
    BY DEF ReceiverNext, receiverVars, Feed, Reject, Discard, StreamedPresents, RestartedEngine,
           Receive, Push, Overflow, Pause, Resume, RequireRestart, ClearQueue, BeginSession,
           EndSession, SessionClearsQueue
  <2>5. 1 \in DOMAIN queue /\ popped' = queue[1]
    BY <2>4 DEF Pop, ReceiverInv, ThreadInv, ReceiverTypeOK
  <2>6. session \in {"on", "off"} => popped'.gen = generation
    BY <2>5 DEF ReceiverInv, ThreadInv, NoFrameOfAnotherSession
  <2> QED
    BY <2>1, <2>3, <2>6, SMT DEF Before
<1> QED
  BY <1>1, ReceiverInvariant, PTL DEF ReceiverSpec, PopsInOrder

-----------------------------------------------------------------------------
(* The decoder's references.                                               *)

\* y can be decoded right after x.
Follows(x, y) == y.key \/ (x.gen = y.gen /\ x.index = y.ref)

\* The receive thread holds a frame of this session.
Pending == receiving = "push" /\ assembled.gen = generation

\* The newest of the frames queued and fed, and with the one in the receive thread's hands.
Back == IF queue = <<>> THEN fed ELSE queue[Len(queue)]
Last == IF Pending THEN assembled ELSE Back

\* What the decoder got last, the queue and the frame about to be pushed follow one another,
\* where nothing was thrown away; and what the assembler hands over next will follow the
\* last of them, unless it waits for a keyframe, or is about to.
LinkInv ==
  /\ session = "beginning" => DOMAIN sent = {} /\ ~Pending
  /\ session = "on" =>
       /\ \A j \in 1 .. Len(queue) - 1 : Follows(queue[j], queue[j + 1])
       /\ queue # <<>> /\ fed # NoAssembled => Follows(fed, queue[1])
       /\ Pending /\ Back # NoAssembled => Follows(Back, assembled)
       /\ \/ asm.waiting \/ receiving = "overflow" \/ Last = NoAssembled
          \/ Last.index = handed.index /\ Last.gen = generation

\* Where the queue is, none of its frames is NoAssembled.
LEMMA QueueFacts ==
  ASSUME ReceiverInv
  PROVE  /\ queue \in Seq(Queueable) /\ Len(queue) \in Nat
         /\ queue # <<>> => Len(queue) \in DOMAIN queue /\ 1 \in DOMAIN queue
         /\ NoAssembled \notin Queueable
<1>1. queue \in Seq(Queueable)
  BY DEF ReceiverInv, ThreadInv, ReceiverTypeOK
<1>2. NoAssembled \notin Queueable
  BY SMT DEF NoAssembled, Queueable
<1> QED
  BY <1>1, <1>2

\* Steps that leave the frames where they are, with the assembler at most waiting.
LEMMA LinkQuiet ==
  ASSUME LinkInv, UNCHANGED <<generation, queue, assembled, session, fed, handed>>,
         receiving' = receiving \/ (receiving = "overflow" /\ asm'.waiting /\ receiving' = "read"),
         asm'.waiting \/ asm'.waiting = asm.waiting,
         session # "on" => UNCHANGED sent
  PROVE  LinkInv'
<1>1. Pending' = Pending /\ Back' = Back /\ Last' = Last
  BY DEF Pending, Back, Last
<1>2. session' = "beginning" => DOMAIN sent' = {} /\ ~Pending'
  BY <1>1 DEF LinkInv
<1>3. ASSUME session' = "on"
      PROVE  /\ \A j \in 1 .. Len(queue') - 1 : Follows(queue'[j], queue'[j + 1])
             /\ queue' # <<>> /\ fed' # NoAssembled => Follows(fed', queue'[1])
             /\ Pending' /\ Back' # NoAssembled => Follows(Back', assembled')
  BY <1>1, <1>3 DEF LinkInv
<1>4. ASSUME session' = "on"
      PROVE  \/ asm'.waiting \/ receiving' = "overflow" \/ Last' = NoAssembled
             \/ Last'.index = handed'.index /\ Last'.gen = generation'
  BY <1>1, <1>4 DEF LinkInv
<1> QED
  BY <1>2, <1>3, <1>4 DEF LinkInv, Follows

LEMMA LinkQuietSteps ==
  ASSUME ReceiverInv, LinkInv,
         StreamedPresents \/ Overflow \/ RequireRestart \/ Pause \/ Resume \/ UNCHANGED receiverVars
  PROVE  LinkInv' /\ UNCHANGED fed
<1>1. CASE StreamedPresents
  <2>1. UNCHANGED <<asm, handed>>
    BY <1>1, PresentsStep DEF StreamedPresents, ReceiverInv
  <2> QED
    BY <1>1, <2>1, LinkQuiet DEF StreamedPresents, threadVars
<1>2. CASE Returns(RequireKeyframe(asm)) /\ (Overflow \/ RequireRestart)
  <2>1. UNCHANGED senderVars
    BY <1>2 DEF Overflow, RequireRestart
  <2>2. UNCHANGED handed /\ asm'.waiting
    BY <1>2, <2>1, RequireKeyframeStep DEF ConsumerRequiresKeyframe, ReceiverInv
  <2> QED
    BY <1>2, <2>1, <2>2, LinkQuiet DEF Overflow, RequireRestart, senderVars
<1>3. CASE UNCHANGED <<asm, handed>> /\ RequireRestart
  BY <1>3, LinkQuiet DEF RequireRestart, senderVars
<1>4. CASE Pause \/ Resume
  BY <1>4, LinkQuiet DEF Pause, Resume, assemblerVars, senderVars
<1>5. CASE UNCHANGED receiverVars
  BY <1>5, LinkQuiet DEF receiverVars, threadVars, assemblerVars, senderVars
<1> QED
  BY <1>1, <1>2, <1>3, <1>4, <1>5 DEF Overflow, RequireRestart

\* A frame handed over follows the last one, or needs none.
LEMMA LinkReceive ==
  ASSUME ReceiverInv, LinkInv, Receive
  PROVE  LinkInv' /\ UNCHANGED fed
<1>1. /\ receiving = "read"
      /\ UNCHANGED <<senderVars, generation, active, queue, rendering, consuming, session, fed,
                     popped>>
  BY DEF Receive
<1>2. CASE UNCHANGED <<asm, handed, receiving, assembled>>
  BY <1>1, <1>2, LinkQuiet DEF senderVars
<1>3. ASSUME NEW r, NEW refreshed \in BOOLEAN,
             \/ r = asm
             \/ \E p \in Arrivable : r = OnPacket(asm, p, TRUE) /\ refreshed = ~TooLate(asm, p),
             Assembles(r, refreshed)
      PROVE  LinkInv'
  <2>1. /\ Handover
        /\ \/ handed' = handed /\ UNCHANGED <<receiving, assembled>>
           \/ /\ handed'.index \in DOMAIN sent
              /\ handed'.index > handed.index
              /\ receiving' = "push"
              /\ assembled' = [index |-> handed'.index, key |-> handed'.key,
                               ref |-> sent[handed'.index].ref, gen |-> generation]
    BY <1>1, <1>3, AssemblesStep DEF ReceiverInv
  <2>2. handed.index \in Int
    BY AssemblerAssumption, SMT
       DEF ReceiverInv, IInv, AssemblerTypeOK, Frames, Indices, NoIndex, AssemblerAssumption
  <2>3. CASE handed' = handed /\ UNCHANGED <<receiving, assembled>>
    <3>1. asm'.waiting \/ asm'.waiting = asm.waiting
      BY <2>1, <2>2, <2>3, SMT DEF Handover
    <3> QED
      BY <1>1, <2>3, <3>1, LinkQuiet DEF senderVars
  <2>4. CASE /\ handed'.index \in DOMAIN sent
             /\ handed'.index > handed.index
             /\ receiving' = "push"
             /\ assembled' = [index |-> handed'.index, key |-> handed'.key,
                              ref |-> sent[handed'.index].ref, gen |-> generation]
    <3>1. /\ assembled'.index = handed'.index /\ assembled'.key = handed'.key
          /\ assembled'.ref = sent[handed'.index].ref /\ assembled'.gen = generation
      BY <2>4
    <3>2. handed'.key \/ (~asm.waiting /\ sent[handed'.index].ref = handed.index)
      BY <2>1, <2>2, <2>4, SMT DEF Handover
    <3>3. ~Pending /\ Last = Back /\ Pending' /\ Back' = Back /\ Last' = assembled'
      BY <1>1, <2>4, <3>1 DEF Pending, Last, Back
    <3>4. ASSUME session = "on", Back # NoAssembled
          PROVE  Follows(Back, assembled')
      <4>1. asm.waiting \/ (Back.index = handed.index /\ Back.gen = generation)
        BY <1>1, <3>3, <3>4 DEF LinkInv
      <4> QED
        BY <3>1, <3>2, <4>1 DEF Follows
    <3>5. session # "beginning"
      BY <2>4 DEF LinkInv
    <3>6. ASSUME session' = "on"
          PROVE  /\ \A j \in 1 .. Len(queue') - 1 : Follows(queue'[j], queue'[j + 1])
                 /\ queue' # <<>> /\ fed' # NoAssembled => Follows(fed', queue'[1])
      BY <1>1, <3>6 DEF LinkInv
    <3>7. ASSUME session' = "on"
          PROVE  /\ Pending' /\ Back' # NoAssembled => Follows(Back', assembled')
                 /\ Last'.index = handed'.index /\ Last'.gen = generation'
      BY <1>1, <3>1, <3>3, <3>4, <3>7
    <3> QED
      BY <1>1, <3>5, <3>6, <3>7 DEF LinkInv, Follows
  <2> QED
    BY <2>1, <2>3, <2>4
<1>4. \/ UNCHANGED <<asm, handed, receiving, assembled>>
      \/ Assembles(asm, FALSE)
      \/ \E p \in Arrivable : Assembles(OnPacket(asm, p, TRUE), ~TooLate(asm, p))
  BY DEF Receive
<1>5. CASE Assembles(asm, FALSE)
  BY <1>1, <1>3, <1>5
<1>6. CASE \E p \in Arrivable : Assembles(OnPacket(asm, p, TRUE), ~TooLate(asm, p))
  <2>1. PICK p \in Arrivable : Assembles(OnPacket(asm, p, TRUE), ~TooLate(asm, p))
    BY <1>6
  <2>2. (~TooLate(asm, p)) \in BOOLEAN
    BY DEF TooLate
  <2> QED
    BY <1>1, <1>3, <2>1, <2>2
<1> QED
  BY <1>1, <1>2, <1>4, <1>5, <1>6

LEMMA LinkPush ==
  ASSUME ReceiverInv, LinkInv, Push
  PROVE  LinkInv' /\ UNCHANGED fed
<1>1. /\ receiving = "push" /\ PushFrame /\ assembled' = NoAssembled
      /\ UNCHANGED <<asm, handed, sent, generation, session, fed>>
  BY DEF Push, PushFrame, assemblerVars, senderVars
<1>2. receiving' # "push" /\ ~Pending'
  BY <1>1 DEF PushFrame, Pending
<1>3. queue \in Seq(Queueable) /\ assembled \in Queueable /\ NoAssembled \notin Queueable
  BY <1>1, QueueFacts DEF ReceiverInv, ThreadInv, PushInv
<1>4. CASE assembled.gen # generation /\ UNCHANGED queue
  <2>1. ~Pending /\ Back' = Back /\ Last' = Last
    BY <1>1, <1>2, <1>4 DEF Pending, Back, Last
  <2>2. ASSUME session' = "on"
        PROVE  /\ \A j \in 1 .. Len(queue') - 1 : Follows(queue'[j], queue'[j + 1])
               /\ queue' # <<>> /\ fed' # NoAssembled => Follows(fed', queue'[1])
               /\ \/ asm'.waiting \/ Last' = NoAssembled
                  \/ Last'.index = handed'.index /\ Last'.gen = generation'
    BY <1>1, <1>4, <2>1, <2>2 DEF LinkInv
  <2> QED
    BY <1>1, <1>2, <2>2 DEF LinkInv, Follows
<1>5. CASE assembled.gen = generation /\ queue' = Append(queue, assembled)
  <2>1. /\ Len(queue') = Len(queue) + 1 /\ Len(queue) \in Nat
        /\ \A j \in 1 .. Len(queue) : queue'[j] = queue[j]
        /\ queue'[Len(queue) + 1] = assembled /\ queue' # <<>>
    BY <1>1, <1>3, <1>5
  <2>2. Pending /\ Last = assembled /\ Back' = assembled /\ Last' = assembled
    BY <1>1, <1>2, <1>5, <2>1 DEF Pending, Back, Last
  <2>3. ASSUME session' = "on"
        PROVE  \A j \in 1 .. Len(queue') - 1 : Follows(queue'[j], queue'[j + 1])
    <3> SUFFICES ASSUME NEW j \in 1 .. Len(queue') - 1
                 PROVE  Follows(queue'[j], queue'[j + 1])
      OBVIOUS
    <3>1. CASE j = Len(queue)
      <4>1. queue # <<>> /\ Back = queue[j] /\ queue'[j] = queue[j] /\ queue'[j + 1] = assembled
        BY <2>1, <3>1 DEF Back
      <4>2. Back # NoAssembled
        BY <1>3, <3>1, <4>1, <2>1
      <4> QED
        BY <1>1, <2>2, <2>3, <4>1, <4>2 DEF LinkInv
    <3>2. CASE j # Len(queue)
      <4>1. j \in 1 .. Len(queue) - 1 /\ j \in 1 .. Len(queue) /\ j + 1 \in 1 .. Len(queue)
        BY <2>1, <3>2
      <4>2. Follows(queue[j], queue[j + 1])
        BY <1>1, <2>3, <4>1 DEF LinkInv
      <4> QED
        BY <2>1, <4>1, <4>2
    <3> QED
      BY <3>1, <3>2
  <2>4. ASSUME session' = "on", fed # NoAssembled
        PROVE  Follows(fed, queue'[1])
    <3>1. CASE queue = <<>>
      <4>1. Back = fed /\ queue'[1] = assembled
        BY <2>1, <3>1 DEF Back
      <4> QED
        BY <1>1, <2>2, <2>4, <4>1 DEF LinkInv
    <3>2. CASE queue # <<>>
      <4>1. queue'[1] = queue[1]
        BY <1>3, <2>1, <3>2
      <4> QED
        BY <1>1, <2>4, <3>2, <4>1 DEF LinkInv
    <3> QED
      BY <3>1, <3>2
  <2>5. ASSUME session' = "on"
        PROVE  asm'.waiting \/ (Last'.index = handed'.index /\ Last'.gen = generation')
    BY <1>1, <1>3, <2>2, <2>5 DEF LinkInv
  <2> QED
    BY <1>1, <1>2, <2>3, <2>4, <2>5 DEF LinkInv, Follows
<1>6. CASE assembled.gen = generation /\ receiving' = "overflow" /\ queue' = <<>>
  <2>1. session # "beginning"
    BY <1>1, <1>6 DEF LinkInv, Pending
  <2> QED
    BY <1>1, <1>2, <1>6, <2>1 DEF LinkInv
<1> QED
  BY <1>1, <1>4, <1>5, <1>6 DEF PushFrame

\* The render thread takes the first: the others still follow one another.
LEMMA LinkPop ==
  ASSUME ReceiverInv, LinkInv, Pop, fed' \in {popped', NoAssembled}
  PROVE  /\ LinkInv'
         /\ session = "on" /\ fed' # NoAssembled /\ fed # NoAssembled => Follows(fed, fed')
<1>1. /\ queue # <<>> /\ popped' = Head(queue) /\ queue' = Tail(queue)
      /\ UNCHANGED <<asm, handed, sent, generation, receiving, assembled, session>>
  BY DEF Pop, assemblerVars, senderVars
<1>2. queue \in Seq(Queueable) /\ NoAssembled \notin Queueable
  BY QueueFacts
<1>3. /\ Len(queue') = Len(queue) - 1 /\ Len(queue) \in Nat \ {0}
      /\ \A j \in 1 .. Len(queue') : queue'[j] = queue[j + 1]
      /\ popped' = queue[1]
      /\ (queue' = <<>>) <=> (Len(queue) = 1)
  <2>1. Len(queue) \in Nat \ {0}
    BY <1>1, <1>2
  <2>2. Len(queue') = Len(queue) - 1 /\ queue' \in Seq(Queueable)
    BY <1>1, <1>2
  <2>3. \A j \in 1 .. Len(queue') : queue'[j] = queue[j + 1]
    BY <1>1, <1>2, <2>2
  <2>4. popped' = queue[1]
    BY <1>1, <1>2
  <2>5. (queue' = <<>>) <=> (Len(queue') = 0)
    BY <2>2
  <2> QED
    BY <2>1, <2>2, <2>3, <2>4, <2>5
<1>4. Pending' = Pending /\ (Back' = Back \/ Back' = NoAssembled)
  <2>1. Pending' = Pending
    BY <1>1 DEF Pending
  <2>2. CASE Len(queue) = 1
    BY <1>1, <1>3, <2>1, <2>2 DEF Back
  <2>3. CASE Len(queue) # 1
    <3>1. queue' # <<>> /\ Len(queue') \in 1 .. Len(queue') /\ Len(queue') + 1 = Len(queue)
      BY <1>3, <2>3
    <3>2. queue'[Len(queue')] = queue[Len(queue)]
      BY <1>3, <3>1
    <3> QED
      BY <1>1, <1>3, <2>1, <2>3, <3>1, <3>2 DEF Back
  <2> QED
    BY <2>2, <2>3
<1>5. Last' = Last \/ Last' = NoAssembled
  BY <1>1, <1>4 DEF Last
<1>6. ASSUME session = "on"
      PROVE  \A j \in 1 .. Len(queue) - 1 : Follows(queue[j], queue[j + 1])
  BY <1>6 DEF LinkInv
<1>7. ASSUME session' = "on"
      PROVE  \A j \in 1 .. Len(queue') - 1 : Follows(queue'[j], queue'[j + 1])
  <2> SUFFICES ASSUME NEW j \in 1 .. Len(queue') - 1
               PROVE  Follows(queue'[j], queue'[j + 1])
    OBVIOUS
  <2>1. /\ j \in 1 .. Len(queue') /\ j + 1 \in 1 .. Len(queue')
        /\ j + 1 \in 1 .. Len(queue) - 1
    BY <1>3
  <2>2. Follows(queue[j + 1], queue[(j + 1) + 1])
    BY <1>1, <1>6, <1>7, <2>1
  <2>3. queue'[j] = queue[j + 1] /\ queue'[j + 1] = queue[(j + 1) + 1]
    BY <1>3, <2>1
  <2> QED
    BY <2>2, <2>3
<1>8. ASSUME session' = "on", queue' # <<>>, fed' # NoAssembled
      PROVE  Follows(fed', queue'[1])
  <2>1. 1 \in 1 .. Len(queue) - 1 /\ 1 \in 1 .. Len(queue')
    BY <1>3, <1>8
  <2>2. fed' = queue[1] /\ queue'[1] = queue[1 + 1]
    BY <1>3, <1>8, <2>1
  <2>3. Follows(queue[1], queue[1 + 1])
    BY <1>1, <1>6, <1>8, <2>1
  <2> QED
    BY <2>2, <2>3
<1>9. ASSUME session' = "on"
      PROVE  /\ Pending' /\ Back' # NoAssembled => Follows(Back', assembled')
             /\ \/ asm'.waiting \/ receiving' = "overflow" \/ Last' = NoAssembled
                \/ Last'.index = handed'.index /\ Last'.gen = generation'
  BY <1>1, <1>4, <1>5, <1>9 DEF LinkInv
<1>10. LinkInv'
  <2>1. session' = "beginning" => DOMAIN sent' = {} /\ ~Pending'
    BY <1>1, <1>4 DEF LinkInv
  <2> QED
    BY <1>7, <1>8, <1>9, <2>1 DEF LinkInv, Follows
<1>11. ASSUME session = "on", fed' # NoAssembled, fed # NoAssembled
       PROVE  Follows(fed, fed')
  BY <1>1, <1>3, <1>11 DEF LinkInv
<1> QED
  BY <1>10, <1>11

LEMMA LinkClear ==
  ASSUME ReceiverInv, ReceiverInv', LinkInv, ClearQueue \/ SessionClearsQueue
  PROVE  LinkInv' /\ fed' \in {fed, NoAssembled}
<1>1. /\ queue' = <<>> /\ UNCHANGED <<asm, handed, sent, generation, receiving, assembled>>
      /\ fed' \in {fed, NoAssembled}
  BY DEF ClearQueue, SessionClearsQueue, assemblerVars, senderVars
<1>2. Len(queue') = 0 /\ Pending' = Pending /\ Back' = fed'
  BY <1>1 DEF Pending, Back
<1>3. CASE ClearQueue
  <2>1. session' = session /\ (Back' = Back \/ Back' = NoAssembled)
    BY <1>2, <1>3 DEF ClearQueue, Back
  <2>2. Last' = Last \/ Last' = NoAssembled
    BY <1>1, <1>2, <2>1 DEF Last
  <2>3. ASSUME session' = "on"
        PROVE  /\ Pending' /\ Back' # NoAssembled => Follows(Back', assembled')
               /\ \/ asm'.waiting \/ receiving' = "overflow" \/ Last' = NoAssembled
                  \/ Last'.index = handed'.index /\ Last'.gen = generation'
    BY <1>1, <1>2, <2>1, <2>2, <2>3 DEF LinkInv
  <2>4. session' = "beginning" => DOMAIN sent' = {} /\ ~Pending'
    BY <1>1, <1>2, <2>1 DEF LinkInv
  <2> QED
    BY <1>1, <1>2, <2>3, <2>4 DEF LinkInv, Follows
<1>4. CASE SessionClearsQueue
  <2>1. session' = "on" => session = "beginning"
    BY <1>4 DEF SessionClearsQueue
  <2>2. session' = "on" => DOMAIN sent' = {} /\ ~Pending'
    BY <1>1, <1>2, <2>1 DEF LinkInv
  <2>3. session' = "on" => asm'.waiting
    BY <2>2 DEF ReceiverInv, IInv, ChainInv, Tracks
  <2>4. session' # "beginning"
    BY <1>4 DEF SessionClearsQueue
  <2> QED
    BY <1>1, <1>2, <2>2, <2>3, <2>4 DEF LinkInv
<1> QED
  BY <1>3, <1>4

LEMMA LinkSessions ==
  ASSUME ReceiverInv, LinkInv, BeginSession \/ EndSession \/ RestartedEngine
  PROVE  LinkInv' /\ UNCHANGED fed
<1>1. CASE BeginSession
  <2>1. /\ session' = "beginning" /\ sent' = <<>> /\ generation' = generation + 1
        /\ UNCHANGED <<receiving, assembled, fed>>
    BY <1>1 DEF BeginSession
  <2>2. ASSUME receiving = "push" PROVE assembled.gen # generation + 1
    <3>1. assembled \in Queueable /\ Seen(assembled)
      BY <2>2 DEF ReceiverInv, ThreadInv, PushInv
    <3>2. assembled.gen \in Int /\ generation \in Int
      BY <3>1, SMT DEF Queueable, ReceiverInv, ThreadInv, ReceiverTypeOK
    <3> QED
      BY <3>1, <3>2, SMT DEF Seen
  <2> QED
    BY <2>1, <2>2 DEF LinkInv, Pending
<1>2. CASE EndSession
  BY <1>2 DEF EndSession, LinkInv
<1>3. CASE RestartedEngine
  BY <1>3 DEF RestartedEngine, threadVars, LinkInv
<1> QED
  BY <1>1, <1>2, <1>3

LEMMA LinkStep ==
  ASSUME ReceiverInv, LinkInv, [ReceiverNext]_receiverVars
  PROVE  /\ LinkInv'
         /\ \/ fed' \in {fed, NoAssembled}
            \/ session = "on" /\ fed # NoAssembled => Follows(fed, fed')
<1>1. ReceiverInv'
  BY ReceiverStep
<1>2. CASE StreamedPresents \/ Overflow \/ RequireRestart \/ Pause \/ Resume \/ UNCHANGED receiverVars
  BY <1>2, LinkQuietSteps
<1>3. CASE Receive
  BY <1>3, LinkReceive
<1>4. CASE Push
  BY <1>4, LinkPush
<1>5. CASE Feed \/ Reject \/ Discard
  <2>1. Pop /\ fed' \in {popped', NoAssembled}
    BY <1>5 DEF Feed, Reject, Discard
  <2> QED
    BY <2>1, LinkPop
<1>6. CASE ClearQueue \/ SessionClearsQueue
  BY <1>1, <1>6, LinkClear
<1>7. CASE BeginSession \/ EndSession \/ RestartedEngine
  BY <1>7, LinkSessions
<1> QED
  BY <1>2, <1>3, <1>4, <1>5, <1>6, <1>7 DEF ReceiverNext

\* Overflows, lost packets, late frames and new sessions break no chain unnoticed: unless the
\* render thread threw a frame away since, what the decoder gets is a keyframe or references
\* the frame it got last.
THEOREM ReferencesKeptUntilLost == ReceiverSpec => DecoderHasReferenceUntilLost
<1>1. ReceiverInit => LinkInv
  BY DEF ReceiverInit, LinkInv
<1>2. ReceiverInv /\ LinkInv /\ [ReceiverNext]_receiverVars => LinkInv'
  BY LinkStep
<1>3. ReceiverInv /\ LinkInv /\ [ReceiverNext]_receiverVars =>
        [session # "on" \/ fed' \in {fed, NoAssembled} \/ fed'.key \/ fed = NoAssembled
         \/ (fed.gen = fed'.gen /\ fed.index = fed'.ref)]_receiverVars
  BY LinkStep DEF Follows
<1> QED
  BY <1>1, <1>2, <1>3, ReceiverInvariant, PTL DEF ReceiverSpec, DecoderHasReferenceUntilLost

=============================================================================
