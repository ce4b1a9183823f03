------------------------------ MODULE FrameFec ------------------------------
(***************************************************************************)
(* How a frame becomes packets and a frame again: the choice of a layout,  *)
(* slices, shards, parity and headers of the sender (pipeline.rs,          *)
(* transport/slice.rs, transport/fec.rs, transport/rtp.rs), and the        *)
(* reassembler that mirrors the client's decoders (FecFrameReassembler).   *)
(* FrameAssembler has the client's own; here the bytes and their           *)
(* boundaries are in the model.  Reed-Solomon is what it promises: any     *)
(* data_count shards of a code word give its data shards.                  *)
(***************************************************************************)
EXTENDS Integers, Sequences, FiniteSets, SequencesExt, FiniteSetsExt

CONSTANTS
  ShardSize,      \* FEC_SHARD_SIZE
  Prefix,         \* SLICE_LEN_PREFIX
  WordShards,     \* RS_MAX_TOTAL_SHARDS
  FrameShards,    \* MAX_FRAME_SHARDS
  MaxSlices,      \* MAX_SLICE_COUNT
  MinSliceSize,   \* MIN_SLICE_SIZE
  Redundancies,   \* the redundancies adaptive FEC may choose, in percent
  MaxLength,      \* bound: bytes of a frame
  MaxFrames       \* bound: frames sent

ASSUME ShardsAssumption ==
  /\ {ShardSize, Prefix, WordShards, FrameShards, MaxSlices} \subseteq Nat \ {0}
  /\ {MinSliceSize, MaxLength, MaxFrames} \subseteq Nat
  /\ WordShards <= FrameShards
  /\ Redundancies \subseteq 0 .. 100

VARIABLES
  redundancy,  \* of every encoder of the FrameFecEncoder
  slicing,     \* the [network] settings: slice_fec_enabled and slice_count
  frame,       \* the last frame sent: [index, length, layout, sent]
  packets,     \* its packets, and the ones of the frame before
  filling,     \* the reassembler's PendingFrame, or <<>>
  out          \* frames the reassembler gave out

fecVars == <<redundancy, slicing, frame, packets, filling, out>>

DivCeil(a, b) == (a + b - 1) \div b
Largest(a, b) == IF a > b THEN a ELSE b

\* parity_for(): never none.
ParityFor(data) == Largest(DivCeil(data * redundancy, 100), 1)

\* max_data_shards()
MaxDataShards == Max({0} \cup {d \in 1 .. WordShards - 1 : d + ParityFor(d) <= WordShards})

\* Mutant of SliceDataShards: the length prefix is forgotten.
SliceDataShardsBare(length) == DivCeil(length, ShardSize)

\* slice_data_shards()
SliceDataShards(length) == DivCeil(length + Prefix, ShardSize)

\* choose_fec_layout(): 0 slices is one code word in bulk, -1 no parity at all.
Layout(length) ==
  LET slice == slicing.on /\ length >= MinSliceSize
      from == IF slice THEN Min({Largest(slicing.count, 1), MaxSlices}) ELSE 1
      fits == {n \in from .. MaxSlices : SliceDataShards(DivCeil(length, n)) <= MaxDataShards}
  IN IF ~slice /\ DivCeil(length, ShardSize) <= MaxDataShards THEN 0
     ELSE IF fits = {} THEN -1 ELSE Min(fits)

-----------------------------------------------------------------------------
(* Bytes.                                                                  *)
Pad == <<"pad", 0>>
Bytes(from, to) == [i \in 1 .. to - from |-> <<"byte", from + i>>]

\* SliceSplitter::split(): the first slices take the remainder; the bytes of slice i of n.
SliceOf(length, i, n) ==
  LET base == length \div n
      rest == length % n
      from == i * base + Min({i, rest})
  IN Bytes(from, from + base + IF i < rest THEN 1 ELSE 0)

Prefixed(bytes) == [i \in 1 .. Prefix |-> IF i = 1 THEN <<"length", Len(bytes)>> ELSE Pad] \o bytes

\* to_data_shards(), joined again: the last shard is padded.
Padded(bytes) == bytes \o [i \in 1 .. DivCeil(Len(bytes), ShardSize) * ShardSize - Len(bytes) |-> Pad]

\* The code words of a frame: their bytes, padded to whole shards.
Words(length, layout) ==
  LET n == Min({layout, length})
  IN IF layout <= 0 THEN <<Padded(Bytes(0, length))>>
     ELSE [i \in 1 .. n |-> Padded(Prefixed(SliceOf(length, i - 1, n)))]

\* FecEncoder::encode() refuses more shards than a code word holds: a bulk word then goes out without
\* parity.
DataShards(word) == Len(word) \div ShardSize
Fits(data) == data + ParityFor(data) <= WordShards
TotalShards(word, layout) ==
  LET data == DataShards(word)
  IN IF layout = -1 \/ (layout = 0 /\ ~Fits(data)) THEN data ELSE data + ParityFor(data)

\* The header of shard s of a code word; a frame in bulk says it has no slices.
Header(index, slice, slices, s, total, word) ==
  [frame |-> index, slice |-> slice, slices |-> slices,
   shard |-> s, total |-> total, data |-> DataShards(word), word |-> word]

\* FrameFecEncoder::encode(): a frame with a slice that cannot be coded, or too large for the headers
\* (shards_to_packets()), is dropped.
PacketsOf(index, length, layout) ==
  LET words == Words(length, layout)
      shards(i) == TotalShards(words[i], layout)
      codes(i) == shards(i) <= IF layout > 0 THEN WordShards ELSE FrameShards
  IN IF length = 0 \/ \E i \in 1 .. Len(words) : ~codes(i) THEN {}
     ELSE UNION {{Header(index, i - 1, IF layout <= 0 THEN 0 ELSE Len(words), s, shards(i), words[i])
                    : s \in 0 .. shards(i) - 1} : i \in 1 .. Len(words)}

EncodeFrame(length) ==
  /\ frame.index < MaxFrames
  /\ LET layout == Layout(length)
         sent == PacketsOf(frame.index + 1, length, layout)
     IN /\ frame' = [index |-> frame.index + 1, length |-> length, layout |-> layout, sent |-> sent # {}]
        /\ packets' = {p \in packets : p.frame = frame.index} \cup sent
  /\ UNCHANGED <<redundancy, slicing, filling, out>>

\* set_redundancy(), from adaptive FEC, reaches every encoder.
SetRedundancy(percent) ==
  /\ percent # redundancy
  /\ redundancy' = percent
  /\ UNCHANGED <<slicing, frame, packets, filling, out>>

-----------------------------------------------------------------------------
(* FecFrameReassembler.                                                    *)
NewGroup == [total |-> 0, data |-> 0, shards |-> {}, decoded |-> FALSE, bytes |-> <<>>]

\* A new index abandons the frame before.
PendingFor(p) ==
  IF filling # <<>> /\ filling.frame = p.frame THEN filling
  ELSE [frame |-> p.frame, slices |-> p.slices, groups |-> [i \in 1 .. Largest(p.slices, 1) |-> NewGroup],
        delivered |-> FALSE]

\* ShardGroup::accept()
Accepts(group, p) ==
  /\ group.total \in {0, p.total}
  /\ group.data \in {0, p.data}
  /\ p.shard \notin group.shards

\* ShardGroup::reconstruct(): the data shards; of a slice, the prefix says how much of them.
Reconstructed(p) ==
  IF p.slices = 0 THEN p.word ELSE SubSeq(p.word, Prefix + 1, Prefix + p.word[1][2])

Stored(group, p) ==
  LET shards == group.shards \cup {p.shard}
      complete == Cardinality(shards) >= p.data
  IN [total |-> p.total, data |-> p.data, shards |-> shards, decoded |-> complete,
      bytes |-> IF complete THEN Reconstructed(p) ELSE <<>>]

\* feed()
Feed(p) ==
  LET now == PendingFor(p)
      at == p.slice + 1
      stored == [now EXCEPT !.groups[at] = Stored(@, p)]
      whole == \A i \in DOMAIN stored.groups : stored.groups[i].decoded
  IN /\ p \in packets
     /\ IF now.delivered \/ now.groups[at].decoded \/ ~Accepts(now.groups[at], p)
        THEN filling' = now /\ UNCHANGED out
        ELSE /\ filling' = [stored EXCEPT !.delivered = whole]
             /\ out' = IF whole
                       THEN out \cup {[index |-> p.frame,
                                      bytes |-> FlattenSeq([i \in DOMAIN stored.groups |-> stored.groups[i].bytes])]}
                       ELSE out
     /\ UNCHANGED <<redundancy, slicing, frame, packets>>

-----------------------------------------------------------------------------
FecInit ==
  /\ redundancy \in Redundancies
  /\ slicing \in [on : BOOLEAN, count : 0 .. MaxSlices + 1]
  /\ frame = [index |-> 0, length |-> 0, layout |-> 0, sent |-> TRUE]
  /\ packets = {} /\ filling = <<>> /\ out = {}

FecNext ==
  \/ \E length \in 0 .. MaxLength : EncodeFrame(length)
  \/ \E percent \in Redundancies : SetRedundancy(percent)
  \/ \E p \in packets : Feed(p)

FecSpec == FecInit /\ [][FecNext]_fecVars

-----------------------------------------------------------------------------
(* Properties.                                                             *)

\* The layout that is chosen can be coded: no frame is dropped that fits the headers at all.
ChosenLayoutCodes == frame.length > 0 /\ DivCeil(frame.length, ShardSize) <= FrameShards => frame.sent

\* What comes out is the last frame sent, byte by byte; bulk frames keep their padding.
ComesOutAsSent ==
  \A o \in out :
    o.index = frame.index =>
      o.bytes = IF frame.layout <= 0 THEN Padded(Bytes(0, frame.length)) ELSE Bytes(0, frame.length)

\* A frame has come out once enough of each code word is there.
ComesOut ==
  filling # <<>> /\ (\A i \in DOMAIN filling.groups :
       filling.groups[i].total > 0 /\ Cardinality(filling.groups[i].shards) >= filling.groups[i].data)
     => \E o \in out : o.index = filling.frame

\* For every length, redundancy and slicing, over changes between frames, and for any order, loss and
\* repetition of packets: a frame is sent, and comes back as it was when enough of each code word does.
FramesComeBack == ChosenLayoutCodes /\ ComesOutAsSent /\ ComesOut

=============================================================================
