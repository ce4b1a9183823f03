---------------------------- MODULE FrameStream ----------------------------
(***************************************************************************)
(* What the client's frame assembler promises its consumer, the decoder:   *)
(* frames in order, each at most once, starting at a keyframe, and after   *)
(* any break of the reference chain nothing but a keyframe                 *)
(* (frame_assembler.h, class comment).                                     *)
(***************************************************************************)
EXTENDS Integers

NoIndex == -1   \* no frame yet: frame 0 is a frame

VARIABLES
  last,     \* the index of the last frame handed over, or NoIndex
  lastKey,  \* that frame is a keyframe
  chained   \* the frame after it can be decoded without a keyframe

streamVars == <<last, lastKey, chained>>

StreamInit ==
  /\ last = NoIndex
  /\ lastKey = FALSE
  /\ chained = FALSE

\* A keyframe may skip any number of frames, and repairs the chain.
HandKey ==
  /\ last' \in Int
  /\ last' > last
  /\ lastKey' = TRUE
  /\ chained' = TRUE

\* Any other frame directly follows the frame it references.
HandNext ==
  /\ chained
  /\ last' = last + 1
  /\ lastKey' = FALSE
  /\ UNCHANGED chained

\* A frame was lost, or the consumer lost one.
Break ==
  /\ chained' = FALSE
  /\ UNCHANGED <<last, lastKey>>

\* A new session numbers its frames on its own.
Restart ==
  /\ last' = NoIndex
  /\ lastKey' = FALSE
  /\ chained' = FALSE

StreamNext == HandKey \/ HandNext \/ Break \/ Restart

StreamSpec == StreamInit /\ [][StreamNext]_streamVars

=============================================================================
