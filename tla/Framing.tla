-------------------------------- MODULE Framing --------------------------------
(***************************************************************************)
(* Conversion between 80-sample sub-frames and 64-sample blocks            *)
(* (FrameBlocker and BlockFramer).  Sizes are counted in chunks of 16      *)
(* samples, their greatest common divisor: samples only move in whole      *)
(* chunks.  A buffer is the sequence of chunks it holds; all bands and     *)
(* channels move alike, so one stands for all.                             *)
(*                                                                         *)
(* An operator that extracts something returns a record: what it extracts  *)
(* and the new buffer.  The Fits operators are the RTC_DCHECKs on the      *)
(* buffer size that each of them makes first.                              *)
(***************************************************************************)
EXTENDS Integers, Sequences

Chunk == 16
BlockChunks == 64 \div Chunk      \* kBlockSize
SubFrameChunks == 80 \div Chunk   \* kSubFrameLength
FrameChunks == 2 * SubFrameChunks

\* BlockFramer starts with one block of silence, chunk 0 standing for silence.
SilentBlock == [i \in 1 .. BlockChunks |-> 0]

\* Variant with a mistake: the wrong part of the sub-frame is kept.
KeepStartOfSubFrame(buffer, subFrame) ==
  LET missing == BlockChunks - Len(buffer) IN
  [block  |-> buffer \o SubSeq(subFrame, 1, missing),
   buffer |-> SubSeq(subFrame, 1, SubFrameChunks - missing)]

\* The block is completed from the sub-frame, whose rest is kept.
SubFrameFits(buffer) == Len(buffer) <= BlockChunks - 1
InsertSubFrameAndExtractBlock(buffer, subFrame) ==
  LET missing == BlockChunks - Len(buffer) IN
  [block  |-> buffer \o SubSeq(subFrame, 1, missing),
   buffer |-> SubSeq(subFrame, missing + 1, SubFrameChunks)]

IsBlockAvailable(buffer) == Len(buffer) = BlockChunks

\* A block alone, which must meet an empty buffer.
BlockFits(buffer) == buffer = <<>>
InsertBlock(buffer, block) == block \o buffer

\* The sub-frame is completed from the block, whose rest is kept.
BlockCompletesSubFrame(buffer) == Len(buffer) \in SubFrameChunks - BlockChunks .. BlockChunks
InsertBlockAndExtractSubFrame(buffer, block) ==
  LET missing == SubFrameChunks - Len(buffer) IN
  [subFrame |-> buffer \o SubSeq(block, 1, missing),
   buffer   |-> SubSeq(block, missing + 1, BlockChunks)]
=============================================================================
