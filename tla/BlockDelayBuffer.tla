--------------------------- MODULE BlockDelayBuffer ---------------------------
(***************************************************************************)
(* BlockDelayBuffer (src/audio_processing/aec3/block_delay_buffer.cc): a   *)
(* ring of the length of the delay through which every frame is passed, in *)
(* chunks as in Framing; the delay is a whole number of them.  The state   *)
(* is a record: the ring and the position of the next insertion.           *)
(***************************************************************************)
EXTENDS Framing, FiniteSetsExt

NewDelayBuffer(delay) == [buf |-> [i \in 0 .. delay - 1 |-> 0], last_insert_ |-> 0]

\* Where the k-th chunk of a frame is exchanged with the ring.
Place(b, delay, k) == (b.last_insert_ + k - 1) % delay

\* Variant with a mistake: the position starts over with every frame.
DelaySignalFromStart(b, frame) ==
  LET delay == Cardinality(DOMAIN b.buf)
      at(i) == {k \in 1 .. FrameChunks : (k - 1) % delay = i}
  IN [frame  |-> [k \in 1 .. FrameChunks |->
                    IF k <= delay THEN b.buf[k - 1] ELSE frame[k - delay]],
      buffer |-> [b EXCEPT !.buf = [i \in DOMAIN @ |-> IF at(i) = {} THEN @[i] ELSE frame[Max(at(i))]]]]

\* DelaySignal: each chunk comes out when its place in the ring comes up again, in
\* the same frame if the delay is shorter than that.
DelaySignal(b, frame) ==
  LET delay == Cardinality(DOMAIN b.buf)
      at(i) == {k \in 1 .. FrameChunks : Place(b, delay, k) = i}
  IN [frame  |-> [k \in 1 .. FrameChunks |->
                    IF k <= delay THEN b.buf[Place(b, delay, k)] ELSE frame[k - delay]],
      buffer |-> [buf |-> [i \in DOMAIN b.buf |->
                             IF at(i) = {} THEN b.buf[i] ELSE frame[Max(at(i))]],
                  last_insert_ |-> Place(b, delay, FrameChunks + 1)]]
=============================================================================
