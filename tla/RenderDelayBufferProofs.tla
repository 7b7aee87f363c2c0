------------------------ MODULE RenderDelayBufferProofs ------------------------
(***************************************************************************)
(* Theorems about RenderDelayBuffer, for every size of the rings and every *)
(* configuration.  Ring positions first, then the invariants.              *)
(***************************************************************************)
EXTENDS RenderDelayBuffer, TLAPS

-----------------------------------------------------------------------------
(* Ring positions.                                                         *)

\* OffsetIndex is addition that wraps at most once each way.
LEMMA OffsetWraps ==
  ASSUME NEW n \in Nat \ {0}, NEW i \in 0 .. n - 1, NEW offset \in -n .. n
  PROVE  /\ OffsetIndex(n, i, offset) \in 0 .. n - 1
         /\ i + offset < 0 => OffsetIndex(n, i, offset) = i + offset + n
         /\ i + offset \in 0 .. n - 1 => OffsetIndex(n, i, offset) = i + offset
         /\ i + offset >= n => OffsetIndex(n, i, offset) = i + offset - n
<1>1. CASE i + offset < 0
  <2>1. n + i + offset \in 0 .. n - 1  BY <1>1
  <2>2. (n + i + offset) % n = n + i + offset  BY <2>1
  <2> QED  BY <1>1, <2>1, <2>2 DEF OffsetIndex
<1>2. CASE i + offset \in 0 .. n - 1
  <2>1. n + i + offset \in n .. 2 * n - 1  BY <1>2
  <2>2. (n + i + offset) % n = i + offset  BY <2>1
  <2> QED  BY <1>2, <2>2 DEF OffsetIndex
<1>3. CASE i + offset >= n
  <2>1. n + i + offset \in 2 * n .. 3 * n - 1  BY <1>3
  <2>2. (n + i + offset) % n = i + offset - n  BY <2>1
  <2> QED  BY <1>3, <2>2 DEF OffsetIndex
<1> QED  BY <1>1, <1>2, <1>3

\* The sizes are those of rings with room for the filter and for one unread sub-block.
LEMMA Sizes ==
  /\ BufferSize \in Nat \ {0} /\ DownsampledSize \in Nat \ {0, 1}
  /\ FilterLength \in Nat \ {0}
  /\ MaxDelay = DownsampledSize /\ BufferSize = DownsampledSize + FilterLength + 1
BY SizesAssumption DEF BufferSize, MaxDelay

\* IncIndex and DecIndex stay inside the ring and mirror each other.
LEMMA IndexSteps ==
  ASSUME NEW i \in Slot
  PROVE  /\ IncIndex(i) \in Slot /\ DecIndex(i) \in Slot /\ MirrorOf(i) \in Slot
         /\ DecIndex(MirrorOf(i)) = MirrorOf(IncIndex(i))
BY Sizes DEF IncIndex, DecIndex, MirrorOf, Slot

\* MirrorOf loses nothing.
LEMMA MirrorInjective ==
  ASSUME NEW i \in Slot, NEW j \in Slot, MirrorOf(i) = MirrorOf(j)
  PROVE  i = j
BY Sizes DEF MirrorOf, Slot

\* The distance of a read position from the write position, as either moves.
LEMMA DistanceSteps ==
  ASSUME NEW s \in Ring(Slot)
  PROVE  /\ DistanceOf(s) \in Slot
         /\ DistanceOf(s) = 0 <=> s.read = s.write
         /\ LET t == [s EXCEPT !.write = DecIndex(@)] IN
              /\ t \in Ring(Slot)
              /\ t.read # t.write => DistanceOf(t) = DistanceOf(s) + 1
         /\ LET t == [s EXCEPT !.read = DecIndex(@)] IN
              /\ t \in Ring(Slot)
              /\ s.read # s.write => DistanceOf(t) = DistanceOf(s) - 1
BY Sizes DEF DistanceOf, DecIndex, Ring, Slot

\* The same for the decimated ring, and the position a reset gives it.
LEMMA LatencySteps ==
  ASSUME NEW l \in Ring(LowRateSlot)
  PROVE  /\ LatencyOf(l) \in LowRateSlot
         /\ LatencyOf(l) = 0 <=> l.read = l.write
         /\ LET m == [l EXCEPT !.write = OffsetIndex(DownsampledSize, @, -1)] IN
              /\ m \in Ring(LowRateSlot)
              /\ m.read # m.write => LatencyOf(m) = LatencyOf(l) + 1
         /\ LET m == [l EXCEPT !.read = OffsetIndex(DownsampledSize, @, -1)] IN
              /\ m \in Ring(LowRateSlot)
              /\ l.read # l.write => LatencyOf(m) = LatencyOf(l) - 1
         /\ LET m == [l EXCEPT !.read = OffsetIndex(DownsampledSize, l.write, 1)] IN
              m \in Ring(LowRateSlot) /\ LatencyOf(m) = 1
<1> DEFINE n == DownsampledSize
<1>0. n \in Nat \ {0, 1}  BY Sizes
<1>1. \A m \in Ring(LowRateSlot) :
        LatencyOf(m) = IF m.read >= m.write THEN m.read - m.write ELSE n + m.read - m.write
  <2>1. ASSUME NEW r \in 0 .. n - 1, NEW w \in 0 .. n - 1
        PROVE  OffsetIndex(n, r, -w) = IF r >= w THEN r - w ELSE n + r - w
    <3>1. n \in Nat \ {0} /\ -w \in -n .. n  BY <1>0
    <3>2. /\ r + (-w) < 0 => OffsetIndex(n, r, -w) = r + (-w) + n
          /\ r + (-w) \in 0 .. n - 1 => OffsetIndex(n, r, -w) = r + (-w)
      BY <3>1, OffsetWraps
    <3> QED  BY <1>0, <3>2
  <2> QED  BY <2>1 DEF LatencyOf, Ring, LowRateSlot
<1>2. \A i \in LowRateSlot :
        OffsetIndex(n, i, -1) = (IF i = 0 THEN n - 1 ELSE i - 1)
  <2> TAKE i \in LowRateSlot
  <2>1. i \in 0 .. n - 1 /\ -1 \in -n .. n  BY <1>0 DEF LowRateSlot
  <2> QED  BY <1>0, <2>1, OffsetWraps
<1>3. \A i \in LowRateSlot :
        OffsetIndex(n, i, 1) = (IF i = n - 1 THEN 0 ELSE i + 1)
  <2> TAKE i \in LowRateSlot
  <2>1. i \in 0 .. n - 1 /\ 1 \in -n .. n  BY <1>0 DEF LowRateSlot
  <2> QED  BY <1>0, <2>1, OffsetWraps
<1> HIDE DEF n
<1> QED  BY <1>0, <1>1, <1>2, <1>3 DEF Ring, LowRateSlot, n

-----------------------------------------------------------------------------
(* Applying a delay and resetting.                                         *)

MirroredRings(b, s) == s.write = MirrorOf(b.write) /\ s.read = MirrorOf(b.read)

\* Offsets of opposite sign keep the block ring and the others mirrored, and the
\* distance is the delay that was asked for.
LEMMA OffsetMirrors ==
  ASSUME NEW i \in Slot, NEW delay \in -BufferSize .. BufferSize
  PROVE  /\ OffsetIndex(BufferSize, i, -delay) \in Slot
         /\ OffsetIndex(BufferSize, MirrorOf(i), delay) =
              MirrorOf(OffsetIndex(BufferSize, i, -delay))
<1>1. BufferSize \in Nat \ {0} /\ -delay \in -BufferSize .. BufferSize  BY Sizes
<1>2. i \in 0 .. BufferSize - 1 /\ MirrorOf(i) \in 0 .. BufferSize - 1  BY IndexSteps DEF Slot
<1> DEFINE back == OffsetIndex(BufferSize, i, -delay)
           forth == OffsetIndex(BufferSize, MirrorOf(i), delay)
<1>3. /\ back \in 0 .. BufferSize - 1
      /\ i + (-delay) < 0 => back = i + (-delay) + BufferSize
      /\ i + (-delay) \in 0 .. BufferSize - 1 => back = i + (-delay)
      /\ i + (-delay) >= BufferSize => back = i + (-delay) - BufferSize
  BY <1>1, <1>2, OffsetWraps
<1>4. /\ forth \in 0 .. BufferSize - 1
      /\ MirrorOf(i) + delay < 0 => forth = MirrorOf(i) + delay + BufferSize
      /\ MirrorOf(i) + delay \in 0 .. BufferSize - 1 => forth = MirrorOf(i) + delay
      /\ MirrorOf(i) + delay >= BufferSize => forth = MirrorOf(i) + delay - BufferSize
  BY <1>1, <1>2, OffsetWraps
<1> HIDE DEF back, forth
<1>5. forth = MirrorOf(back)  BY <1>1, <1>2, <1>3, <1>4 DEF MirrorOf
<1> QED  BY <1>3, <1>5 DEF back, forth, Slot

\* The distance after a delay that fits in the ring is that delay.
LEMMA OffsetDistance ==
  ASSUME NEW s \in Ring(Slot), NEW delay \in Slot
  PROVE  DistanceOf([s EXCEPT !.read = OffsetIndex(BufferSize, s.write, delay)]) = delay
<1>1. BufferSize \in Nat \ {0} /\ delay \in -BufferSize .. BufferSize  BY Sizes DEF Slot
<1>2. s.write \in 0 .. BufferSize - 1  BY DEF Ring, Slot
<1> DEFINE read == OffsetIndex(BufferSize, s.write, delay)
<1>3. /\ read \in 0 .. BufferSize - 1
      /\ s.write + delay \in 0 .. BufferSize - 1 => read = s.write + delay
      /\ s.write + delay >= BufferSize => read = s.write + delay - BufferSize
  BY <1>1, <1>2, OffsetWraps
<1> HIDE DEF read
<1>4. [s EXCEPT !.read = read].read = read /\ [s EXCEPT !.read = read].write = s.write
  BY DEF Ring
<1>5. DistanceOf([s EXCEPT !.read = read]) = delay
  BY <1>1, <1>2, <1>3, <1>4 DEF DistanceOf, Slot
<1> QED  BY <1>5 DEF read

\* What ApplyTotalDelay does to mirrored rings, reachable delay or not.
LEMMA ApplyEffect ==
  ASSUME NEW b \in Ring(Slot), NEW s \in Ring(Slot), NEW delay \in Int,
         MirroredRings(b, s), ApplyTotalDelay(b, s, s, delay)
  PROVE  /\ blocks' \in Ring(Slot) /\ spectra' \in Ring(Slot) /\ ffts' = spectra'
         /\ MirroredRings(blocks', spectra')
         /\ aborted' \in BOOLEAN
         /\ delay \in -BufferSize .. BufferSize => ~aborted'
         /\ delay \in Slot => DistanceOf(spectra') = delay
<1>0. b.write \in Slot /\ s.write \in Slot  BY DEF Ring
<1>1. CASE delay \in -BufferSize .. BufferSize
  <2> DEFINE r == OffsetIndex(BufferSize, b.write, -delay)
             q == OffsetIndex(BufferSize, s.write, delay)
  <2>1. /\ aborted' = FALSE /\ blocks' = [b EXCEPT !.read = r]
        /\ spectra' = [s EXCEPT !.read = q] /\ ffts' = [s EXCEPT !.read = q]
    BY <1>1 DEF ApplyTotalDelay
  <2>2. r \in Slot /\ OffsetIndex(BufferSize, MirrorOf(b.write), delay) = MirrorOf(r)
    BY <1>0, <1>1, OffsetMirrors
  <2>3. q = MirrorOf(r)  BY <2>2 DEF MirroredRings
  <2>4. delay \in Slot => DistanceOf(spectra') = delay  BY <2>1, OffsetDistance
  <2> HIDE DEF r, q
  <2>5. q \in Slot  BY <2>2, <2>3, IndexSteps
  <2>6. blocks' \in Ring(Slot) /\ spectra' \in Ring(Slot)  BY <2>1, <2>2, <2>5 DEF Ring
  <2>7. MirroredRings(blocks', spectra')  BY <2>1, <2>3 DEF MirroredRings, Ring
  <2> QED  BY <2>1, <2>4, <2>6, <2>7
<1>2. CASE delay \notin -BufferSize .. BufferSize
  <2>1. aborted' /\ aborted' \in BOOLEAN /\ blocks' = b /\ spectra' = s /\ ffts' = s
    BY <1>2 DEF ApplyTotalDelay
  <2>2. delay \notin Slot  BY <1>2, Sizes DEF Slot
  <2> QED  BY <1>2, <2>1, <2>2 DEF MirroredRings
<1> QED  BY <1>1, <1>2

\* The delay a reset applies is a number, and one inside the rings if it comes
\* from outside.
LEMMA ResetDelayRange ==
  ASSUME external_audio_buffer_delay_ \in Int \cup {None}
  PROVE  /\ ResetDelay \in Nat
         /\ external_audio_buffer_delay_ # None => ResetDelay \in 1 .. MaxDelay
         /\ external_audio_buffer_delay_ = None => ResetDelay = DefaultDelay
         /\ MaxDelay \in Slot
BY Sizes, ConfigAssumption, InputAssumption DEF ResetDelay, Smaller, Larger, Slot

\* What a reset of mirrored rings leaves: one unread sub-block, the delay it was
\* asked for, and the detection of excess render data started over.
LEMMA ResetEffect ==
  ASSUME NEW b \in Ring(Slot), NEW s \in Ring(Slot), NEW l \in Ring(LowRateSlot),
         MirroredRings(b, s), external_audio_buffer_delay_ \in Int \cup {None},
         ResetFrom(b, s, s, l)
  PROVE  /\ blocks' \in Ring(Slot) /\ spectra' \in Ring(Slot) /\ ffts' = spectra'
         /\ MirroredRings(blocks', spectra')
         /\ low_rate' \in Ring(LowRateSlot) /\ LatencyOf(low_rate') = 1
         /\ aborted' \in BOOLEAN
         /\ ResetDelay <= BufferSize => ~aborted'
         /\ ResetDelay \in Slot => DistanceOf(spectra') = ResetDelay
         /\ external_audio_buffer_delay_ = None => delay_' = None
         /\ external_audio_buffer_delay_ # None =>
              delay_' = ResetDelay - 1 /\ ResetDelay \in 1 .. MaxDelay
         /\ min_latency_blocks_' = 0 /\ excess_render_detection_counter_' = 0
         /\ cut' = 0 /\ excessFor' = 0
<1>1. ApplyTotalDelay(b, s, s, ResetDelay) /\ ResetDelay \in Int
  BY ResetDelayRange DEF ResetFrom
<1>2. /\ low_rate' = [l EXCEPT !.read = OffsetIndex(DownsampledSize, l.write, 1)]
      /\ delay_' = IF external_audio_buffer_delay_ = None THEN None
                   ELSE DistanceOf(spectra') - LatencyOf(low_rate')
      /\ min_latency_blocks_' = 0 /\ excess_render_detection_counter_' = 0
      /\ cut' = 0 /\ excessFor' = 0
  BY DEF ResetFrom
<1>3. low_rate' \in Ring(LowRateSlot) /\ LatencyOf(low_rate') = 1
  BY <1>2, LatencySteps
<1>4. /\ blocks' \in Ring(Slot) /\ spectra' \in Ring(Slot) /\ ffts' = spectra'
      /\ MirroredRings(blocks', spectra')
      /\ aborted' \in BOOLEAN
      /\ ResetDelay \in -BufferSize .. BufferSize => ~aborted'
      /\ ResetDelay \in Slot => DistanceOf(spectra') = ResetDelay
  BY <1>1, ApplyEffect
<1>5. ResetDelay <= BufferSize => ResetDelay \in -BufferSize .. BufferSize
  BY Sizes, ResetDelayRange
<1>6. ResetDelay \in 1 .. MaxDelay => ResetDelay \in Slot
  BY Sizes DEF Slot
<1> QED  BY <1>2, <1>3, <1>4, <1>5, <1>6, ResetDelayRange

\* Neither moves a write position.
LEMMA ResetWrites ==
  ASSUME NEW b \in Ring(Slot), NEW s \in Ring(Slot), NEW l \in Ring(LowRateSlot),
         ResetFrom(b, s, s, l)
  PROVE  blocks'.write = b.write /\ spectra'.write = s.write /\ low_rate'.write = l.write
BY DEF ResetFrom, ApplyTotalDelay, Ring

-----------------------------------------------------------------------------
(* Type correctness and the mirrored rings, which need each other.         *)

PositionsOK ==
  /\ blocks \in Ring(Slot) /\ spectra \in Ring(Slot) /\ ffts = spectra
  /\ MirroredRings(blocks, spectra)
  /\ low_rate \in Ring(LowRateSlot)
ContentsOK ==
  /\ blockAt \in [Slot -> Count] /\ lowRateAt \in [LowRateSlot -> Count]
  /\ spectrumAt \in [Slot -> Count \X Count] /\ fftAt \in [Slot -> Count \X Count]
DelaysOK ==
  /\ delay_ \in Int \cup {None}
  /\ external_audio_buffer_delay_ \in Int \cup {None}
  /\ min_latency_blocks_ \in LowRateSlot
  /\ excess_render_detection_counter_ \in 0 .. ExcessInterval - 1
  /\ aborted \in BOOLEAN
  /\ cut \in Nat /\ excessFor \in Nat
CountersOK ==
  /\ render_call_counter_ \in Count /\ capture_call_counter_ \in Count
  /\ render_activity_ \in BOOLEAN /\ remover_activity \in BOOLEAN
  /\ render_activity_counter_ \in Nat
  /\ event \in {"none", "overrun", "underrun"}
RingInv == PositionsOK /\ ContentsOK /\ DelaysOK /\ CountersOK

\* The configuration is one of those looked at.
ModeOK == use_external_delay_estimator \in DelayModes

\* Together they are the type invariant.
LEMMA RingInvImplies == RingInv /\ ModeOK => TypeOK
BY DEF ModeOK, RingInv, PositionsOK, ContentsOK, DelaysOK, CountersOK, TypeOK

\* The constructor establishes it, with a usable default delay and without.
LEMMA RingInvInit == Init => RingInv
<1> SUFFICES ASSUME Init PROVE RingInv
  OBVIOUS
<1>0. 0 \in Slot /\ 0 \in LowRateSlot /\ 0 \in Count /\ MirrorOf(0) = 0
  BY Sizes, InputAssumption DEF Slot, LowRateSlot, Count, MirrorOf
<1>1. PositionsOK
  <2>1. low_rate \in Ring(LowRateSlot)
    <3>1. 0 \in 0 .. DownsampledSize - 1 /\ 1 \in -DownsampledSize .. DownsampledSize
          /\ DownsampledSize \in Nat \ {0}
      BY Sizes
    <3>2. OffsetIndex(DownsampledSize, 0, 1) \in LowRateSlot
      BY <3>1, OffsetWraps DEF LowRateSlot
    <3> QED  BY <1>0, <3>2 DEF Init, Ring
  <2>2. CASE DefaultDelay > BufferSize
    <3>1. blocks = [write |-> 0, read |-> 0] /\ spectra = [write |-> 0, read |-> 0]
          /\ ffts = spectra
      BY <2>2 DEF Init
    <3> QED  BY <1>0, <2>1, <3>1 DEF PositionsOK, MirroredRings, Ring
  <2>3. CASE ~(DefaultDelay > BufferSize)
    <3> DEFINE r == OffsetIndex(BufferSize, 0, -DefaultDelay)
               q == OffsetIndex(BufferSize, 0, DefaultDelay)
    <3>1. blocks = [write |-> 0, read |-> r] /\ spectra = [write |-> 0, read |-> q]
          /\ ffts = spectra
      BY <2>3 DEF Init
    <3>2. DefaultDelay \in -BufferSize .. BufferSize  BY <2>3, Sizes, ConfigAssumption
    <3>3. r \in Slot /\ q = MirrorOf(r)  BY <1>0, <3>2, OffsetMirrors
    <3> HIDE DEF r, q
    <3>4. q \in Slot  BY <3>3, IndexSteps
    <3> QED  BY <1>0, <2>1, <3>1, <3>3, <3>4 DEF PositionsOK, MirroredRings, Ring
  <2> QED  BY <2>2, <2>3
<1>2. ContentsOK  BY <1>0 DEF Init, ContentsOK
<1>3. DelaysOK  BY <1>0, ConfigAssumption DEF Init, DelaysOK
<1>4. CountersOK  BY <1>0 DEF Init, CountersOK
<1> QED  BY <1>1, <1>2, <1>3, <1>4 DEF RingInv

\* A reset from well-formed rings leaves well-formed ones.
LEMMA ResetKeepsPositions ==
  ASSUME NEW b \in Ring(Slot), NEW s \in Ring(Slot), NEW l \in Ring(LowRateSlot),
         MirroredRings(b, s), external_audio_buffer_delay_ \in Int \cup {None},
         external_audio_buffer_delay_' = external_audio_buffer_delay_,
         ResetFrom(b, s, s, l)
  PROVE  PositionsOK' /\ DelaysOK'
<1>1. ResetDelay \in Nat  BY ResetDelayRange
<1>2. /\ blocks' \in Ring(Slot) /\ spectra' \in Ring(Slot) /\ ffts' = spectra'
      /\ MirroredRings(blocks', spectra')
      /\ low_rate' \in Ring(LowRateSlot)
      /\ aborted' \in BOOLEAN
      /\ delay_' = None \/ delay_' = ResetDelay - 1
      /\ min_latency_blocks_' = 0 /\ excess_render_detection_counter_' = 0
      /\ cut' = 0 /\ excessFor' = 0
  BY ResetEffect
<1>3. PositionsOK'  BY <1>2 DEF PositionsOK, MirroredRings
<1>4. delay_' \in Int \cup {None}  BY <1>1, <1>2
<1>5. 0 \in LowRateSlot /\ 0 \in 0 .. ExcessInterval - 1
  BY Sizes, ConfigAssumption DEF LowRateSlot
<1> QED  BY <1>2, <1>3, <1>4, <1>5 DEF DelaysOK

\* The rings as Insert finds them once the write positions have moved.
LEMMA WritePositionsMove ==
  ASSUME PositionsOK
  PROVE  LET b == [blocks EXCEPT !.write = IncIndex(@)]
             s == [spectra EXCEPT !.write = DecIndex(@)]
             l == [low_rate EXCEPT !.write = OffsetIndex(DownsampledSize, @, -1)]
         IN /\ b \in Ring(Slot) /\ s \in Ring(Slot) /\ l \in Ring(LowRateSlot)
            /\ MirroredRings(b, s)
<1>1. /\ blocks.write \in Slot /\ IncIndex(blocks.write) \in Slot
      /\ DecIndex(MirrorOf(blocks.write)) = MirrorOf(IncIndex(blocks.write))
  BY IndexSteps DEF PositionsOK, Ring
<1>2. [low_rate EXCEPT !.write = OffsetIndex(DownsampledSize, @, -1)] \in Ring(LowRateSlot)
  BY LatencySteps DEF PositionsOK
<1>3. [spectra EXCEPT !.write = DecIndex(@)] \in Ring(Slot)
  BY DistanceSteps DEF PositionsOK
<1> QED  BY <1>1, <1>2, <1>3 DEF PositionsOK, MirroredRings, Ring

\* A full block written anywhere leaves rings of block numbers.
LEMMA ContentsWritten ==
  ASSUME ContentsOK, CountersOK, render_call_counter_ < MaxCalls,
         NEW b \in Ring(Slot), NEW s \in Ring(Slot), NEW l \in Ring(LowRateSlot),
         NEW previous_write \in Slot, InsertBlock(b, s, s, l, previous_write)
  PROVE  ContentsOK'
<1> DEFINE n == render_call_counter_ + 1
<1>1. n \in Count  BY InputAssumption DEF CountersOK, Count
<1>2. /\ blockAt' = [blockAt EXCEPT ![b.write] = n]
      /\ lowRateAt' = [lowRateAt EXCEPT ![l.write] = n]
      /\ fftAt' = [fftAt EXCEPT ![s.write] = <<n, blockAt[previous_write]>>]
      /\ spectrumAt' = [spectrumAt EXCEPT ![s.write] = fftAt'[s.write]]
  BY DEF InsertBlock
<1>3. b.write \in Slot /\ s.write \in Slot /\ l.write \in LowRateSlot  BY DEF Ring
<1>4. <<n, blockAt[previous_write]>> \in Count \X Count  BY <1>1 DEF ContentsOK
<1> HIDE DEF n
<1>5. fftAt' \in [Slot -> Count \X Count]  BY <1>2, <1>4 DEF ContentsOK
<1>6. fftAt'[s.write] \in Count \X Count  BY <1>3, <1>5
<1>7. spectrumAt' \in [Slot -> Count \X Count]  BY <1>2, <1>6 DEF ContentsOK
<1> QED  BY <1>1, <1>2, <1>5, <1>7 DEF ContentsOK

\* The read positions of a capture call stay mirrored.
LEMMA ReadPositionsMove ==
  ASSUME PositionsOK, IncrementReadIndices
  PROVE  /\ blocks' \in Ring(Slot) /\ spectra' \in Ring(Slot) /\ ffts' = spectra'
         /\ MirroredRings(blocks', spectra')
         /\ DistanceOf(spectra') =
              IF InternalDelay = 0 THEN 0 ELSE InternalDelay - 1
         /\ spectra'.write = spectra.write
<1>1. /\ blocks \in Ring(Slot) /\ spectra \in Ring(Slot) /\ ffts = spectra
      /\ spectra.write = MirrorOf(blocks.write) /\ spectra.read = MirrorOf(blocks.read)
  BY DEF PositionsOK, MirroredRings
<1>2. blocks.read \in Slot /\ blocks.write \in Slot  BY <1>1 DEF Ring
<1>3. blocks.read = blocks.write <=> InternalDelay = 0
  BY <1>1, <1>2, MirrorInjective, DistanceSteps DEF InternalDelay
<1>4. CASE blocks.read = blocks.write
  BY <1>1, <1>3, <1>4 DEF IncrementReadIndices, InternalDelay, MirroredRings
<1>5. CASE blocks.read # blocks.write
  <2>1. /\ blocks' = [blocks EXCEPT !.read = IncIndex(@)]
        /\ spectra' = [spectra EXCEPT !.read = DecIndex(@)]
        /\ ffts' = [ffts EXCEPT !.read = DecIndex(@)]
    BY <1>5 DEF IncrementReadIndices
  <2>2. /\ IncIndex(blocks.read) \in Slot
        /\ DecIndex(MirrorOf(blocks.read)) = MirrorOf(IncIndex(blocks.read))
    BY <1>2, IndexSteps
  <2>3. spectra.read # spectra.write  BY <1>1, <1>2, <1>5, MirrorInjective
  <2>4. spectra' \in Ring(Slot) /\ DistanceOf(spectra') = DistanceOf(spectra) - 1
    BY <1>1, <2>1, <2>3, DistanceSteps
  <2>5. blocks' \in Ring(Slot)  BY <1>1, <2>1, <2>2 DEF Ring
  <2>6. MirroredRings(blocks', spectra') /\ spectra'.write = spectra.write
    BY <1>1, <2>1, <2>2 DEF MirroredRings, Ring
  <2> QED  BY <1>1, <1>3, <1>5, <2>1, <2>4, <2>5, <2>6 DEF InternalDelay
<1> QED  BY <1>4, <1>5

\* The detection of excess render data stays within its interval.
LEMMA DetectionStays ==
  ASSUME RingInv, UpdateExcessDetection
  PROVE  /\ min_latency_blocks_' \in LowRateSlot
         /\ excess_render_detection_counter_' \in 0 .. ExcessInterval - 1
<1>1. BufferLatency \in LowRateSlot
  BY LatencySteps DEF BufferLatency, RingInv, PositionsOK
<1>2. LowestLatency \in LowRateSlot
  BY <1>1 DEF LowestLatency, Smaller, RingInv, DelaysOK
<1> QED  BY <1>1, <1>2, ConfigAssumption
         DEF UpdateExcessDetection, IntervalOver, RingInv, DelaysOK

\* Every operation keeps the invariant.
LEMMA RingInvNext == RingInv /\ [Next]_vars => RingInv'
<1> SUFFICES ASSUME RingInv, [Next]_vars PROVE RingInv'
  OBVIOUS
<1>0. /\ blocks \in Ring(Slot) /\ spectra \in Ring(Slot) /\ ffts = spectra
      /\ low_rate \in Ring(LowRateSlot) /\ MirroredRings(blocks, spectra)
      /\ external_audio_buffer_delay_ \in Int \cup {None}
  BY DEF RingInv, PositionsOK, DelaysOK
<1> USE DEF positionVars, contentVars, externalVars, excessVars, activityVars
<1>1. CASE Reset
  <2>1. ResetFrom(blocks, spectra, spectra, low_rate)  BY <1>0, <1>1 DEF Reset
  <2>2. external_audio_buffer_delay_' = external_audio_buffer_delay_  BY <1>1 DEF Reset
  <2>3. PositionsOK' /\ DelaysOK'  BY <1>0, <2>1, <2>2, ResetKeepsPositions
  <2>4. ContentsOK' /\ CountersOK'
    BY <1>1 DEF Reset, RingInv, ContentsOK, CountersOK
  <2> QED  BY <2>3, <2>4 DEF RingInv
<1>2. ASSUME NEW active \in BOOLEAN, Insert(active) PROVE RingInv'
  <2> DEFINE b == [blocks EXCEPT !.write = IncIndex(@)]
             s == [spectra EXCEPT !.write = DecIndex(@)]
             l == [low_rate EXCEPT !.write = OffsetIndex(DownsampledSize, @, -1)]
  <2>1. b \in Ring(Slot) /\ s \in Ring(Slot) /\ l \in Ring(LowRateSlot) /\ MirroredRings(b, s)
    BY WritePositionsMove DEF RingInv
  <2>2. [ffts EXCEPT !.write = DecIndex(@)] = s  BY <1>0
  <2>3. /\ render_call_counter_ < MaxCalls
        /\ render_call_counter_' = render_call_counter_ + 1
        /\ DetectRenderActivity(active)
        /\ InsertBlock(b, s, s, l, blocks.write)
        /\ external_audio_buffer_delay_' = external_audio_buffer_delay_
        /\ capture_call_counter_' = capture_call_counter_
    BY <1>2, <2>2 DEF Insert
  <2>4. \/ event' = "overrun" /\ ResetFrom(b, s, s, l)
        \/ /\ event' = "none"
           /\ blocks' = b /\ spectra' = s /\ ffts' = s /\ low_rate' = l
           /\ UNCHANGED <<delay_, min_latency_blocks_, excess_render_detection_counter_,
                          aborted, cut, excessFor>>
    BY <1>2, <2>2 DEF Insert
  <2> HIDE DEF b, s, l
  <2>5. blocks.write \in Slot  BY <1>0 DEF Ring
  <2>6. ContentsOK'  BY <2>1, <2>3, <2>5, ContentsWritten DEF RingInv
  <2>7. CountersOK'
    BY <2>3, <2>4, InputAssumption DEF DetectRenderActivity, RingInv, CountersOK, Count
  <2>8. CASE ResetFrom(b, s, s, l)
    <3>1. PositionsOK' /\ DelaysOK'  BY <1>0, <2>1, <2>3, <2>8, ResetKeepsPositions
    <3> QED  BY <3>1, <2>6, <2>7 DEF RingInv
  <2>9. CASE /\ blocks' = b /\ spectra' = s /\ ffts' = s /\ low_rate' = l
             /\ UNCHANGED <<delay_, min_latency_blocks_, excess_render_detection_counter_,
                            aborted, cut, excessFor>>
    <3>1. PositionsOK'  BY <2>1, <2>9 DEF PositionsOK, MirroredRings
    <3>2. DelaysOK'  BY <2>3, <2>9 DEF RingInv, DelaysOK
    <3> QED  BY <3>1, <3>2, <2>6, <2>7 DEF RingInv
  <2> QED  BY <2>4, <2>8, <2>9
<1>3. CASE PrepareCaptureProcessing
  <2>1. ContentsOK'  BY <1>3 DEF PrepareCaptureProcessing, RingInv, ContentsOK
  <2>2. CountersOK'
    <3>1. /\ capture_call_counter_ < MaxCalls
          /\ capture_call_counter_' = capture_call_counter_ + 1
          /\ render_call_counter_' = render_call_counter_
      BY <1>3 DEF PrepareCaptureProcessing
    <3>2. /\ remover_activity' = render_activity_ /\ render_activity_' = FALSE
          /\ render_activity_counter_' =
               (IF render_activity_ THEN 0 ELSE render_activity_counter_)
      BY <1>3 DEF PrepareCaptureProcessing
    <3>3. event' \in {"none", "overrun", "underrun"}  BY <1>3 DEF PrepareCaptureProcessing
    <3>4. render_call_counter_' \in Count /\ capture_call_counter_' \in Count
      BY <3>1, InputAssumption DEF RingInv, CountersOK, Count
    <3>5. render_activity_' \in BOOLEAN /\ remover_activity' \in BOOLEAN
      BY <3>2 DEF RingInv, CountersOK
    <3>6. render_activity_counter_' \in Nat  BY <3>2 DEF RingInv, CountersOK
    <3> QED  BY <3>3, <3>4, <3>5, <3>6 DEF CountersOK
  <2>3. external_audio_buffer_delay_' = external_audio_buffer_delay_
    BY <1>3 DEF PrepareCaptureProcessing
  <2>4. CASE ResetFrom(blocks, spectra, ffts, low_rate)
    <3>1. ResetFrom(blocks, spectra, spectra, low_rate)  BY <1>0, <2>4
    <3>2. PositionsOK' /\ DelaysOK'  BY <1>0, <2>3, <3>1, ResetKeepsPositions
    <3> QED  BY <3>2, <2>1, <2>2 DEF RingInv
  <2>5. CASE ~ExcessRender
    <3>1. /\ IncrementReadIndices
          /\ UpdateExcessDetection
          /\ excessFor' = (IF BufferLatency > MaxExcess THEN excessFor + 1 ELSE 0)
          /\ aborted' = aborted /\ cut' = cut
          /\ \/ low_rate' = low_rate /\ delay_' = DelayAfterUnderrun
             \/ /\ low_rate' = [low_rate EXCEPT !.read = OffsetIndex(DownsampledSize, @, -1)]
                /\ delay_' = delay_
      BY <1>3, <2>5 DEF PrepareCaptureProcessing
    <3>2. low_rate' \in Ring(LowRateSlot)  BY <1>0, <3>1, LatencySteps
    <3>3. /\ blocks' \in Ring(Slot) /\ spectra' \in Ring(Slot) /\ ffts' = spectra'
          /\ MirroredRings(blocks', spectra')
      BY <3>1, ReadPositionsMove DEF RingInv
    <3>4. PositionsOK'  BY <3>2, <3>3 DEF PositionsOK, MirroredRings
    <3>5. delay_' \in Int \cup {None}
      BY <3>1, InputAssumption DEF DelayAfterUnderrun, RingInv, DelaysOK
    <3>6. excessFor' \in Nat  BY <3>1 DEF RingInv, DelaysOK
    <3>7. DelaysOK'
      BY <2>3, <3>1, <3>5, <3>6, DetectionStays DEF RingInv, DelaysOK
    <3> QED  BY <3>4, <3>7, <2>1, <2>2 DEF RingInv
  <2> QED  BY <1>3, <2>4, <2>5 DEF PrepareCaptureProcessing
<1>4. ASSUME NEW delay \in Estimates, AlignFromDelay(delay) PROVE RingInv'
  <2> DEFINE wanted == MapDelayToTotalDelay(delay)
             total == LimitedDelay(wanted)
  <2>1. BufferLatency \in LowRateSlot  BY <1>0, LatencySteps DEF BufferLatency
  <2>2. delay \in Nat  BY InputAssumption
  <2>3. wanted \in Nat /\ total \in Nat /\ wanted - total \in Nat
    BY <2>1, <2>2, Sizes
    DEF LowRateSlot, MapDelayToTotalDelay, LimitedDelay, Smaller, Larger
  <2>4. /\ delay_' = delay /\ cut' = wanted - total
        /\ ApplyTotalDelay(blocks, spectra, spectra, total)
    BY <1>0, <1>4 DEF AlignFromDelay
  <2>5. UNCHANGED <<low_rate, blockAt, spectrumAt, fftAt, lowRateAt,
                    external_audio_buffer_delay_, min_latency_blocks_,
                    excess_render_detection_counter_, render_call_counter_,
                    capture_call_counter_, render_activity_, render_activity_counter_,
                    remover_activity, event, excessFor>>
    BY <1>4 DEF AlignFromDelay
  <2> HIDE DEF wanted, total
  <2>6. /\ blocks' \in Ring(Slot) /\ spectra' \in Ring(Slot) /\ ffts' = spectra'
        /\ MirroredRings(blocks', spectra') /\ aborted' \in BOOLEAN
    BY <1>0, <2>3, <2>4, ApplyEffect
  <2>7. PositionsOK'  BY <1>0, <2>5, <2>6 DEF PositionsOK, MirroredRings
  <2>8. DelaysOK'  BY <2>2, <2>3, <2>4, <2>5, <2>6 DEF RingInv, DelaysOK
  <2>9. ContentsOK' /\ CountersOK'  BY <2>5 DEF RingInv, ContentsOK, CountersOK
  <2> QED  BY <2>7, <2>8, <2>9 DEF RingInv
<1>5. CASE AlignFromExternalDelay
  <2>1. ExternalTotalDelay \in Int
    BY <1>0, <1>5 DEF AlignFromExternalDelay, ExternalTotalDelay, RingInv, CountersOK, Count
  <2>2. ApplyTotalDelay(blocks, spectra, spectra, ExternalTotalDelay)
    BY <1>0, <1>5 DEF AlignFromExternalDelay
  <2>3. UNCHANGED <<low_rate, blockAt, spectrumAt, fftAt, lowRateAt, delay_,
                    external_audio_buffer_delay_, min_latency_blocks_,
                    excess_render_detection_counter_, render_call_counter_,
                    capture_call_counter_, render_activity_, render_activity_counter_,
                    remover_activity, event, cut, excessFor>>
    BY <1>5 DEF AlignFromExternalDelay
  <2>4. /\ blocks' \in Ring(Slot) /\ spectra' \in Ring(Slot) /\ ffts' = spectra'
        /\ MirroredRings(blocks', spectra') /\ aborted' \in BOOLEAN
    BY <1>0, <2>1, <2>2, ApplyEffect
  <2>5. PositionsOK'  BY <1>0, <2>3, <2>4 DEF PositionsOK, MirroredRings
  <2>6. DelaysOK'  BY <2>3, <2>4 DEF RingInv, DelaysOK
  <2>7. ContentsOK' /\ CountersOK'  BY <2>3 DEF RingInv, ContentsOK, CountersOK
  <2> QED  BY <2>5, <2>6, <2>7 DEF RingInv
<1>6. ASSUME NEW ms \in AudioDelaysMs, SetAudioBufferDelay(ms) PROVE RingInv'
  <2>1. MsToBlocks(ms) \in Int  BY InputAssumption DEF MsToBlocks
  <2>2. PositionsOK' /\ ContentsOK' /\ CountersOK'
    BY <1>6 DEF SetAudioBufferDelay, RingInv, PositionsOK, MirroredRings, ContentsOK, CountersOK
  <2>3. DelaysOK'  BY <1>6, <2>1 DEF SetAudioBufferDelay, RingInv, DelaysOK
  <2> QED  BY <2>2, <2>3 DEF RingInv
<1>7. CASE UNCHANGED vars
  BY <1>7 DEF vars, RingInv, PositionsOK, MirroredRings, ContentsOK, DelaysOK, CountersOK
<1> QED  BY <1>1, <1>2, <1>3, <1>4, <1>5, <1>6, <1>7 DEF Next

\* Types and mirroring together, from the initial state through every step.
LEMMA RingInvAlways == Spec => []RingInv
<1>1. Init => RingInv  BY RingInvInit
<1>2. RingInv /\ [Next]_vars => RingInv'  BY RingInvNext
<1> QED  BY <1>1, <1>2, PTL DEF Spec

\* No operation changes the configuration.
LEMMA ModeKept == [Next]_vars => use_external_delay_estimator' = use_external_delay_estimator
<1> SUFFICES ASSUME [Next]_vars
             PROVE  use_external_delay_estimator' = use_external_delay_estimator
  OBVIOUS
<1>1. CASE Reset \/ PrepareCaptureProcessing \/ AlignFromExternalDelay
  BY <1>1 DEF Reset, PrepareCaptureProcessing, AlignFromExternalDelay, externalVars
<1>2. CASE \E active \in BOOLEAN : Insert(active)
  BY <1>2 DEF Insert, externalVars
<1>3. CASE \E delay \in Estimates : AlignFromDelay(delay)
  BY <1>3 DEF AlignFromDelay, externalVars
<1>4. CASE \E ms \in AudioDelaysMs : SetAudioBufferDelay(ms)
  BY <1>4 DEF SetAudioBufferDelay
<1>5. CASE UNCHANGED vars
  BY <1>5 DEF vars, externalVars
<1> QED  BY <1>1, <1>2, <1>3, <1>4, <1>5 DEF Next

\* The delay mode never changes.
LEMMA ModeAlways == Spec => []ModeOK
<1>1. Init => ModeOK  BY DEF Init, ModeOK
<1>2. ModeOK /\ [Next]_vars => ModeOK'  BY ModeKept DEF ModeOK
<1> QED  BY <1>1, <1>2, PTL DEF Spec

\* Every reachable state is well typed, whatever the sizes, the configuration,
\* the estimates and the external delays.
THEOREM TypeCorrect == Spec => []TypeOK
<1>1. RingInv /\ ModeOK => TypeOK  BY RingInvImplies
<1> QED  BY <1>1, RingInvAlways, ModeAlways, PTL

\* The block ring and the spectrum and FFT rings never get out of step.
THEOREM AlwaysMirrored == Spec => []Mirrored
<1>1. RingInv => Mirrored  BY DEF RingInv, PositionsOK, MirroredRings, Mirrored
<1> QED  BY <1>1, RingInvAlways, PTL

-----------------------------------------------------------------------------
(* The contents of the rings.                                              *)

\* Going round a ring from its write position, towards higher or lower indices.
Downwards(n, w, age) == OffsetIndex(n, w, age)
Upwards(n, w, age) == OffsetIndex(n, w, -age)

\* Once the write position of a ring written downwards has moved, every slot is one
\* step older than before, and only the oldest one is the new write position.
LEMMA AgesDownwards ==
  ASSUME NEW n \in Nat \ {0, 1}, NEW w \in 0 .. n - 1, NEW age \in 0 .. n - 1
  PROVE  LET moved == IF w > 0 THEN w - 1 ELSE n - 1 IN
         /\ Downwards(n, moved, age) \in 0 .. n - 1
         /\ age = 0 => Downwards(n, moved, age) = moved
         /\ age > 0 => /\ Downwards(n, moved, age) = Downwards(n, w, age - 1)
                       /\ Downwards(n, moved, age) # moved
<1>0. PICK moved \in 0 .. n - 1 : moved = (IF w > 0 THEN w - 1 ELSE n - 1)  OBVIOUS
<1>1. n \in Nat \ {0} /\ moved \in 0 .. n - 1 /\ age \in -n .. n  OBVIOUS
<1>2. /\ OffsetIndex(n, moved, age) \in 0 .. n - 1
      /\ moved + age < 0 => OffsetIndex(n, moved, age) = moved + age + n
      /\ moved + age \in 0 .. n - 1 => OffsetIndex(n, moved, age) = moved + age
      /\ moved + age >= n => OffsetIndex(n, moved, age) = moved + age - n
  BY <1>1, OffsetWraps
<1>3. CASE age = 0
  BY <1>0, <1>1, <1>2, <1>3 DEF Downwards
<1>4. CASE age > 0
  <2>1. age - 1 \in -n .. n  BY <1>4
  <2>2. /\ w + (age - 1) \in 0 .. n - 1 => OffsetIndex(n, w, age - 1) = w + (age - 1)
        /\ w + (age - 1) >= n => OffsetIndex(n, w, age - 1) = w + (age - 1) - n
    BY <1>1, <2>1, OffsetWraps
  <2>3. OffsetIndex(n, moved, age) = OffsetIndex(n, w, age - 1)
        /\ OffsetIndex(n, moved, age) # moved
    BY <1>0, <1>1, <1>2, <1>4, <2>2
  <2> QED  BY <1>0, <1>2, <1>4, <2>3 DEF Downwards
<1> QED  BY <1>3, <1>4

\* The same for the block ring, which is written upwards.
LEMMA AgesUpwards ==
  ASSUME NEW w \in Slot, NEW age \in Slot
  PROVE  LET moved == IncIndex(w) IN
         /\ Upwards(BufferSize, moved, age) \in Slot
         /\ age = 0 => Upwards(BufferSize, moved, age) = moved
         /\ age > 0 => /\ Upwards(BufferSize, moved, age) = Upwards(BufferSize, w, age - 1)
                       /\ Upwards(BufferSize, moved, age) # moved
<1> DEFINE n == BufferSize
           moved == IncIndex(w)
<1>0. n \in Nat \ {0} /\ w \in 0 .. n - 1 /\ age \in 0 .. n - 1
  BY Sizes DEF Slot
<1>1. moved \in 0 .. n - 1 /\ moved = (IF w < n - 1 THEN w + 1 ELSE 0) /\ -age \in -n .. n
  BY <1>0 DEF IncIndex
<1>2. /\ OffsetIndex(n, moved, -age) \in 0 .. n - 1
      /\ moved + (-age) < 0 => OffsetIndex(n, moved, -age) = moved + (-age) + n
      /\ moved + (-age) \in 0 .. n - 1 => OffsetIndex(n, moved, -age) = moved + (-age)
  BY <1>0, <1>1, OffsetWraps
<1> HIDE DEF n, moved
<1>3. CASE age = 0
  BY <1>0, <1>1, <1>2, <1>3 DEF Upwards, Slot, n, moved
<1>4. CASE age > 0
  <2>1. -(age - 1) \in -n .. n  BY <1>0, <1>4
  <2>2. /\ w + (-(age - 1)) < 0 => OffsetIndex(n, w, -(age - 1)) = w + (-(age - 1)) + n
        /\ w + (-(age - 1)) \in 0 .. n - 1 => OffsetIndex(n, w, -(age - 1)) = w + (-(age - 1))
    BY <1>0, <2>1, OffsetWraps
  <2>3. OffsetIndex(n, moved, -age) = OffsetIndex(n, w, -(age - 1))
    BY <1>0, <1>1, <1>2, <1>4, <2>2
  <2>4. OffsetIndex(n, moved, -age) # moved
    BY <1>0, <1>1, <1>2, <1>4
  <2> QED  BY <1>2, <1>4, <2>3, <2>4 DEF Upwards, Slot, n, moved
<1> QED  BY <1>0, <1>3, <1>4

\* What each ring holds at an age, counted from its write position.
BlockOf(age) == BlockNumber(render_call_counter_ - age)
BlocksInOrder ==
  \A age \in Slot : blockAt[Upwards(BufferSize, blocks.write, age)] = BlockOf(age)
SpectraInOrder ==
  \A age \in Slot :
    /\ spectrumAt[Downwards(BufferSize, spectra.write, age)] = <<BlockOf(age), BlockOf(age + 1)>>
    /\ fftAt[Downwards(BufferSize, spectra.write, age)] = <<BlockOf(age), BlockOf(age + 1)>>
LowRateInOrder ==
  \A age \in LowRateSlot :
    lowRateAt[Downwards(DownsampledSize, low_rate.write, age)] = BlockOf(age)
HistoryInv == BlocksInOrder /\ SpectraInOrder /\ LowRateInOrder

\* That is the history, said ring by ring.
LEMMA HistoryInvImplies == RingInv /\ HistoryInv => HistoryInOrder
<1> SUFFICES ASSUME RingInv, HistoryInv PROVE HistoryInOrder
  OBVIOUS
<1>1. render_call_counter_ \in Int  BY DEF RingInv, CountersOK, Count
<1>2. ASSUME NEW age \in Slot
      PROVE  BlockOf(age + 1) = BlockNumber((render_call_counter_ - age) - 1)
  BY <1>1, Sizes DEF BlockOf, Slot
<1>3. ASSUME NEW age \in Slot
      PROVE  /\ blockAt[OffsetIndex(BufferSize, blocks.write, -age)] = BlockOf(age)
             /\ spectrumAt[OffsetIndex(BufferSize, spectra.write, age)] = <<BlockOf(age), BlockOf(age + 1)>>
             /\ fftAt[OffsetIndex(BufferSize, spectra.write, age)]
                  = spectrumAt[OffsetIndex(BufferSize, spectra.write, age)]
  BY <1>3 DEF HistoryInv, BlocksInOrder, SpectraInOrder, Upwards, Downwards
<1>4. ASSUME NEW age \in LowRateSlot
      PROVE  lowRateAt[OffsetIndex(DownsampledSize, low_rate.write, age)] = BlockOf(age)
  BY <1>4 DEF HistoryInv, LowRateInOrder, Downwards
<1> QED  BY <1>2, <1>3, <1>4 DEF HistoryInOrder, BlockOf

\* Everything starts silent.
LEMMA HistoryInvInit == Init => HistoryInv
<1> SUFFICES ASSUME Init PROVE HistoryInv
  OBVIOUS
<1>0. RingInv  BY RingInvInit
<1>1. ASSUME NEW age \in Nat PROVE BlockOf(age) = 0
  BY <1>1 DEF Init, BlockOf, BlockNumber
<1>2. blocks.write \in Slot /\ spectra.write \in Slot /\ low_rate.write \in LowRateSlot
  BY <1>0 DEF RingInv, PositionsOK, Ring
<1>3. ASSUME NEW age \in Slot
      PROVE  /\ Upwards(BufferSize, blocks.write, age) \in Slot
             /\ Downwards(BufferSize, spectra.write, age) \in Slot
             /\ age \in Nat /\ age + 1 \in Nat
  <2>1. /\ BufferSize \in Nat \ {0} /\ age \in -BufferSize .. BufferSize
        /\ -age \in -BufferSize .. BufferSize /\ age \in Nat
    BY Sizes DEF Slot
  <2>2. blocks.write \in 0 .. BufferSize - 1 /\ spectra.write \in 0 .. BufferSize - 1
    BY <1>2 DEF Slot
  <2>3. OffsetIndex(BufferSize, blocks.write, -age) \in 0 .. BufferSize - 1
    BY <2>1, <2>2, OffsetWraps
  <2>4. OffsetIndex(BufferSize, spectra.write, age) \in 0 .. BufferSize - 1
    BY <2>1, <2>2, OffsetWraps
  <2> QED  BY <2>1, <2>3, <2>4 DEF Upwards, Downwards, Slot
<1>4. ASSUME NEW age \in LowRateSlot
      PROVE  Downwards(DownsampledSize, low_rate.write, age) \in LowRateSlot /\ age \in Nat
  <2>1. /\ DownsampledSize \in Nat \ {0} /\ age \in -DownsampledSize .. DownsampledSize
        /\ age \in Nat
    BY Sizes DEF LowRateSlot
  <2> QED  BY <1>2, <2>1, OffsetWraps DEF Downwards, LowRateSlot
<1>5. /\ blockAt = [i \in Slot |-> 0] /\ lowRateAt = [i \in LowRateSlot |-> 0]
      /\ spectrumAt = [i \in Slot |-> <<0, 0>>] /\ fftAt = [i \in Slot |-> <<0, 0>>]
  BY DEF Init
<1>6. BlocksInOrder  BY <1>1, <1>3, <1>5 DEF BlocksInOrder
<1>7. SpectraInOrder  BY <1>1, <1>3, <1>5 DEF SpectraInOrder
<1>8. LowRateInOrder  BY <1>1, <1>4, <1>5 DEF LowRateInOrder
<1> QED  BY <1>6, <1>7, <1>8 DEF HistoryInv

\* What no call but Insert does: write, or move a write position.
NothingWritten ==
  /\ UNCHANGED <<blockAt, spectrumAt, fftAt, lowRateAt, render_call_counter_>>
  /\ blocks'.write = blocks.write /\ spectra'.write = spectra.write
  /\ low_rate'.write = low_rate.write

\* What Insert does, whether it resets the read positions or not.
OneBlockWritten ==
  /\ render_call_counter_' = render_call_counter_ + 1
  /\ blocks'.write = IncIndex(blocks.write)
  /\ spectra'.write = DecIndex(spectra.write)
  /\ low_rate'.write = (IF low_rate.write > 0 THEN low_rate.write - 1 ELSE DownsampledSize - 1)
  /\ blockAt' = [blockAt EXCEPT ![blocks'.write] = render_call_counter_ + 1]
  /\ lowRateAt' = [lowRateAt EXCEPT ![low_rate'.write] = render_call_counter_ + 1]
  /\ fftAt' = [fftAt EXCEPT ![spectra'.write] = <<render_call_counter_ + 1, blockAt[blocks.write]>>]
  /\ spectrumAt' = [spectrumAt EXCEPT ![spectra'.write] = fftAt'[spectra'.write]]

\* Every step is one or the other.
LEMMA HistorySteps ==
  ASSUME RingInv, [Next]_vars
  PROVE  NothingWritten \/ OneBlockWritten
<1>0. /\ blocks \in Ring(Slot) /\ spectra \in Ring(Slot) /\ ffts = spectra
      /\ low_rate \in Ring(LowRateSlot) /\ MirroredRings(blocks, spectra)
      /\ external_audio_buffer_delay_ \in Int \cup {None}
  BY DEF RingInv, PositionsOK, DelaysOK
<1> USE DEF positionVars, contentVars
<1>1. CASE Reset
  <2>1. ResetFrom(blocks, spectra, spectra, low_rate)  BY <1>0, <1>1 DEF Reset
  <2>2. /\ blocks'.write = blocks.write /\ spectra'.write = spectra.write
        /\ low_rate'.write = low_rate.write
    BY <1>0, <2>1, ResetWrites
  <2> QED  BY <1>1, <2>2 DEF Reset, NothingWritten
<1>2. ASSUME NEW active \in BOOLEAN, Insert(active) PROVE OneBlockWritten
  <2> DEFINE b == [blocks EXCEPT !.write = IncIndex(@)]
             s == [spectra EXCEPT !.write = DecIndex(@)]
             l == [low_rate EXCEPT !.write = OffsetIndex(DownsampledSize, @, -1)]
  <2>1. b \in Ring(Slot) /\ s \in Ring(Slot) /\ l \in Ring(LowRateSlot) /\ MirroredRings(b, s)
    BY WritePositionsMove DEF RingInv
  <2>2. [ffts EXCEPT !.write = DecIndex(@)] = s  BY <1>0
  <2>3. /\ render_call_counter_' = render_call_counter_ + 1
        /\ InsertBlock(b, s, s, l, blocks.write)
        /\ ResetFrom(b, s, s, l) \/ (blocks' = b /\ spectra' = s /\ low_rate' = l)
    BY <1>2, <2>2 DEF Insert
  <2>4. b.write = IncIndex(blocks.write) /\ s.write = DecIndex(spectra.write)
    BY <1>0 DEF Ring
  <2>5. l.write = IF low_rate.write > 0 THEN low_rate.write - 1 ELSE DownsampledSize - 1
    <3>1. l.write = OffsetIndex(DownsampledSize, low_rate.write, -1)  BY <1>0 DEF Ring
    <3>2. /\ DownsampledSize \in Nat \ {0} /\ low_rate.write \in 0 .. DownsampledSize - 1
          /\ -1 \in -DownsampledSize .. DownsampledSize
      BY <1>0, Sizes DEF Ring, LowRateSlot
    <3>3. /\ low_rate.write + (-1) < 0 =>
               OffsetIndex(DownsampledSize, low_rate.write, -1) = low_rate.write + (-1) + DownsampledSize
          /\ low_rate.write + (-1) \in 0 .. DownsampledSize - 1 =>
               OffsetIndex(DownsampledSize, low_rate.write, -1) = low_rate.write + (-1)
      BY <3>2, OffsetWraps
    <3> HIDE DEF l
    <3> QED  BY <3>1, <3>2, <3>3
  <2> HIDE DEF b, s, l
  <2>6. blocks'.write = b.write /\ spectra'.write = s.write /\ low_rate'.write = l.write
    BY <1>0, <2>1, <2>3, ResetWrites
  <2> QED  BY <2>3, <2>4, <2>5, <2>6 DEF InsertBlock, OneBlockWritten
<1>3. CASE PrepareCaptureProcessing
  <2>1. CASE ResetFrom(blocks, spectra, ffts, low_rate)
    <3>1. ResetFrom(blocks, spectra, spectra, low_rate)  BY <1>0, <2>1
    <3>2. /\ blocks'.write = blocks.write /\ spectra'.write = spectra.write
          /\ low_rate'.write = low_rate.write
      BY <1>0, <3>1, ResetWrites
    <3> QED  BY <1>3, <3>2 DEF PrepareCaptureProcessing, NothingWritten
  <2>2. CASE ~ExcessRender
    <3>1. /\ IncrementReadIndices
          /\ \/ low_rate' = low_rate
             \/ low_rate' = [low_rate EXCEPT !.read = OffsetIndex(DownsampledSize, @, -1)]
      BY <1>3, <2>2 DEF PrepareCaptureProcessing
    <3>2. blocks'.write = blocks.write /\ spectra'.write = spectra.write
      BY <1>0, <3>1 DEF IncrementReadIndices, Ring
    <3>3. low_rate'.write = low_rate.write  BY <1>0, <3>1 DEF Ring
    <3> QED  BY <1>3, <3>2, <3>3 DEF PrepareCaptureProcessing, NothingWritten
  <2> QED  BY <1>3, <2>1, <2>2 DEF PrepareCaptureProcessing
<1>4. ASSUME NEW delay \in Estimates, AlignFromDelay(delay) PROVE NothingWritten
  <2>1. /\ blocks'.write = blocks.write /\ spectra'.write = spectra.write
        /\ low_rate' = low_rate
    BY <1>0, <1>4 DEF AlignFromDelay, ApplyTotalDelay, Ring
  <2> QED  BY <1>4, <2>1 DEF AlignFromDelay, NothingWritten
<1>5. CASE AlignFromExternalDelay
  <2>1. /\ blocks'.write = blocks.write /\ spectra'.write = spectra.write
        /\ low_rate' = low_rate
    BY <1>0, <1>5 DEF AlignFromExternalDelay, ApplyTotalDelay, Ring
  <2> QED  BY <1>5, <2>1 DEF AlignFromExternalDelay, NothingWritten
<1>6. ASSUME NEW ms \in AudioDelaysMs, SetAudioBufferDelay(ms) PROVE NothingWritten
  BY <1>6 DEF SetAudioBufferDelay, NothingWritten
<1>7. CASE UNCHANGED vars
  BY <1>7 DEF vars, NothingWritten
<1> QED  BY <1>1, <1>2, <1>3, <1>4, <1>5, <1>6, <1>7 DEF Next

\* Every slot but the new one is a block older once a block is written.
LEMMA OneOlder ==
  ASSUME render_call_counter_ \in Nat, render_call_counter_' = render_call_counter_ + 1
  PROVE  /\ \A age \in Nat \ {0} : BlockOf(age)' = BlockOf(age - 1)
         /\ BlockOf(0)' = render_call_counter_ + 1
         /\ BlockOf(0) = render_call_counter_
BY DEF BlockOf, BlockNumber

\* A block written to all the rings leaves them in order.
LEMMA BlockWritten ==
  ASSUME RingInv, HistoryInv, OneBlockWritten
  PROVE  HistoryInv'
<1>0. /\ blocks.write \in Slot /\ spectra.write \in Slot /\ low_rate.write \in LowRateSlot
      /\ render_call_counter_ \in Nat
  BY DEF RingInv, PositionsOK, CountersOK, Count, Ring
<1>1. /\ \A age \in Nat \ {0} : BlockOf(age)' = BlockOf(age - 1)
      /\ BlockOf(0)' = render_call_counter_ + 1 /\ BlockOf(0) = render_call_counter_
  BY <1>0, OneOlder DEF OneBlockWritten
<1>2. ASSUME NEW age \in Slot
      PROVE  /\ age \in Nat /\ (age # 0 => age > 0 /\ age \in Nat \ {0} /\ age - 1 \in Slot)
             /\ 0 \in Slot
  BY Sizes DEF Slot
<1>3. ASSUME NEW age \in Slot
      PROVE  blockAt'[Upwards(BufferSize, blocks'.write, age)] = BlockOf(age)'
  <2> DEFINE i == Upwards(BufferSize, blocks'.write, age)
  <2>1. /\ i \in Slot
        /\ age = 0 => i = blocks'.write
        /\ age > 0 => i = Upwards(BufferSize, blocks.write, age - 1) /\ i # blocks'.write
    BY <1>0, <1>3, AgesUpwards DEF OneBlockWritten
  <2>2. blockAt' = [blockAt EXCEPT ![blocks'.write] = render_call_counter_ + 1]
        /\ blockAt \in [Slot -> Count]
    BY DEF OneBlockWritten, RingInv, ContentsOK
  <2>3. age # 0 => blockAt[Upwards(BufferSize, blocks.write, age - 1)] = BlockOf(age - 1)
    BY <1>2 DEF HistoryInv, BlocksInOrder
  <2> HIDE DEF i
  <2>4. blockAt'[i] = BlockOf(age)'
    BY <1>1, <1>2, <2>1, <2>2, <2>3
  <2> QED  BY <2>4 DEF i
<1>4. blockAt[blocks.write] = render_call_counter_
  <2>1. Upwards(BufferSize, blocks.write, 0) = blocks.write
    <3>1. /\ BufferSize \in Nat \ {0} /\ blocks.write \in 0 .. BufferSize - 1
      BY <1>0, Sizes DEF Slot
    <3>2. PICK age \in 0 .. BufferSize - 1 : age = 0  BY <3>1
    <3>3. -age \in -BufferSize .. BufferSize  BY <3>1
    <3>4. blocks.write + (-age) \in 0 .. BufferSize - 1 =>
            OffsetIndex(BufferSize, blocks.write, -age) = blocks.write + (-age)
      BY <3>1, <3>3, OffsetWraps
    <3>5. ASSUME NEW a \in Int, NEW w \in Int PROVE w + (-a) = w - a  OBVIOUS
    <3>6. blocks.write + (-age) = blocks.write - age  BY <3>1, <3>5
    <3>7. OffsetIndex(BufferSize, blocks.write, -age) = blocks.write
      BY <3>1, <3>2, <3>4, <3>6
    <3> QED  BY <3>2, <3>7 DEF Upwards
  <2>2. 0 \in Slot  BY Sizes DEF Slot
  <2> QED  BY <1>1, <2>1, <2>2 DEF HistoryInv, BlocksInOrder
<1>5. ASSUME NEW age \in Slot
      PROVE  /\ spectrumAt'[Downwards(BufferSize, spectra'.write, age)] = <<BlockOf(age)', BlockOf(age + 1)'>>
             /\ fftAt'[Downwards(BufferSize, spectra'.write, age)] = <<BlockOf(age)', BlockOf(age + 1)'>>
  <2> DEFINE i == Downwards(BufferSize, spectra'.write, age)
  <2>1. /\ i \in Slot
        /\ age = 0 => i = spectra'.write
        /\ age > 0 => i = Downwards(BufferSize, spectra.write, age - 1) /\ i # spectra'.write
    <3>1. BufferSize \in Nat \ {0, 1} /\ spectra.write \in 0 .. BufferSize - 1
          /\ age \in 0 .. BufferSize - 1
      BY <1>0, <1>5, Sizes DEF Slot
    <3>2. spectra'.write = IF spectra.write > 0 THEN spectra.write - 1 ELSE BufferSize - 1
      BY DEF OneBlockWritten, DecIndex
    <3>3. PICK n \in Nat \ {0, 1} : n = BufferSize  BY <3>1
    <3>4. PICK w \in 0 .. n - 1 : w = spectra.write  BY <3>1, <3>3
    <3>5. age \in 0 .. n - 1  BY <3>1, <3>3
    <3>6. LET moved == IF w > 0 THEN w - 1 ELSE n - 1 IN
          /\ Downwards(n, moved, age) \in 0 .. n - 1
          /\ age = 0 => Downwards(n, moved, age) = moved
          /\ age > 0 => /\ Downwards(n, moved, age) = Downwards(n, w, age - 1)
                        /\ Downwards(n, moved, age) # moved
      BY <3>5, AgesDownwards
    <3>7. spectra'.write = IF w > 0 THEN w - 1 ELSE n - 1  BY <3>2, <3>3, <3>4
    <3> QED  BY <3>3, <3>4, <3>6, <3>7 DEF Slot
  <2>2. /\ fftAt' = [fftAt EXCEPT ![spectra'.write] = <<render_call_counter_ + 1, blockAt[blocks.write]>>]
        /\ spectrumAt' = [spectrumAt EXCEPT ![spectra'.write] = fftAt'[spectra'.write]]
        /\ fftAt \in [Slot -> Count \X Count] /\ spectrumAt \in [Slot -> Count \X Count]
    BY DEF OneBlockWritten, RingInv, ContentsOK
  <2>3. age # 0 =>
          /\ spectrumAt[Downwards(BufferSize, spectra.write, age - 1)] = <<BlockOf(age - 1), BlockOf((age - 1) + 1)>>
          /\ fftAt[Downwards(BufferSize, spectra.write, age - 1)] = <<BlockOf(age - 1), BlockOf((age - 1) + 1)>>
    BY <1>2 DEF HistoryInv, SpectraInOrder
  <2>4. age # 0 => BlockOf((age - 1) + 1) = BlockOf(age + 1)'
                   /\ BlockOf(age - 1) = BlockOf(age)'
    <3>0. age \in Nat  BY <1>2
    <3>1. age # 0 => (age - 1) + 1 = age /\ (age + 1) - 1 = age /\ age + 1 \in Nat \ {0}
      BY <3>0
    <3>2. \A a \in Nat \ {0} : BlockOf(a)' = BlockOf(a - 1)  BY <1>1
    <3>3. PICK next : next = age + 1  OBVIOUS
    <3>4. age # 0 => BlockOf(next)' = BlockOf(next - 1)  BY <3>1, <3>2, <3>3
    <3>5. age # 0 => BlockOf(next)' = BlockOf(age)  BY <3>1, <3>3, <3>4
    <3>6. BlockOf(age + 1)' = BlockOf(next)'  BY <3>3
    <3>7. age # 0 => BlockOf((age - 1) + 1) = BlockOf(age)  BY <3>1
    <3>8. age # 0 => BlockOf(age - 1) = BlockOf(age)'  BY <1>2, <3>2
    <3> QED  BY <3>5, <3>6, <3>7, <3>8
  <2>5. BlockOf(1)' = render_call_counter_  BY <1>1
  <2> HIDE DEF i
  <2>6. CASE age = 0
    <3>1. age + 1 = 1 /\ i = spectra'.write  BY <2>1, <2>6
    <3>2. fftAt'[i] = <<render_call_counter_ + 1, render_call_counter_>>
      BY <1>4, <2>1, <2>2, <3>1
    <3>3. spectrumAt'[i] = fftAt'[i]  BY <2>1, <2>2, <3>1
    <3> QED  BY <1>1, <2>5, <2>6, <3>1, <3>2, <3>3 DEF i
  <2>7. CASE age # 0
    <3>1. i = Downwards(BufferSize, spectra.write, age - 1) /\ i # spectra'.write
      BY <1>2, <2>1, <2>7
    <3>2. fftAt'[i] = fftAt[i] /\ spectrumAt'[i] = spectrumAt[i]
      BY <2>1, <2>2, <3>1
    <3> QED  BY <2>3, <2>4, <2>7, <3>1, <3>2 DEF i
  <2> QED  BY <2>6, <2>7
<1>6. ASSUME NEW age \in LowRateSlot
      PROVE  lowRateAt'[Downwards(DownsampledSize, low_rate'.write, age)] = BlockOf(age)'
  <2> DEFINE i == Downwards(DownsampledSize, low_rate'.write, age)
  <2>0. /\ DownsampledSize \in Nat \ {0, 1} /\ low_rate.write \in 0 .. DownsampledSize - 1
        /\ age \in 0 .. DownsampledSize - 1
        /\ age \in Nat /\ (age # 0 => age > 0 /\ age \in Nat \ {0} /\ age - 1 \in LowRateSlot)
    BY <1>0, <1>6, Sizes DEF LowRateSlot
  <2>1. /\ i \in LowRateSlot
        /\ age = 0 => i = low_rate'.write
        /\ age > 0 => i = Downwards(DownsampledSize, low_rate.write, age - 1) /\ i # low_rate'.write
    <3>1. low_rate'.write = IF low_rate.write > 0 THEN low_rate.write - 1 ELSE DownsampledSize - 1
      BY DEF OneBlockWritten
    <3> QED  BY <2>0, <3>1, AgesDownwards DEF LowRateSlot
  <2>2. lowRateAt' = [lowRateAt EXCEPT ![low_rate'.write] = render_call_counter_ + 1]
        /\ lowRateAt \in [LowRateSlot -> Count]
    BY DEF OneBlockWritten, RingInv, ContentsOK
  <2>3. age # 0 => lowRateAt[Downwards(DownsampledSize, low_rate.write, age - 1)] = BlockOf(age - 1)
    BY <2>0 DEF HistoryInv, LowRateInOrder
  <2> HIDE DEF i
  <2>4. lowRateAt'[i] = BlockOf(age)'
    BY <1>1, <2>0, <2>1, <2>2, <2>3
  <2> QED  BY <2>4 DEF i
<1>7. BlocksInOrder'  BY <1>3 DEF BlocksInOrder
<1>8. SpectraInOrder'  BY <1>5 DEF SpectraInOrder
<1>9. LowRateInOrder'  BY <1>6 DEF LowRateInOrder
<1> QED  BY <1>7, <1>8, <1>9 DEF HistoryInv

\* Every operation leaves the rings in order.
LEMMA HistoryInvNext == RingInv /\ HistoryInv /\ [Next]_vars => HistoryInv'
<1> SUFFICES ASSUME RingInv, HistoryInv, [Next]_vars PROVE HistoryInv'
  OBVIOUS
<1>1. CASE NothingWritten
  BY <1>1 DEF NothingWritten, HistoryInv, BlocksInOrder, SpectraInOrder, LowRateInOrder, BlockOf
<1>2. CASE OneBlockWritten
  BY <1>2, BlockWritten
<1> QED  BY <1>1, <1>2, HistorySteps

\* Going back from the write position one meets the rendered blocks in order, in all
\* four rings, for rings of every size and however often they have wrapped, been
\* reset, overrun or realigned.
THEOREM HistoryAlwaysInOrder == Spec => []HistoryInOrder
<1>1. Init => HistoryInv  BY HistoryInvInit
<1>2. RingInv /\ HistoryInv /\ [Next]_vars => HistoryInv'  BY HistoryInvNext
<1>3. RingInv /\ HistoryInv => HistoryInOrder  BY HistoryInvImplies
<1> QED  BY <1>1, <1>2, <1>3, RingInvAlways, PTL DEF Spec

-----------------------------------------------------------------------------
(* Excess render data.                                                     *)

\* The captures that met excess latency began after the interval did, or there
\* has been excess latency at every capture of this interval and since at most
\* one interval before it.
ExcessInv ==
  \/ excessFor <= excess_render_detection_counter_
  \/ /\ min_latency_blocks_ > MaxExcess
     /\ excessFor <= excess_render_detection_counter_ + ExcessInterval

\* Every operation keeps it.
LEMMA ExcessInvNext == RingInv /\ ExcessInv /\ [Next]_vars => ExcessInv'
<1> SUFFICES ASSUME RingInv, ExcessInv, [Next]_vars PROVE ExcessInv'
  OBVIOUS
<1> USE DEF positionVars, contentVars, externalVars, excessVars, activityVars
<1>1. ASSUME NEW b, NEW s, NEW f, NEW l, ResetFrom(b, s, f, l) PROVE ExcessInv'
  BY <1>1 DEF ResetFrom, ExcessInv
<1>2. CASE UNCHANGED <<min_latency_blocks_, excess_render_detection_counter_, excessFor>>
  BY <1>2 DEF ExcessInv
<1>3. CASE Reset
  BY <1>1, <1>3 DEF Reset
<1>4. ASSUME NEW active \in BOOLEAN, Insert(active) PROVE ExcessInv'
  BY <1>1, <1>2, <1>4 DEF Insert
<1>5. CASE PrepareCaptureProcessing
  <2>1. CASE ResetFrom(blocks, spectra, ffts, low_rate)
    BY <1>1, <2>1
  <2>2. CASE ~ExcessRender
    <3>1. UpdateExcessDetection /\ excessFor' = IF BufferLatency > MaxExcess THEN excessFor + 1 ELSE 0
      BY <1>5, <2>2 DEF PrepareCaptureProcessing
    <3>2. BufferLatency \in Nat
      <4>1. BufferLatency \in LowRateSlot
        BY LatencySteps DEF BufferLatency, RingInv, PositionsOK
      <4> QED  BY <4>1, Sizes DEF LowRateSlot
    <3>3. /\ min_latency_blocks_ \in Nat /\ excessFor \in Nat
          /\ excess_render_detection_counter_ \in 0 .. ExcessInterval - 1
      BY Sizes DEF RingInv, DelaysOK, LowRateSlot
    <3>4. LowestLatency = IF min_latency_blocks_ <= BufferLatency
                          THEN min_latency_blocks_ ELSE BufferLatency
      BY DEF LowestLatency, Smaller
    <3>5. CASE ~IntervalOver
      <4>1. /\ min_latency_blocks_' = LowestLatency
            /\ excess_render_detection_counter_' = excess_render_detection_counter_ + 1
        BY <3>1, <3>5 DEF UpdateExcessDetection
      <4> QED  BY <3>1, <3>2, <3>3, <3>4, <4>1, ConfigAssumption DEF ExcessInv
    <3>6. CASE IntervalOver
      <4>1. /\ min_latency_blocks_' = BufferLatency
            /\ excess_render_detection_counter_' = 0
        BY <3>1, <3>6 DEF UpdateExcessDetection
      <4>2. LowestLatency <= MaxExcess  BY <2>2, <3>2, <3>3, <3>4, <3>6, ConfigAssumption DEF ExcessRender
      <4>3. excess_render_detection_counter_ = ExcessInterval - 1
        BY <3>3, <3>6, ConfigAssumption DEF IntervalOver
      <4> QED  BY <3>1, <3>2, <3>3, <3>4, <4>1, <4>2, <4>3, ConfigAssumption DEF ExcessInv
    <3> QED  BY <3>5, <3>6
  <2> QED  BY <1>5, <2>1, <2>2 DEF PrepareCaptureProcessing
<1>6. ASSUME NEW delay \in Estimates, AlignFromDelay(delay) PROVE ExcessInv'
  BY <1>2, <1>6 DEF AlignFromDelay
<1>7. CASE AlignFromExternalDelay
  BY <1>2, <1>7 DEF AlignFromExternalDelay
<1>8. ASSUME NEW ms \in AudioDelaysMs, SetAudioBufferDelay(ms) PROVE ExcessInv'
  BY <1>2, <1>8 DEF SetAudioBufferDelay
<1>9. CASE UNCHANGED vars
  BY <1>2, <1>9 DEF vars
<1> QED  BY <1>3, <1>4, <1>5, <1>6, <1>7, <1>8, <1>9 DEF Next

\* Render data cannot pile up unnoticed for two detection intervals, however
\* render and capture calls interleave.
THEOREM ExcessAlwaysDetected == Spec => []ExcessIsDetected
<1>1. Init => ExcessInv  BY DEF Init, ExcessInv
<1>2. RingInv /\ ExcessInv /\ [Next]_vars => ExcessInv'  BY ExcessInvNext
<1>3. RingInv /\ ExcessInv => ExcessIsDetected
  BY ConfigAssumption DEF RingInv, DelaysOK, ExcessInv, ExcessIsDetected
<1> QED  BY <1>1, <1>2, <1>3, RingInvAlways, PTL DEF Spec

-----------------------------------------------------------------------------
(* The applied delay.                                                      *)

\* The default delay fits in the rings: then no check fails while the delay
\* estimator is in use, which every statement about the delay needs.
RingsFit == DefaultDelay <= BufferSize

\* The total delay of an estimate always fits, and cut is what the limit took.
LEMMA EstimateFits ==
  ASSUME RingInv, NEW delay \in Estimates
  PROVE  LET wanted == MapDelayToTotalDelay(delay)
             total == LimitedDelay(wanted)
         IN /\ total \in Slot /\ total \in -BufferSize .. BufferSize
            /\ total - BufferLatency = delay - (wanted - total)
            /\ total >= BufferLatency /\ wanted >= total
<1>1. BufferLatency \in LowRateSlot
  BY LatencySteps DEF BufferLatency, RingInv, PositionsOK
<1>2. BufferLatency \in 0 .. MaxDelay /\ delay \in Nat /\ MaxDelay \in Nat
  BY <1>1, Sizes, InputAssumption DEF LowRateSlot
<1> QED  BY <1>2, Sizes DEF MapDelayToTotalDelay, LimitedDelay, Smaller, Larger, Slot

\* So an alignment to an estimate passes the checks and becomes the delay.
LEMMA AlignmentPasses ==
  ASSUME RingInv, NEW delay \in Estimates, AlignFromDelay(delay)
  PROVE  delay_' = delay /\ ~aborted'
<1> DEFINE total == LimitedDelay(MapDelayToTotalDelay(delay))
<1>0. blocks \in Ring(Slot) /\ spectra \in Ring(Slot) /\ ffts = spectra
      /\ MirroredRings(blocks, spectra)
  BY DEF RingInv, PositionsOK
<1>1. ApplyTotalDelay(blocks, spectra, spectra, total) /\ delay_' = delay
  BY <1>0 DEF AlignFromDelay
<1>2. total \in -BufferSize .. BufferSize  BY EstimateFits
<1> HIDE DEF total
<1> QED  BY <1>0, <1>1, <1>2, ApplyEffect

\* No RTC_DCHECK fails.
LEMMA NoFailNext ==
  RingsFit /\ RingInv /\ EstimatorPassesChecks /\ [Next]_vars => EstimatorPassesChecks'
<1> SUFFICES ASSUME RingsFit, RingInv, ~aborted, [Next]_vars, ~use_external_delay_estimator
             PROVE  ~aborted'
  BY ModeKept DEF EstimatorPassesChecks
<1>0. /\ blocks \in Ring(Slot) /\ spectra \in Ring(Slot) /\ ffts = spectra
      /\ low_rate \in Ring(LowRateSlot) /\ MirroredRings(blocks, spectra)
      /\ external_audio_buffer_delay_ \in Int \cup {None}
  BY DEF RingInv, PositionsOK, DelaysOK
<1>1. ResetDelay <= BufferSize
  BY <1>0, ResetDelayRange, Sizes DEF RingsFit
<1>2. CASE Reset
  <2>1. ResetFrom(blocks, spectra, spectra, low_rate)  BY <1>0, <1>2 DEF Reset
  <2> QED  BY <1>0, <1>1, <2>1, ResetEffect
<1>3. ASSUME NEW active \in BOOLEAN, Insert(active) PROVE ~aborted'
  <2> DEFINE b == [blocks EXCEPT !.write = IncIndex(@)]
             s == [spectra EXCEPT !.write = DecIndex(@)]
             l == [low_rate EXCEPT !.write = OffsetIndex(DownsampledSize, @, -1)]
  <2>1. b \in Ring(Slot) /\ s \in Ring(Slot) /\ l \in Ring(LowRateSlot) /\ MirroredRings(b, s)
    BY WritePositionsMove DEF RingInv
  <2>2. [ffts EXCEPT !.write = DecIndex(@)] = s  BY <1>0
  <2>3. ResetFrom(b, s, s, l) \/ aborted' = aborted
    BY <1>3, <2>2 DEF Insert
  <2> HIDE DEF b, s, l
  <2> QED  BY <1>0, <1>1, <2>1, <2>3, ResetEffect
<1>4. CASE PrepareCaptureProcessing
  <2>1. ResetFrom(blocks, spectra, ffts, low_rate) \/ aborted' = aborted
    BY <1>4 DEF PrepareCaptureProcessing
  <2>2. ResetFrom(blocks, spectra, spectra, low_rate) \/ aborted' = aborted
    BY <1>0, <2>1
  <2> QED  BY <1>0, <1>1, <2>2, ResetEffect
<1>5. ASSUME NEW delay \in Estimates, AlignFromDelay(delay) PROVE ~aborted'
  BY <1>5, AlignmentPasses
<1>6. CASE AlignFromExternalDelay
  BY <1>6 DEF AlignFromExternalDelay
<1>7. ASSUME NEW ms \in AudioDelaysMs, SetAudioBufferDelay(ms) PROVE ~aborted'
  BY <1>7 DEF SetAudioBufferDelay
<1>8. CASE UNCHANGED vars
  BY <1>8 DEF vars
<1> QED  BY <1>2, <1>3, <1>4, <1>5, <1>6, <1>7, <1>8 DEF Next

\* With the delay estimator and a default delay that fits in the rings no index
\* check of the rings ever fails.
THEOREM NoCheckFails == RingsFit /\ Spec => []EstimatorPassesChecks
<1>1. RingsFit /\ Init => EstimatorPassesChecks
  BY Sizes, ConfigAssumption DEF Init, EstimatorPassesChecks, RingsFit
<1>2. RingsFit /\ RingInv /\ EstimatorPassesChecks /\ [Next]_vars => EstimatorPassesChecks'
  BY NoFailNext
<1> SUFFICES ASSUME RingsFit PROVE Spec => []EstimatorPassesChecks
  OBVIOUS
<1> QED  BY <1>1, <1>2, RingInvAlways, PTL DEF Spec

\* What a step can do to the delay: a reset, a render call (which moves both ends),
\* a capture call with and without unread render data, or an alignment.
DelayReset ==
  /\ ResetDelay \in Slot => ComputeDelay' = ResetDelay - 1
  /\ external_audio_buffer_delay_ = None => ResetDelay = DefaultDelay /\ delay_' = None
  /\ external_audio_buffer_delay_ # None =>
       ResetDelay \in 1 .. MaxDelay /\ delay_' = ResetDelay - 1
  /\ cut' = 0
DelaySame == ComputeDelay' = ComputeDelay /\ delay_' = delay_ /\ cut' = cut
DelayRead ==
  /\ BufferLatency > 0 /\ BufferLatency' = BufferLatency - 1
  /\ InternalDelay' = IF InternalDelay = 0 THEN 0 ELSE InternalDelay - 1
  /\ delay_' = delay_ /\ cut' = cut
DelayShortened ==
  /\ BufferLatency = 0 /\ BufferLatency' = 0
  /\ InternalDelay' = IF InternalDelay = 0 THEN 0 ELSE InternalDelay - 1
  /\ delay_' = DelayAfterUnderrun /\ cut' = cut
DelayAligned ==
  /\ delay_' \in Nat /\ cut' \in Nat
  /\ ComputeDelay' = delay_' - cut' /\ ComputeDelay' >= 0

\* A reset that no check stops gives the delay it was asked for.
LEMMA ResetDelays ==
  ASSUME NEW b \in Ring(Slot), NEW s \in Ring(Slot), NEW l \in Ring(LowRateSlot),
         MirroredRings(b, s), external_audio_buffer_delay_ \in Int \cup {None},
         ResetFrom(b, s, s, l)
  PROVE  DelayReset
<1>1. /\ LatencyOf(low_rate') = 1 /\ cut' = 0
      /\ ResetDelay \in Slot => DistanceOf(spectra') = ResetDelay
      /\ external_audio_buffer_delay_ = None => delay_' = None
      /\ external_audio_buffer_delay_ # None =>
           delay_' = ResetDelay - 1 /\ ResetDelay \in 1 .. MaxDelay
  BY ResetEffect
<1>2. ComputeDelay' = DistanceOf(spectra') - LatencyOf(low_rate')
  BY DEF ComputeDelay, InternalDelay, BufferLatency
<1> QED  BY <1>1, <1>2, ResetDelayRange DEF DelayReset

\* With the delay estimator every step is one of these.
LEMMA DelaySteps ==
  ASSUME RingInv, ~use_external_delay_estimator, [Next]_vars
  PROVE  DelayReset \/ DelaySame \/ DelayRead \/ DelayShortened \/ DelayAligned
<1>0. /\ blocks \in Ring(Slot) /\ spectra \in Ring(Slot) /\ ffts = spectra
      /\ low_rate \in Ring(LowRateSlot) /\ MirroredRings(blocks, spectra)
      /\ external_audio_buffer_delay_ \in Int \cup {None}
  BY DEF RingInv, PositionsOK, DelaysOK
<1>1. CASE UNCHANGED <<spectra, low_rate, delay_, cut>>
  BY <1>1 DEF DelaySame, ComputeDelay, InternalDelay, BufferLatency
<1>2. CASE Reset
  <2>1. ResetFrom(blocks, spectra, spectra, low_rate)  BY <1>0, <1>2 DEF Reset
  <2> QED  BY <1>0, <2>1, ResetDelays
<1>3. ASSUME NEW active \in BOOLEAN, Insert(active) PROVE DelayReset \/ DelaySame
  <2> DEFINE b == [blocks EXCEPT !.write = IncIndex(@)]
             s == [spectra EXCEPT !.write = DecIndex(@)]
             l == [low_rate EXCEPT !.write = OffsetIndex(DownsampledSize, @, -1)]
  <2>1. b \in Ring(Slot) /\ s \in Ring(Slot) /\ l \in Ring(LowRateSlot) /\ MirroredRings(b, s)
    BY WritePositionsMove DEF RingInv
  <2>2. [ffts EXCEPT !.write = DecIndex(@)] = s  BY <1>0
  <2>3. \/ ResetFrom(b, s, s, l)
        \/ /\ ~RenderOverrun(l, b)
           /\ spectra' = s /\ low_rate' = l /\ delay_' = delay_ /\ cut' = cut
    BY <1>3, <2>2 DEF Insert
  <2>4. s.read # s.write => DistanceOf(s) = InternalDelay + 1
    BY <1>0, DistanceSteps DEF InternalDelay
  <2>5. l.read # l.write => LatencyOf(l) = BufferLatency + 1
    BY <1>0, LatencySteps DEF BufferLatency
  <2>6. InternalDelay \in Int /\ BufferLatency \in Int
    <3>1. InternalDelay \in Slot /\ BufferLatency \in LowRateSlot
      BY <1>0, DistanceSteps, LatencySteps DEF InternalDelay, BufferLatency
    <3> QED  BY <3>1, Sizes DEF Slot, LowRateSlot
  <2> HIDE DEF b, s, l
  <2>7. CASE ResetFrom(b, s, s, l)
    BY <1>0, <2>1, <2>7, ResetDelays
  <2>8. CASE /\ ~RenderOverrun(l, b)
             /\ spectra' = s /\ low_rate' = l /\ delay_' = delay_ /\ cut' = cut
    <3>1. l.read # l.write /\ b.read # b.write  BY <2>8 DEF RenderOverrun
    <3>2. b.read \in Slot /\ b.write \in Slot  BY <2>1 DEF Ring
    <3>3. s.read # s.write  BY <2>1, <3>1, <3>2, MirrorInjective DEF MirroredRings
    <3>4. InternalDelay' = DistanceOf(s) /\ BufferLatency' = LatencyOf(l)
      BY <2>8 DEF InternalDelay, BufferLatency
    <3>5. ComputeDelay' = ComputeDelay
      BY <2>4, <2>5, <2>6, <3>1, <3>3, <3>4 DEF ComputeDelay
    <3> QED  BY <2>8, <3>5 DEF DelaySame
  <2> QED  BY <2>3, <2>7, <2>8
<1>4. CASE PrepareCaptureProcessing
  <2>1. CASE ResetFrom(blocks, spectra, ffts, low_rate)
    <3>1. ResetFrom(blocks, spectra, spectra, low_rate)  BY <1>0, <2>1
    <3> QED  BY <1>0, <3>1, ResetDelays
  <2>2. CASE ~ExcessRender
    <3>1. IncrementReadIndices /\ cut' = cut  BY <1>4, <2>2 DEF PrepareCaptureProcessing
    <3>2. InternalDelay' = IF InternalDelay = 0 THEN 0 ELSE InternalDelay - 1
      BY <3>1, ReadPositionsMove DEF RingInv, InternalDelay
    <3>3. BufferLatency = 0 <=> RenderUnderrun
      BY <1>0, LatencySteps DEF BufferLatency, RenderUnderrun
    <3>4. CASE RenderUnderrun
      <4>1. delay_' = DelayAfterUnderrun /\ low_rate' = low_rate
        BY <1>4, <2>2, <3>4 DEF PrepareCaptureProcessing
      <4>2. BufferLatency' = BufferLatency  BY <4>1 DEF BufferLatency
      <4> QED  BY <3>1, <3>2, <3>3, <3>4, <4>1, <4>2 DEF DelayShortened
    <3>5. CASE ~RenderUnderrun
      <4>1. /\ delay_' = delay_
            /\ low_rate' = [low_rate EXCEPT !.read = OffsetIndex(DownsampledSize, @, -1)]
        BY <1>4, <2>2, <3>5 DEF PrepareCaptureProcessing
      <4>2. low_rate.read # low_rate.write  BY <3>5 DEF RenderUnderrun
      <4>3. LatencyOf(low_rate') = LatencyOf(low_rate) - 1  BY <1>0, <4>1, <4>2, LatencySteps
      <4>4. BufferLatency \in LowRateSlot  BY <1>0, LatencySteps DEF BufferLatency
      <4>5. BufferLatency > 0  BY <3>3, <3>5, <4>4, Sizes DEF LowRateSlot
      <4> QED  BY <3>1, <3>2, <4>1, <4>3, <4>5 DEF DelayRead, BufferLatency
    <3> QED  BY <3>4, <3>5
  <2> QED  BY <1>4, <2>1, <2>2 DEF PrepareCaptureProcessing
<1>5. ASSUME NEW delay \in Estimates, AlignFromDelay(delay) PROVE DelayAligned
  <2> DEFINE wanted == MapDelayToTotalDelay(delay)
             total == LimitedDelay(wanted)
  <2>1. /\ total \in Slot /\ total \in -BufferSize .. BufferSize
        /\ total - BufferLatency = delay - (wanted - total)
        /\ total >= BufferLatency /\ wanted >= total
    BY EstimateFits
  <2>2. /\ ApplyTotalDelay(blocks, spectra, spectra, total)
        /\ delay_' = delay /\ cut' = wanted - total /\ low_rate' = low_rate
    BY <1>0, <1>5 DEF AlignFromDelay
  <2>3. BufferLatency \in LowRateSlot  BY <1>0, LatencySteps DEF BufferLatency
  <2>4. BufferLatency \in Nat /\ delay \in Nat /\ wanted \in Nat /\ total \in Nat
    BY <2>1, <2>3, Sizes, InputAssumption DEF LowRateSlot, Slot, MapDelayToTotalDelay
  <2> HIDE DEF wanted, total
  <2>5. DistanceOf(spectra') = total
    <3>1. total \in Int  BY <2>4
    <3> QED  BY <1>0, <2>1, <2>2, <3>1, ApplyEffect
  <2>6. ComputeDelay' = total - BufferLatency
    BY <2>2, <2>5 DEF ComputeDelay, InternalDelay, BufferLatency
  <2> QED  BY <2>1, <2>2, <2>4, <2>6 DEF DelayAligned
<1>6. CASE AlignFromExternalDelay
  BY <1>6 DEF AlignFromExternalDelay
<1>7. ASSUME NEW ms \in AudioDelaysMs, SetAudioBufferDelay(ms) PROVE DelaySame
  BY <1>1, <1>7 DEF SetAudioBufferDelay, positionVars, DelaySame, ComputeDelay,
                    InternalDelay, BufferLatency
<1>8. CASE UNCHANGED vars
  BY <1>1, <1>8 DEF vars, positionVars
<1> QED  BY <1>2, <1>3, <1>4, <1>5, <1>6, <1>7, <1>8 DEF Next

\* Distance and latency are numbers.
LEMMA DelayTypes == RingInv => InternalDelay \in Nat /\ BufferLatency \in Nat
<1> SUFFICES ASSUME RingInv PROVE InternalDelay \in Nat /\ BufferLatency \in Nat
  OBVIOUS
<1>1. InternalDelay \in Slot /\ BufferLatency \in LowRateSlot
  BY DistanceSteps, LatencySteps DEF InternalDelay, BufferLatency, RingInv, PositionsOK
<1> QED  BY <1>1, Sizes DEF Slot, LowRateSlot

\* Every step keeps an applied delay, whatever else it does.
LEMMA DelayKeptNext ==
  RingInv /\ DelayKept /\ EstimatorPassesChecks /\ [Next]_vars => DelayKept'
<1> SUFFICES ASSUME RingInv, DelayKept, [Next]_vars, ~aborted, ~use_external_delay_estimator,
                    delay_' # None
             PROVE  ComputeDelay' = Larger(delay_' - cut', 0) /\ delay_' >= 0
  BY ModeKept DEF DelayKept, EstimatorPassesChecks
<1>1. DelayReset \/ DelaySame \/ DelayRead \/ DelayShortened \/ DelayAligned  BY DelaySteps
<1>2. InternalDelay \in Nat /\ BufferLatency \in Nat  BY DelayTypes
<1>3. delay_ \in Int \cup {None} /\ cut \in Nat  BY DEF RingInv, DelaysOK
<1>4. delay_ # None => ComputeDelay = Larger(delay_ - cut, 0) /\ delay_ >= 0
  BY DEF DelayKept
<1>5. CASE DelayReset
  <2>1. ResetDelay \in 1 .. MaxDelay /\ delay_' = ResetDelay - 1 /\ cut' = 0
    BY <1>5 DEF DelayReset
  <2>2. ResetDelay \in Slot  BY <2>1, Sizes DEF Slot
  <2>3. ComputeDelay' = ResetDelay - 1  BY <1>5, <2>2 DEF DelayReset
  <2> QED  BY <2>1, <2>3, Sizes DEF Larger
<1>6. CASE DelaySame
  BY <1>4, <1>6 DEF DelaySame
<1>7. CASE DelayRead
  <2>1. delay_ \in Int /\ ComputeDelay = InternalDelay - BufferLatency
    BY <1>3, <1>7 DEF DelayRead, ComputeDelay
  <2>2. ComputeDelay' = InternalDelay' - BufferLatency'  BY DEF ComputeDelay
  <2> QED  BY <1>2, <1>3, <1>4, <1>7, <2>1, <2>2 DEF DelayRead, Larger
<1>8. CASE DelayShortened
  <2>1. delay_ # None  BY <1>8 DEF DelayShortened, DelayAfterUnderrun
  <2>2. delay_ \in Int /\ ComputeDelay = InternalDelay - BufferLatency
    BY <1>3, <2>1 DEF ComputeDelay
  <2>3. ComputeDelay' = InternalDelay' - BufferLatency'  BY DEF ComputeDelay
  <2>4. delay_' = IF delay_ > 0 THEN delay_ - 1 ELSE delay_
    BY <1>8, <2>1 DEF DelayShortened, DelayAfterUnderrun
  <2> QED  BY <1>2, <1>3, <1>4, <1>8, <2>1, <2>2, <2>3, <2>4 DEF DelayShortened, Larger
<1>9. CASE DelayAligned
  BY <1>9 DEF DelayAligned, Larger
<1> QED  BY <1>1, <1>5, <1>6, <1>7, <1>8, <1>9

\* An applied delay stays the delay until something is realigned, through every
\* interleaving of render and capture calls.
THEOREM DelayAlwaysKept == RingsFit /\ Spec => []DelayKept
<1> SUFFICES ASSUME RingsFit PROVE Spec => []DelayKept
  OBVIOUS
<1>1. Init => DelayKept  BY DEF Init, DelayKept
<1>2. Spec => []EstimatorPassesChecks  BY NoCheckFails
<1>3. RingInv /\ DelayKept /\ EstimatorPassesChecks /\ [Next]_vars => DelayKept'
  BY DelayKeptNext
<1> QED  BY <1>1, <1>2, <1>3, RingInvAlways, PTL DEF Spec

\* The default delay is one the rings can hold and at least a block.
DefaultDelayUsable == DefaultDelay \in 1 .. BufferSize - 1

\* Every step leaves the read position behind that of the estimator.
LEMMA DelayNotNegativeNext ==
  DefaultDelayUsable /\ RingInv /\ DelayNotNegative /\ EstimatorPassesChecks /\ [Next]_vars
    => DelayNotNegative'
<1> SUFFICES ASSUME DefaultDelayUsable, RingInv, ComputeDelay >= 0, [Next]_vars,
                    ~use_external_delay_estimator
             PROVE  ComputeDelay' >= 0
  BY ModeKept DEF DelayNotNegative, EstimatorPassesChecks
<1>1. DelayReset \/ DelaySame \/ DelayRead \/ DelayShortened \/ DelayAligned
  BY DelaySteps
<1>2. InternalDelay \in Nat /\ BufferLatency \in Nat  BY DelayTypes
<1>3. CASE DelayReset
  <2>1. ResetDelay \in Slot /\ ResetDelay >= 1
    BY <1>3, Sizes DEF DelayReset, DefaultDelayUsable, Slot
  <2>2. ComputeDelay' = ResetDelay - 1  BY <1>3, <2>1 DEF DelayReset
  <2> QED  BY <2>1, <2>2, Sizes DEF Slot
<1>4. CASE DelaySame
  BY <1>4 DEF DelaySame
<1>5. CASE DelayRead
  <2>1. InternalDelay >= BufferLatency  BY <1>2 DEF ComputeDelay
  <2>2. ComputeDelay' = InternalDelay' - BufferLatency'  BY DEF ComputeDelay
  <2> QED  BY <1>2, <1>5, <2>1, <2>2 DEF DelayRead
<1>6. CASE DelayShortened
  <2>1. ComputeDelay' = InternalDelay' - BufferLatency'  BY DEF ComputeDelay
  <2> QED  BY <1>2, <1>6, <2>1 DEF DelayShortened
<1>7. CASE DelayAligned
  BY <1>7 DEF DelayAligned
<1> QED  BY <1>1, <1>3, <1>4, <1>5, <1>6, <1>7

\* It also holds of the rings as constructed.
LEMMA DelayNotNegativeInit == DefaultDelayUsable /\ Init => DelayNotNegative
<1> SUFFICES ASSUME DefaultDelayUsable, Init PROVE ComputeDelay >= 0
  BY DEF DelayNotNegative
<1>1. DefaultDelay \in Slot /\ DefaultDelay >= 1 /\ 0 \in Slot /\ 0 \in LowRateSlot
  BY Sizes DEF DefaultDelayUsable, Slot, LowRateSlot
<1>2. spectra = [write |-> 0, read |-> OffsetIndex(BufferSize, 0, DefaultDelay)]
  <2>1. ~(DefaultDelay > BufferSize)  BY <1>1, Sizes DEF Slot
  <2>2. ~aborted  BY <2>1 DEF Init
  <2> QED  BY <2>2 DEF Init
<1>3. DistanceOf(spectra) = DefaultDelay
  <2> DEFINE s == [write |-> 0, read |-> 0]
  <2>1. s \in Ring(Slot) /\ s.write = 0  BY <1>1 DEF Ring
  <2>2. DistanceOf([s EXCEPT !.read = OffsetIndex(BufferSize, s.write, DefaultDelay)]) = DefaultDelay
    BY <1>1, <2>1, OffsetDistance
  <2> QED  BY <1>2, <2>2
<1>4. LatencyOf(low_rate) = 1
  <2> DEFINE l == [write |-> 0, read |-> 0]
  <2>1. l \in Ring(LowRateSlot) /\ l.write = 0  BY <1>1 DEF Ring
  <2>2. LatencyOf([l EXCEPT !.read = OffsetIndex(DownsampledSize, l.write, 1)]) = 1
    BY <2>1, LatencySteps
  <2>3. low_rate = [l EXCEPT !.read = OffsetIndex(DownsampledSize, l.write, 1)]
    BY DEF Init
  <2> QED  BY <2>2, <2>3
<1> QED  BY <1>1, <1>3, <1>4, Sizes DEF ComputeDelay, InternalDelay, BufferLatency, Slot

\* The reported delay is never negative, for every usable default delay.
THEOREM DelayNeverNegative == DefaultDelayUsable /\ Spec => []DelayNotNegative
<1> SUFFICES ASSUME DefaultDelayUsable PROVE Spec => []DelayNotNegative
  OBVIOUS
<1>0. RingsFit  BY Sizes DEF RingsFit, DefaultDelayUsable
<1>1. Init => DelayNotNegative  BY DelayNotNegativeInit
<1>2. Spec => []EstimatorPassesChecks  BY <1>0, NoCheckFails
<1>3. RingInv /\ DelayNotNegative /\ EstimatorPassesChecks /\ [Next]_vars => DelayNotNegative'
  BY DelayNotNegativeNext
<1> QED  BY <1>1, <1>2, <1>3, RingInvAlways, PTL DEF Spec

\* A reset that gives a delay gives one that leaves room for the filter.
LEMMA ResetLeavesRoom ==
  ASSUME NEW b \in Ring(Slot), NEW s \in Ring(Slot), NEW l \in Ring(LowRateSlot),
         MirroredRings(b, s), external_audio_buffer_delay_ \in Int \cup {None},
         ResetFrom(b, s, s, l), delay_' # None
  PROVE  InternalDelay' + FilterLength <= BufferSize - 1
<1>1. external_audio_buffer_delay_ # None  BY ResetEffect
<1>2. ResetDelay \in 1 .. MaxDelay  BY <1>1, ResetEffect
<1>3. ResetDelay \in Slot  BY <1>2, Sizes DEF Slot
<1>4. InternalDelay' = ResetDelay  BY <1>3, ResetEffect DEF InternalDelay
<1> QED  BY <1>2, <1>4, Sizes

\* So does an alignment to an estimate, whatever the estimate.
LEMMA AlignmentLeavesRoom ==
  ASSUME RingInv, NEW delay \in Estimates, AlignFromDelay(delay)
  PROVE  InternalDelay' + FilterLength <= BufferSize - 1
<1> DEFINE total == LimitedDelay(MapDelayToTotalDelay(delay))
<1>0. blocks \in Ring(Slot) /\ spectra \in Ring(Slot) /\ ffts = spectra
      /\ MirroredRings(blocks, spectra)
  BY DEF RingInv, PositionsOK
<1>1. ApplyTotalDelay(blocks, spectra, spectra, total)  BY <1>0 DEF AlignFromDelay
<1>2. total \in Slot  BY EstimateFits
<1>3. total <= MaxDelay
  <2>1. BufferLatency \in LowRateSlot /\ delay \in Nat
    BY LatencySteps, InputAssumption DEF BufferLatency, RingInv, PositionsOK
  <2> QED  BY <2>1, Sizes DEF MapDelayToTotalDelay, LimitedDelay, Smaller, Larger, LowRateSlot
<1> HIDE DEF total
<1>4. InternalDelay' = total
  <2>1. total \in Int  BY <1>2, Sizes DEF Slot
  <2> QED  BY <1>0, <1>1, <1>2, <2>1, ApplyEffect DEF InternalDelay
<1> QED  BY <1>2, <1>3, <1>4, Sizes DEF Slot

\* Right after any alignment, with any estimate and any external delay, the whole
\* adaptive filter lies inside the history.
THEOREM FilterAlwaysFits == Spec => FilterFitsWhenAligned
<1>1. ASSUME RingInv, [Next]_vars, delay_' # delay_, delay_' # None, ~Captured
      PROVE  InternalDelay' + FilterLength <= BufferSize - 1
  <2>0. /\ blocks \in Ring(Slot) /\ spectra \in Ring(Slot) /\ ffts = spectra
        /\ low_rate \in Ring(LowRateSlot) /\ MirroredRings(blocks, spectra)
        /\ external_audio_buffer_delay_ \in Int \cup {None}
    BY <1>1 DEF RingInv, PositionsOK, DelaysOK
  <2>1. CASE Reset
    <3>1. ResetFrom(blocks, spectra, spectra, low_rate)  BY <2>0, <2>1 DEF Reset
    <3> QED  BY <1>1, <2>0, <3>1, ResetLeavesRoom
  <2>2. ASSUME NEW active \in BOOLEAN, Insert(active)
        PROVE  InternalDelay' + FilterLength <= BufferSize - 1
    <3> DEFINE b == [blocks EXCEPT !.write = IncIndex(@)]
               s == [spectra EXCEPT !.write = DecIndex(@)]
               l == [low_rate EXCEPT !.write = OffsetIndex(DownsampledSize, @, -1)]
    <3>1. b \in Ring(Slot) /\ s \in Ring(Slot) /\ l \in Ring(LowRateSlot) /\ MirroredRings(b, s)
      BY <1>1, WritePositionsMove DEF RingInv
    <3>2. [ffts EXCEPT !.write = DecIndex(@)] = s  BY <2>0
    <3>3. ResetFrom(b, s, s, l)  BY <1>1, <2>2, <3>2 DEF Insert
    <3> HIDE DEF b, s, l
    <3> QED  BY <1>1, <2>0, <3>1, <3>3, ResetLeavesRoom
  <2>3. CASE PrepareCaptureProcessing
    <3>1. capture_call_counter_' = capture_call_counter_ + 1 /\ capture_call_counter_ \in Int
      BY <1>1, <2>3 DEF PrepareCaptureProcessing, RingInv, CountersOK, Count
    <3> QED  BY <1>1, <3>1 DEF Captured
  <2>4. ASSUME NEW delay \in Estimates, AlignFromDelay(delay)
        PROVE  InternalDelay' + FilterLength <= BufferSize - 1
    BY <1>1, <2>4, AlignmentLeavesRoom
  <2>5. CASE AlignFromExternalDelay
    BY <1>1, <2>5 DEF AlignFromExternalDelay
  <2>6. ASSUME NEW ms \in AudioDelaysMs, SetAudioBufferDelay(ms)
        PROVE  InternalDelay' + FilterLength <= BufferSize - 1
    BY <1>1, <2>6 DEF SetAudioBufferDelay
  <2>7. CASE UNCHANGED vars
    BY <1>1, <2>7 DEF vars
  <2> QED  BY <1>1, <2>1, <2>2, <2>3, <2>4, <2>5, <2>6, <2>7 DEF Next
<1>2. RingInv /\ [Next]_vars =>
        [delay_' # delay_ /\ delay_' # None /\ ~Captured /\ ~aborted' =>
           InternalDelay' + FilterLength <= BufferSize - 1]_vars
  BY <1>1
<1> QED  BY <1>2, RingInvAlways, PTL DEF Spec, FilterFitsWhenAligned
=============================================================================
