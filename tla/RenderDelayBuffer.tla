--------------------------- MODULE RenderDelayBuffer ---------------------------
(***************************************************************************)
(* The render history of the echo canceller                                *)
(* (src/audio_processing/aec3/render_delay_buffer.cc, with BlockBuffer,    *)
(* SpectrumBuffer, FftBuffer, DownsampledRenderBuffer and RenderBuffer).   *)
(* Four rings hold the rendered blocks: as samples, as FFTs and as power   *)
(* spectra for the echo remover, decimated for the delay estimator.  The   *)
(* block ring is written upwards, the others downwards.                    *)
(*                                                                         *)
(* A slot holds the number of the render block it was computed from, 0 for *)
(* the silence the ring starts with.  Positions in the decimated ring are  *)
(* counted in sub-blocks, the unit in which the code moves them.  A failed *)
(* RTC_DCHECK ends the program: aborted.  State that only feeds log lines  *)
(* (API call jitter, first external delay) is left out.                    *)
(***************************************************************************)
EXTENDS Integers

CONSTANTS
  DownsampledSize,   \* Sub-blocks in low_rate_; 153 by default.
  FilterLength,      \* config.filter.main.length_blocks, the headroom; 13.
  DefaultDelay,      \* config.delay.default_delay; 5.
  ExcessInterval,    \* excess_render_detection_interval_blocks; 250.
  MaxExcess,         \* max_allowed_excess_render_blocks; 8.
  ActivityLimit,     \* Active blocks that make up render activity; 20.
  Estimates,         \* The delays, in blocks, AlignFromDelay is called with.
  AudioDelaysMs,     \* The delays, in ms, SetAudioBufferDelay is called with.
  DelayModes,        \* Values of config.delay.use_external_delay_estimator to look at.
  MaxCalls,          \* Bound on render_call_counter_ and capture_call_counter_.
  None               \* An empty absl::optional.

ASSUME SizesAssumption == DownsampledSize \in Nat \ {0, 1} /\ FilterLength \in Nat \ {0}
ASSUME ConfigAssumption == /\ DefaultDelay \in Nat /\ ExcessInterval \in Nat \ {0}
                           /\ MaxExcess \in Nat /\ ActivityLimit \in Nat
                           /\ DelayModes \subseteq BOOLEAN
ASSUME InputAssumption == /\ Estimates \subseteq Nat /\ AudioDelaysMs \subseteq Int
                          /\ MaxCalls \in Nat /\ None \notin Int

VARIABLES
  blocks, spectra, ffts, low_rate,              \* Read and write positions.
  blockAt, spectrumAt, fftAt, lowRateAt,        \* Contents.
  use_external_delay_estimator,                 \* Of the configuration.
  delay_, external_audio_buffer_delay_,
  min_latency_blocks_, excess_render_detection_counter_,
  render_call_counter_, capture_call_counter_,
  render_activity_, render_activity_counter_,
  remover_activity,  \* The activity flag of the echo remover's RenderBuffer.
  event,             \* What the last Insert or PrepareCaptureProcessing returned.
  aborted,           \* An RTC_DCHECK failed.
  cut,               \* History: blocks the last AlignFromDelay cut off its delay.
  excessFor          \* History: captures in a row that met excess latency.

positionVars == <<blocks, spectra, ffts, low_rate>>
contentVars == <<blockAt, spectrumAt, fftAt, lowRateAt>>
excessVars == <<min_latency_blocks_, excess_render_detection_counter_>>
activityVars == <<render_activity_, render_activity_counter_, remover_activity>>
externalVars == <<use_external_delay_estimator, external_audio_buffer_delay_>>
vars == <<positionVars, contentVars, delay_, externalVars,
          excessVars, render_call_counter_, capture_call_counter_, activityVars,
          event, aborted, cut, excessFor>>

-----------------------------------------------------------------------------
(* Rings.                                                                  *)

\* GetRenderDelayBufferSize.
BufferSize == DownsampledSize + FilterLength + 1
MaxDelay == BufferSize - 1 - FilterLength

Slot == 0 .. BufferSize - 1
LowRateSlot == 0 .. DownsampledSize - 1

IncIndex(i) == IF i < BufferSize - 1 THEN i + 1 ELSE 0
DecIndex(i) == IF i > 0 THEN i - 1 ELSE BufferSize - 1
OffsetIndex(size, i, offset) == (size + i + offset) % size

\* The unread sub-blocks of the decimated ring.
LatencyOf(l) == OffsetIndex(DownsampledSize, l.read, -l.write)
BufferLatency == LatencyOf(low_rate)

\* How far the echo remover's read position lies behind the newest block.
DistanceOf(s) == IF s.read >= s.write THEN s.read - s.write
                 ELSE BufferSize + s.read - s.write
InternalDelay == DistanceOf(spectra)
ComputeDelay == InternalDelay - BufferLatency

RenderOverrun(l, b) == l.read = l.write \/ b.read = b.write
RenderUnderrun == low_rate.read = low_rate.write

Smaller(a, b) == IF a <= b THEN a ELSE b
Larger(a, b) == IF a >= b THEN a ELSE b

-----------------------------------------------------------------------------
(* Parts of the operations.  b, s, f and l are the rings as they are when  *)
(* the part is reached.                                                    *)

\* The OffsetIndex calls accept offsets of at most one ring, each way.
ApplyTotalDelay(b, s, f, delay) ==
  LET reachable == delay \in -BufferSize .. BufferSize IN
  /\ aborted' = ~reachable
  /\ blocks'  = IF reachable THEN [b EXCEPT !.read = OffsetIndex(BufferSize, b.write, -delay)] ELSE b
  /\ spectra' = IF reachable THEN [s EXCEPT !.read = OffsetIndex(BufferSize, s.write, delay)] ELSE s
  /\ ffts'    = IF reachable THEN [f EXCEPT !.read = OffsetIndex(BufferSize, f.write, delay)] ELSE f

\* The total delay Reset applies: two blocks less than the external delay, at
\* least one, when there is one; the configured delay otherwise.
ResetDelay ==
  IF external_audio_buffer_delay_ = None THEN DefaultDelay
  ELSE Smaller(Larger(external_audio_buffer_delay_ - 2, 1), MaxDelay)

ResetFrom(b, s, f, l) ==
  /\ min_latency_blocks_' = 0
  /\ excess_render_detection_counter_' = 0
  /\ low_rate' = [l EXCEPT !.read = OffsetIndex(DownsampledSize, l.write, 1)]
  /\ ApplyTotalDelay(b, s, f, ResetDelay)
  /\ delay_' = IF external_audio_buffer_delay_ = None THEN None
               ELSE DistanceOf(spectra') - LatencyOf(low_rate')
  /\ cut' = 0
  /\ excessFor' = 0

\* Variants of the definitions below, each with a mistake in it.
MapDelayWithoutLatency(delay) == delay
LimitedBelowOnly(total) == Larger(total, 0)
LimitedToRing(total) == Smaller(BufferSize - 1, Larger(total, 0))
DelayUnchangedByUnderrun == delay_
IncrementBlockedOnlyForBlocks ==
  /\ blocks'  = IF blocks.read = blocks.write THEN blocks
                ELSE [blocks EXCEPT !.read = IncIndex(@)]
  /\ spectra' = [spectra EXCEPT !.read = DecIndex(@)]
  /\ ffts'    = [ffts EXCEPT !.read = DecIndex(@)]
InsertBlockAfterItself(b, s, f, l, previous_write) ==
  LET n == render_call_counter_ + 1 IN
  /\ blockAt' = [blockAt EXCEPT ![b.write] = n]
  /\ lowRateAt' = [lowRateAt EXCEPT ![l.write] = n]
  /\ fftAt' = [fftAt EXCEPT ![f.write] = <<n, blockAt[b.write]>>]
  /\ spectrumAt' = [spectrumAt EXCEPT ![s.write] = fftAt'[f.write]]

\* The total delay of an estimate, and the range it is limited to.
MapDelayToTotalDelay(delay) == BufferLatency + delay
LimitedDelay(total) == Smaller(MaxDelay, Larger(total, 0))

\* Only the echo remover's rings advance on an underrun: the delay shrinks.
DelayAfterUnderrun == IF delay_ # None /\ delay_ > 0 THEN delay_ - 1 ELSE delay_

\* The read positions follow the capture side until they reach the newest block.
IncrementReadIndices ==
  IF blocks.read = blocks.write THEN UNCHANGED <<blocks, spectra, ffts>>
  ELSE /\ blocks'  = [blocks EXCEPT !.read = IncIndex(@)]
       /\ spectra' = [spectra EXCEPT !.read = DecIndex(@)]
       /\ ffts'    = [ffts EXCEPT !.read = DecIndex(@)]

\* InsertBlock: the FFT covers the block and the one before it.
InsertBlock(b, s, f, l, previous_write) ==
  LET n == render_call_counter_ + 1 IN
  /\ blockAt' = [blockAt EXCEPT ![b.write] = n]
  /\ lowRateAt' = [lowRateAt EXCEPT ![l.write] = n]
  /\ fftAt' = [fftAt EXCEPT ![f.write] = <<n, blockAt[previous_write]>>]
  /\ spectrumAt' = [spectrumAt EXCEPT ![s.write] = fftAt'[f.write]]

\* Twenty active blocks, counted since the last reported activity.
DetectRenderActivity(active) ==
  LET seen == render_activity_counter_ + (IF active THEN 1 ELSE 0) IN
  /\ render_activity_counter_' = IF render_activity_ THEN render_activity_counter_ ELSE seen
  /\ render_activity_' = (render_activity_ \/ seen >= ActivityLimit)
  /\ UNCHANGED remover_activity

\* DetectExcessRenderBlocks: too high a minimum latency over a whole interval.
LowestLatency == Smaller(min_latency_blocks_, BufferLatency)
IntervalOver == excess_render_detection_counter_ + 1 >= ExcessInterval
ExcessRender == IntervalOver /\ LowestLatency > MaxExcess
\* Variant with a mistake: the minimum never starts over.
MinimumKept ==
  /\ min_latency_blocks_' = LowestLatency
  /\ excess_render_detection_counter_' =
       IF IntervalOver THEN 0 ELSE excess_render_detection_counter_ + 1
UpdateExcessDetection ==
  /\ min_latency_blocks_' = IF IntervalOver THEN BufferLatency ELSE LowestLatency
  /\ excess_render_detection_counter_' =
       IF IntervalOver THEN 0 ELSE excess_render_detection_counter_ + 1

-----------------------------------------------------------------------------
(* The operations.                                                         *)

\* The constructor, which ends in Reset; that fails when the configured delay is
\* longer than the rings.
Init ==
  LET read(offset) == IF aborted THEN 0 ELSE OffsetIndex(BufferSize, 0, offset) IN
  /\ aborted = (DefaultDelay > BufferSize)
  /\ blocks = [write |-> 0, read |-> read(-DefaultDelay)]
  /\ spectra = [write |-> 0, read |-> read(DefaultDelay)]
  /\ ffts = spectra
  /\ low_rate = [write |-> 0, read |-> OffsetIndex(DownsampledSize, 0, 1)]
  /\ blockAt = [i \in Slot |-> 0]
  /\ spectrumAt = [i \in Slot |-> <<0, 0>>]
  /\ fftAt = spectrumAt
  /\ lowRateAt = [i \in LowRateSlot |-> 0]
  /\ use_external_delay_estimator \in DelayModes
  /\ delay_ = None
  /\ external_audio_buffer_delay_ = None
  /\ min_latency_blocks_ = 0 /\ excess_render_detection_counter_ = 0
  /\ render_call_counter_ = 0 /\ capture_call_counter_ = 0
  /\ render_activity_ = FALSE /\ render_activity_counter_ = 0 /\ remover_activity = FALSE
  /\ event = "none"
  /\ cut = 0 /\ excessFor = 0

Reset ==
  /\ ~aborted
  /\ ResetFrom(blocks, spectra, ffts, low_rate)
  /\ UNCHANGED <<contentVars, externalVars, render_call_counter_,
                 capture_call_counter_, activityVars, event>>

\* Insert: the write positions move first; a ring that is then full has overrun,
\* and once the block is written everything is reset.
Insert(active) ==
  LET b == [blocks EXCEPT !.write = IncIndex(@)]
      s == [spectra EXCEPT !.write = DecIndex(@)]
      f == [ffts EXCEPT !.write = DecIndex(@)]
      l == [low_rate EXCEPT !.write = OffsetIndex(DownsampledSize, @, -1)]
  IN
  /\ ~aborted
  /\ render_call_counter_ < MaxCalls
  /\ render_call_counter_' = render_call_counter_ + 1
  /\ DetectRenderActivity(active)
  /\ InsertBlock(b, s, f, l, blocks.write)
  /\ \/ /\ RenderOverrun(l, b)
        /\ event' = "overrun"
        /\ ResetFrom(b, s, f, l)
     \/ /\ ~RenderOverrun(l, b)
        /\ event' = "none"
        /\ blocks' = b /\ spectra' = s /\ ffts' = f /\ low_rate' = l
        /\ UNCHANGED <<delay_, excessVars, aborted, cut, excessFor>>
  /\ UNCHANGED <<externalVars, capture_call_counter_>>

\* PrepareCaptureProcessing: excess render resets the buffers; on an underrun
\* only the echo remover's rings advance, which shortens the delay by a block.
PrepareCaptureProcessing ==
  /\ ~aborted
  /\ capture_call_counter_ < MaxCalls
  /\ capture_call_counter_' = capture_call_counter_ + 1
  /\ \/ /\ ExcessRender
        /\ event' = "overrun"
        /\ ResetFrom(blocks, spectra, ffts, low_rate)
     \/ /\ ~ExcessRender
        /\ IF RenderUnderrun
           THEN /\ event' = "underrun"
                /\ delay_' = DelayAfterUnderrun
                /\ UNCHANGED low_rate
           ELSE /\ event' = "none"
                /\ low_rate' = [low_rate EXCEPT !.read = OffsetIndex(DownsampledSize, @, -1)]
                /\ UNCHANGED delay_
        /\ IncrementReadIndices
        /\ UpdateExcessDetection
        /\ excessFor' = IF BufferLatency > MaxExcess THEN excessFor + 1 ELSE 0
        /\ UNCHANGED <<aborted, cut>>
  /\ remover_activity' = render_activity_
  /\ render_activity_' = FALSE
  /\ render_activity_counter_' = IF render_activity_ THEN 0 ELSE render_activity_counter_
  /\ UNCHANGED <<contentVars, externalVars, render_call_counter_>>

\* AlignFromDelay: a new estimate, relative to the oldest unread sub-block.
AlignFromDelay(delay) ==
  LET wanted == MapDelayToTotalDelay(delay)
      total == LimitedDelay(wanted)
  IN
  /\ ~aborted
  /\ ~use_external_delay_estimator
  /\ delay_ # delay
  /\ delay_' = delay
  /\ ApplyTotalDelay(blocks, spectra, ffts, total)
  /\ cut' = wanted - total
  /\ UNCHANGED <<low_rate, contentVars, externalVars, excessVars,
                 render_call_counter_, capture_call_counter_, activityVars, event, excessFor>>

\* Variant with a mistake: the latency of the buffer instead of the call counters.
ExternalTotalFromLatency == BufferLatency + external_audio_buffer_delay_

\* AlignFromExternalDelay: the delay follows the call counters, unlimited.
ExternalTotalDelay ==
  render_call_counter_ - capture_call_counter_ + external_audio_buffer_delay_
AlignFromExternalDelay ==
  /\ ~aborted
  /\ use_external_delay_estimator
  /\ external_audio_buffer_delay_ # None
  /\ ApplyTotalDelay(blocks, spectra, ffts, ExternalTotalDelay)
  /\ UNCHANGED <<low_rate, contentVars, delay_, externalVars, excessVars, cut,
                 render_call_counter_, capture_call_counter_, activityVars, event, excessFor>>

\* Milliseconds to blocks, rounded towards zero.
MsToBlocks(ms) == IF ms >= 0 THEN ms \div 4 ELSE -((-ms) \div 4)
SetAudioBufferDelay(ms) ==
  /\ ~aborted
  /\ external_audio_buffer_delay_' = MsToBlocks(ms)
  /\ UNCHANGED <<positionVars, contentVars, delay_, use_external_delay_estimator, excessVars,
                 render_call_counter_, capture_call_counter_, activityVars, event, aborted,
                 cut, excessFor>>

Next == \/ Reset
        \/ \E active \in BOOLEAN : Insert(active)
        \/ PrepareCaptureProcessing
        \/ \E delay \in Estimates : AlignFromDelay(delay)
        \/ AlignFromExternalDelay
        \/ \E ms \in AudioDelaysMs : SetAudioBufferDelay(ms)

Spec == Init /\ [][Next]_vars

-----------------------------------------------------------------------------
(* Properties.                                                             *)

Ring(slots) == [write : slots, read : slots]
Count == 0 .. MaxCalls

\* Type invariant.
TypeOK ==
  /\ blocks \in Ring(Slot) /\ spectra \in Ring(Slot) /\ ffts \in Ring(Slot)
  /\ low_rate \in Ring(LowRateSlot)
  /\ blockAt \in [Slot -> Count] /\ lowRateAt \in [LowRateSlot -> Count]
  /\ spectrumAt \in [Slot -> Count \X Count] /\ fftAt \in [Slot -> Count \X Count]
  /\ use_external_delay_estimator \in DelayModes
  /\ delay_ \in Int \cup {None}
  /\ external_audio_buffer_delay_ \in Int \cup {None}
  /\ min_latency_blocks_ \in LowRateSlot
  /\ excess_render_detection_counter_ \in 0 .. ExcessInterval - 1
  /\ render_call_counter_ \in Count /\ capture_call_counter_ \in Count
  /\ render_activity_ \in BOOLEAN /\ remover_activity \in BOOLEAN
  /\ render_activity_counter_ \in Nat
  /\ event \in {"none", "overrun", "underrun"}
  /\ aborted \in BOOLEAN
  /\ cut \in Nat /\ excessFor \in Nat

\* The block ring and the spectrum and FFT rings run in opposite directions and
\* stay mirror images of each other, whatever resets, overruns, underruns and
\* realignments do (the RTC_DCHECKs of RenderBuffer::Position, and the reason
\* why one read position can be handed to code that uses all three rings).
MirrorOf(i) == IF i = 0 THEN 0 ELSE BufferSize - i
Mirrored == /\ ffts = spectra
            /\ spectra.write = MirrorOf(blocks.write)
            /\ spectra.read = MirrorOf(blocks.read)

\* Going back in any ring from its write position one meets the rendered blocks
\* in order, each spectrum and FFT computed from its block and the one before it.
BlockNumber(n) == IF n > 0 THEN n ELSE 0
HistoryInOrder ==
  /\ \A age \in Slot :
       LET n == render_call_counter_ - age
           i == OffsetIndex(BufferSize, blocks.write, -age)
           j == OffsetIndex(BufferSize, spectra.write, age)
       IN /\ blockAt[i] = BlockNumber(n)
          /\ spectrumAt[j] = <<BlockNumber(n), BlockNumber(n - 1)>>
          /\ fftAt[j] = spectrumAt[j]
  /\ \A age \in LowRateSlot :
       lowRateAt[OffsetIndex(DownsampledSize, low_rate.write, age)] =
         BlockNumber(render_call_counter_ - age)

\* An applied delay stays the delay: until something is realigned, the echo
\* remover reads the block that lies delay_ blocks before the one the delay
\* estimator reads, through every interleaving of render and capture calls, with
\* underruns shortening both.  (cut counts what the limit to MaxDelay took away.)
DelayKept ==
  delay_ # None /\ ~use_external_delay_estimator /\ ~aborted =>
    /\ ComputeDelay = Larger(delay_ - cut, 0)
    /\ delay_ >= 0

\* The reported delay is never negative: Delay() returns it as a size_t.
DelayNotNegative == ~use_external_delay_estimator /\ ~aborted => ComputeDelay >= 0

\* The block the echo remover reads.
ReadBlock == render_call_counter_ - InternalDelay

Captured == capture_call_counter_' # capture_call_counter_

\* Right after an alignment the whole adaptive filter lies inside the history:
\* the oldest of its FilterLength blocks has not been overwritten yet.
FilterFitsWhenAligned ==
  [][delay_' # delay_ /\ delay_' # None /\ ~Captured /\ ~aborted' =>
       InternalDelay' + FilterLength <= BufferSize - 1]_vars

\* Render data that piles up is noticed: the latency cannot stay above the limit
\* for two detection intervals.
ExcessIsDetected == excessFor < 2 * ExcessInterval

\* With the delay estimator in use no RTC_DCHECK of the rings' OffsetIndex fails,
\* whatever is estimated, reported from outside and lost.
EstimatorPassesChecks == ~use_external_delay_estimator => ~aborted

\* No RTC_DCHECK of the rings' OffsetIndex fails at all.
NoFailedCheck == ~aborted
=============================================================================
