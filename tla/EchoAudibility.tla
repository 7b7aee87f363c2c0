---------------------------- MODULE EchoAudibility ----------------------------
(***************************************************************************)
(* EchoAudibility and the window of StationarityEstimator                  *)
(* (src/audio_processing/aec3/echo_audibility.cc, stationarity_estimator.cc)*)
(* on top of the block processor: once per call of the echo remover they   *)
(* catch up with the render spectra written since the call before, and     *)
(* look at the spectra around the one the echo comes from.  They keep      *)
(* positions of their own in the rings and are told of no reset.           *)
(*                                                                         *)
(* Levels and stationarity are left to the environment.  The configuration *)
(* uses the stationarity properties and a linear filter.                   *)
(***************************************************************************)
EXTENDS BlockProcessor

CONSTANT WindowLength   \* kWindowLength, 13.
ASSUME WindowAssumption == WindowLength \in Nat \ {0}

VARIABLES
  render_spectrum_write_prev_, render_block_write_prev_,
  non_zero_render_seen_,
  external_delay_reported_,   \* Of the AecState: an estimate was ever given to it.
  seenRender                  \* History: the newest render block at the last Update.

audibilityVars == <<render_spectrum_write_prev_, render_block_write_prev_, non_zero_render_seen_,
                    external_delay_reported_, seenRender>>
systemVars == <<allVars, audibilityVars>>

\* render_block_write_prev_ is not initialised, and not used before it is set.
AudibilityInit ==
  /\ BlockInit
  /\ render_spectrum_write_prev_ = None /\ render_block_write_prev_ = None
  /\ non_zero_render_seen_ = FALSE
  /\ external_delay_reported_ = FALSE
  /\ seenRender = 0

\* Variant with a mistake: the walk includes the position it ends at.
SpectraToCurrent(previous, current) ==
  [k \in 1 .. OffsetIndex(BufferSize, previous, -current) + 1 |->
     spectrumAt[OffsetIndex(BufferSize, previous, 1 - k)]]

\* The spectra from one write position to another, which is left out, oldest first.
SpectraSince(previous, current) ==
  [k \in 1 .. OffsetIndex(BufferSize, previous, -current) |->
     spectrumAt[OffsetIndex(BufferSize, previous, 1 - k)]]

\* IsRenderTooLow: without a new block the level is too low, otherwise the samples
\* decide.
RenderLevels == IF blocks.write = render_block_write_prev_ THEN {"low"} ELSE {"low", "proper"}

\* UpdateRenderNoiseEstimator: which spectra the noise estimate is updated with is
\* Fed, below.  The first call only takes note of the positions; levels are looked
\* at until one is proper, or for good not once there is an external delay.
Update(external_delay_seen) ==
  /\ \/ /\ render_spectrum_write_prev_ = None
        /\ render_block_write_prev_' = blocks.write
        /\ UNCHANGED non_zero_render_seen_
     \/ /\ render_spectrum_write_prev_ # None
        /\ IF non_zero_render_seen_ \/ external_delay_seen
           THEN UNCHANGED <<non_zero_render_seen_, render_block_write_prev_>>
           ELSE /\ \E level \in RenderLevels : non_zero_render_seen_' = (level = "proper")
                /\ render_block_write_prev_' = blocks.write
  /\ render_spectrum_write_prev_' = spectra.write
  /\ seenRender' = render_call_counter_

\* AecState::Update, in the call of the echo remover: an estimate makes the
\* external delay seen from then on.
RemoveEchoAndUpdate ==
  LET reported == external_delay_reported_ \/ (~use_external_delay_estimator /\ controllerDelay # None)
  IN
  /\ RemoveEcho
  /\ external_delay_reported_' = reported
  /\ Update(reported)

AudibilityNext ==
  \/ RemoveEchoAndUpdate
  \/ /\ \/ \E active \in BOOLEAN : BufferRender(active)
        \/ ProcessCapture \/ PrepareBuffers \/ Align \/ AlignExternally
        \/ \E ms \in AudioDelaysMs : ReportAudioBufferDelay(ms)
     /\ UNCHANGED audibilityVars

AudibilitySpec == AudibilityInit /\ [][AudibilityNext]_systemVars

-----------------------------------------------------------------------------
(* UpdateRenderStationarityFlags.                                          *)

\* RenderBuffer::Headroom; equal positions count as a full ring.
Headroom == IF ffts.write < ffts.read THEN ffts.read - ffts.write
            ELSE BufferSize - ffts.write + ffts.read

\* UpdateStationarityFlags: the spectra summed up for a filter delay, oldest first;
\* the window ends that many spectra after the one at the delay.
Lookahead(delay) == Smaller(Larger(Headroom - delay + 1, 0), WindowLength - 1)
Window(delay) ==
  LET last == OffsetIndex(BufferSize, spectra.read, delay - Lookahead(delay)) IN
  [k \in 1 .. WindowLength |-> spectrumAt[OffsetIndex(BufferSize, last, WindowLength - k)]]

-----------------------------------------------------------------------------
(* Properties.                                                             *)

\* Once the noise estimate has begun, every render spectrum is fed to it once and
\* in order, whatever overruns, resets and realignments happened between two
\* updates, as long as fewer blocks than the ring holds were rendered between them.
Fed == SpectraSince(render_spectrum_write_prev_, spectra.write)
Updated == pc = "remove" /\ pc' = "idle" /\ ~aborted
NoiseSeesEverySpectrum ==
  [][Updated /\ non_zero_render_seen_' /\ render_call_counter_ - seenRender < BufferSize =>
       Fed = [k \in 1 .. render_call_counter_ - seenRender |->
                <<BlockNumber(seenRender + k - 1), BlockNumber(seenRender + k - 2)>>]]_systemVars

\* "The power for each band is accumulated for several consecutive spectra"
\* (stationarity_estimator.cc:68): no two of a window have blocks between them, as
\* the newest and the oldest of the ring have.  Looked at when the whole ring has
\* been written.
Consecutive(window) ==
  \A k \in 1 .. WindowLength - 1 : window[k + 1][1] \in {window[k][1], window[k][1] + 1}
WindowIsConsecutive ==
  /\ pc = "remove" /\ ~use_external_delay_estimator /\ controllerDelay # None /\ ~aborted
  /\ render_call_counter_ >= BufferSize
  => \A delay \in 0 .. FilterLength - 1 : Consecutive(Window(delay))
=============================================================================
