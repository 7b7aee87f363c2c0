# AEC3 in TLA+

This directory holds TLA+ models of the acoustic echo canceller in this
repository (`audio_processing/aec3` and the queue of `base/rtc_base` it uses),
TLC configurations that check them on small instances, and proofs, checked by
TLAPS, of what holds for every value of the constants. Paths below are relative
to `src/`; file names without a directory are in `audio_processing/aec3/`.

What the echo canceller does to samples is floating-point signal processing and
is not modelled. What is modelled is the control around it: which render block
is paired with which capture block, who moves which position of which buffer,
how delays are estimated, applied and forgotten, and how two threads share a
queue. That is where a mistake does not crash or sound wrong in a unit test, but
pairs the wrong blocks after the right sequence of bursts, gaps and resets.

## The system

Two threads call `EchoCanceller3`. The render thread (what is about to be
played) calls `AnalyzeRender`; the capture thread (what the microphone hears)
calls `AnalyzeCapture`, `ProcessCapture` and `SetAudioBufferDelay`.

    render thread                     capture thread
    AnalyzeRender                     ProcessCapture
         |                                 |
         +--> SwapQueue (100 frames) -->  EmptyRenderQueue     capture frame
                                           |                        |
                                      FrameBlocker             FrameBlocker
                                           | 64-sample blocks       |
                                 BlockProcessor.BufferRender   BlockProcessor.ProcessCapture
                                           |                     |        |         |
                                      RenderDelayBuffer.Insert   |  RenderDelay     EchoRemover
                                           |  (four rings)  <----+  Controller          |
                                           +--------------------------------------------+
                                                                                        |
                                                                  BlockFramer --> frame out

| Component | State | Operations | What is hard | What makes it correct |
|---|---|---|---|---|
| `SwapQueue` | slots, two private indices, one atomic counter | Insert (render), Remove, Clear (capture) | two threads, no lock; Clear racing Insert | a FIFO; never both threads in a slot; no buffer lost |
| `FrameBlocker`, `BlockFramer` | up to one block of samples | insert, extract | four phases of 80 against 64 samples | output is the input one block late, nothing lost or repeated |
| `EchoCanceller3` | the queue, blockers, framers, saturation flag | AnalyzeRender, AnalyzeCapture, ProcessCapture | render frames arriving at any point of a capture call; the optional linear output; a flag per frame for blocks across frames | the same, render frames lost only to a full queue, saturated samples processed under their flag |
| `BlockDelayBuffer` | a ring of samples | DelaySignal | a length that does not divide the frame | its output is its input, delayed |
| `ApiCallJitterMetrics` | shortest and longest runs of calls | ReportRenderCall, ReportCaptureCall | reports in the middle of a run | only whole runs count |
| `RenderDelayBuffer` | four rings, delay, external delay, excess detection | Insert, PrepareCaptureProcessing, AlignFromDelay, AlignFromExternalDelay, SetAudioBufferDelay, Reset | bursts and gaps of calls, overruns, underruns, resets, limits | rings in step, history in order, the applied delay kept |
| `MatchedFilter`, `MatchedFilterLagAggregator` | filters; histogram of the last 250 lags | Update, Aggregate, Reset(hard) | gaps, soft and hard resets | the histogram is the count of the window; the estimate won the vote |
| `ClockdriftDetector` | last three delays, level, stability counter | Update | sequences of estimates | a verified drift goes away only by stability |
| `EchoPathDelayEstimator`, `RenderDelayController` | last estimates, quality, hysteresis | GetDelay, Reset(confidence), HasClockdrift | confidence kept in two places; state that outlives each kind of reset | never later than the echo; a lag that stays is found |
| `BlockProcessor` | started flags, last render event, last estimate | BufferRender, ProcessCapture, SetAudioBufferDelay | events overwritten or ignored; the estimate outliving resets | the echo remover reads the block the estimate asks for and is told of jumps |
| `EchoRemover` | gain change hangover; the parts below and the suppressor's initial state | ProcessCapture | a delay change, a level change and the end of the initial state in one block or in consecutive ones | all parts use the same set of parameters; a level change acts once per frame |
| `AecState`, `FilterAnalyzer` | initial state, filter delay, transparent mode, filter quality, region and peak | Update, HandleEchoPathChange, UpdateCaptureSaturation | a dozen counters, some reset by a delay change and some not | counters agree; modes exclude each other; peak and delay inside the filter |
| `Subtractor`, `AdaptiveFirFilter`, update gains | two filters, their sizes in change, partition to constrain, gain parameters in change | Process, HandleEchoPathChange, ExitInitialState, Adapt, SetSizePartitions, SetFilter | sizes changing over 250 blocks, interrupted, in float | partitions come into use empty; indices inside the filter; steady growth |
| `EchoAudibility`, `StationarityEstimator` | positions up to which render was seen; noise estimate | Update | rings that move, jump and wrap without telling | each spectrum seen once; the window has no gap |
| `ReverbDecayEstimator` | place in the pass, region of late reverb, two regressors | Update | passes cut short by filters not fit for it; the region of one pass is used in the next | no section out of bounds; an estimate is of one region; it does not get stuck |
| residual echo, suppression gain and filter, comfort noise, ERL, ERLE | estimates in float | Update, GetGain, ... | numerical | not modelled |
| metrics, `AlignmentMixer`, `RaceChecker` | counters, energies | Update | | not modelled |
| configuration, C API, demo, C# wrapper | none that changes | | | its limits are the assumptions of the models |

## Modules

| Module | Models | Abstraction |
|---|---|---|
| `BoundedFifo` | what `SwapQueue` promises | operations are atomic |
| `SwapQueue` | `base/rtc_base/swap_queue.h` | one action per access to shared memory; an item is a number, a buffer an identity that is swapped; `content` says what was written into it |
| `SwapQueueProofs` | theorems about it | |
| `Framing` | `frame_blocker.cc`, `block_framer.cc` | samples move in chunks of 16, the greatest common divisor of 64, 80 and 160; one band and channel stands for all |
| `BlockDelayBuffer` | `block_delay_buffer.cc`; EXTENDS `Framing` | chunks again |
| `ApiCallJitterMetrics` | `api_call_jitter_metrics.cc` | the interval between reports is a constant |
| `EchoCanceller3` | `echo_canceller3.cc`; EXTENDS the two above; its queue is `BoundedFifo` | the block processor returns every chunk in its place; frames are saturated or not, and analysed before they are processed |
| `EchoCanceller3Proofs` | theorems about it and about the parts it EXTENDS | |
| `RenderDelayBuffer` | `render_delay_buffer.cc` and the buffers it owns | a slot holds the number of the block it was computed from; the decimated ring moves in sub-blocks, as in the code |
| `RenderDelayBufferProofs` | theorems about it | |
| `BlockProcessor` | `block_processor.cc`; EXTENDS `RenderDelayBuffer` | the delay controller returns any estimate, and none after a reset until a new one; the echo remover is the position it reads |
| `BlockProcessorProofs` | theorems about it, the refinement of `RenderDelayBuffer` included | |
| `EchoAudibility` | `echo_audibility.cc` and the window of `stationarity_estimator.cc`; EXTENDS `BlockProcessor` | levels are low or proper; spectra are the blocks they were computed from |
| `EchoAudibilityProofs` | theorems about it, the refinement of `BlockProcessor` included | |
| `MatchedFilterLagAggregator` | `matched_filter_lag_aggregator.cc` | the strongest reliable lag of a block, or none, is the input |
| `ClockdriftDetector` | `clockdrift_detector.cc` | the stability counter stops one beyond its limit |
| `RenderDelayController` | `render_delay_controller.cc`, `echo_path_delay_estimator.cc`; EXTENDS the two above | matched filters report any lag; counters that nothing reads are left out |
| `RenderDelayControllerProofs` | theorems about it and about the aggregator and the drift detector | |
| `AdaptiveFirFilter` | `adaptive_fir_filter.cc` | of a partition's coefficients: zero, possibly adapted, left behind; `Average` may come out one too small where single precision can |
| `Subtractor` | `subtractor.cc`, configuration changes of the update gains | parameters are those of the initial state, the regular ones, or in between; which filter is better, and whether the main one is misadjusted, is an input |
| `AecState` | `aec_state.cc`, `filter_analyzer.cc` | one capture channel, `use_linear_filter` on; active render, consistent, converged and diverged filters, and the peak among the samples of the region, are inputs |
| `EchoRemover` | `echo_remover.cc`; EXTENDS the two above | a block is two steps, before and after the subtraction; delay changes come at any block, level changes and saturation with any frame of 2 or 3 blocks |
| `EchoRemoverProofs` | theorems about it | |
| `ReverbDecayEstimator` | `reverb_decay_estimator.cc` | counts of samples are counts of blocks; the filter's fitness, peak, decay and the early reverb found in it are inputs |
| `ReverbDecayEstimatorProofs` | theorems about it | |
| `MC...` | constants for the runs | |

How state and code correspond. Variables have the names of the members they
stand for (`low_rate` for `low_rate_`, whose read and write positions are a
record); variables without a counterpart are commented where they are declared:
either the place in a call (`pc`, `producer`, `consumer`), a returned value
(`event`, `aggregated`), or history that only properties read (`cut`,
`excessFor`, `sinceEmpty`, `buffered`, `saturated`, `unflagged`, `callsInARow`,
`swallowed`, `removed`, `seenRender`, `restarted`, `acted`, `fitted`, `estimated`). A class that `EchoRemover` owns is a record whose fields are its members,
and an operation on it an operator from record to record.
An operation of the code is one action, or one action per step where something
can happen in between: per shared memory access in `SwapQueue`, per sub-frame in
`EchoCanceller3` (the render thread runs in between), per component called in
`BlockProcessor` (nothing runs in between; the steps make the hand-over visible).
A failed `RTC_DCHECK` is the variable `aborted`, after which nothing happens.
A definition whose comment calls it a variant with a mistake is not part of any
specification: it is what a definition would look like with a plausible bug, and
each property has been seen to fail with one of them in place of the right one.

## Runs

| Run | Question | Bounds |
|---|---|---|
| `SwapQueue_fifo` | Is the lock-free queue, with Clear at any moment, a bounded FIFO (`ImplementsFifo`, a refinement), race-free (`NoSlotRace`), without losing or doubling a buffer (`BuffersConserved`), in order (`RemovedInOrder`), and does what is queued come out (`QueuedIsRemoved`)? | capacity 3, 8 items: the indices wrap twice and the queue is full and empty |
| `EchoAudibility_render_path` | All three modules of the render path at once. Do the rings stay mirrored (`Mirrored`), hold the blocks in order (`HistoryInOrder`), keep the delay (`DelayKept`, `DelayNotNegative`), leave room for the filter (`FilterFitsWhenAligned`), notice excess data (`ExcessIsDetected`), with no failed check as long as delays are estimated (`EstimatorPassesChecks`)? Does the echo remover read what the estimate (`RemoverUsesEstimate`) or the external delay (`ExternalDelayFollowed`) asks for, and is it told of jumps (`RemoverSeesContinuousRender`)? Does the noise estimate get each spectrum once (`NoiseSeesEverySpectrum`)? | with the delay estimator and with external delays (`DelayModes`); 4 sub-blocks, filter of 2: rings of 7; 8 calls of each side, so every ring wraps, overruns and underruns; estimates 1 and 6, the latter beyond the limit, for the long ones that in the rings of the default size meet a long latency; external delays of 1 and 4 blocks |
| `EchoAudibility_window` | Are the spectra of a window consecutive? No: a delay of 0 looks one beyond the newest | as above, a ring written once |
| `BlockProcessor_unlimited` | Is the total delay always within the rings with an external delay? No | as above, without `EchoAudibility` |
| `EchoCanceller3_framing` | Are frames repackaged and delayed without loss (`OutputIsDelayedInput`, `RenderInOrder`), do the sizes always fit (`NoFailedCheck`), are render frames lost only to a full queue (`LostOnlyToAFullQueue`), are saturated samples flagged (`SaturatedFrameIsFlagged`), is jitter counted in whole runs (`JitterCountsWholeRuns`)? | two capture frames are one full period of 320 samples or 5 blocks; 4 are two periods; 6 render frames, queue of 2; fixed delays of none, 48 and 224 samples, shorter and longer than a frame and dividing none; reports every 3 frames; with and without the linear output |
| `EchoCanceller3_linear_skipped` | May a caller leave out the linear output now and then? No | 4 capture frames |
| `RenderDelayController_resets` | Is the vote what the window says (`HistogramCountsWindow`, `EstimateWonTheVote`), is the delay never beyond the estimate (`DelayIsCausal`), does drift go away only by stability (`DriftOnlyClearedByStability`), is a lag that stays found (`SteadyLagIsFound`)? | window of 3, lags 0 to 3, thresholds of 0 and 1 votes, counters of 2; any number of blocks: the state space is finite and explored to the end |
| `RenderDelayController_restarted` | Is a hard reset a restart of the call? No | window of 2, lags 0 to 4 |
| `EchoRemover_sizes` | Do filters, gains and suppressor change together (`ConfigurationsAgree`, `TransitionNotMissed`), do filters grow steadily (`GrowsSteadily`), are partitions empty when they come into use (`NoStalePartition`), is what indexes a filter inside it (`ConstrainsPartitionInUse`, `PeakInsideFilter`, `DelayInsideFilter`)? | filters of 3 blocks, 1 and 2 in the initial state, which lasts 3 blocks; changes over 2 blocks, so there is a size in between; 10 blocks: two initial states with their changes, delay changes at every point of them |
| `EchoRemover_modes` | Is a level change acted on once per frame (`GainChangeOncePerFrame`), do the parts of `AecState` agree (`CountersInStep`, `TransparentOrLinear`)? | thresholds of 1 and 2 blocks, all crossed within 6 blocks; level changes and saturation in any frame; four kinds of findings |
| `EchoRemover_transition` | Are the initial parameters used in the initial state? No | as `EchoRemover_sizes`; 5 blocks |
| `ReverbDecayEstimator_passes` | Is no section counted that there is no room for, and no block beyond the filter looked at (`NothingBeyondTheFilter`), is every estimate of one unbroken region (`EstimateFromOneRegion`), is a steady filter estimated again and again (`SteadyFilterIsEstimated`)? | the sizes of the code, for the default filter of 13 blocks, but for the number of sections early reverb is looked for in, 3 for 9: with 9 the default filter never has enough of them; any number of calls |

The type invariants of `SwapQueue`, `RenderDelayBuffer`, `RenderDelayController` and
`EchoRemover` are theorems (`TypeCorrect`) and not repeated in the runs. `RenderDelayBuffer` has no
run of its own: the block processor calls it in the order the code does, and the
theorems about it are of any order. Counters that the code never resets are bounded
in the guards (`MaxCalls`, `MaxItems`, `MaxRender`, `MaxCapture`, `MaxBlocks`);
where deadlock is not checked that is because all of them, or a failed check, can stop
the model. `ClockdriftDetector`'s stability counter stays one beyond its limit,
where it makes no difference any more. The bounds are enough where the state that
matters is small: positions modulo the size of a ring, a phase of four, a window, a
size in change. Every safety property of the passing runs is a theorem besides, so that
its run is the search that came before the proof and guards against a specification that
cannot move; only for liveness do the bounds carry weight.

Fairness is used in three runs. `FairSpec` of `SwapQueue` assumes weak
fairness of the steps inside Insert and inside Clear (a thread that is in a
lock-free operation goes on) and of Remove, its start included (the capture
thread empties the queue in every call). Nothing is assumed of how often the
producer inserts or of whether Clear is ever called. `SteadyLagIsFound` and
`SteadyFilterIsEstimated` are implications: if from some point on the environment
is steady (the matched filters agree on a lag and nothing is reset; the filter stays fit
and decays), and calls keep coming, which is weak fairness of those very calls, then
the delay is found, and decays are estimated. Audio callbacks are what makes the
calls keep coming; nothing before the steady time is assumed, so every state the
component can be in has a way back.

## Proofs

All theorems hold for every value of the constants that satisfies the named
assumptions beside the declarations: sizes are positive (the decimated ring has
more than one sub-block, as every configuration has), counts are natural numbers.

`SwapQueueProofs`. The inductive invariant says where each buffer is: which slots
lie between the read and the write index, how much `num_elements_` lags behind
while a thread is between its swap and its index, and that hands and slots hold
different buffers, with the items in them in order. `NoSlotRace` alone is not
inductive, since it does not say why the counter keeps the threads apart. From it
follow `TypeCorrect`, `NoRace`, `Conservation`, `InOrder`, and `Refinement`: every
step maps to a step of `BoundedFifo` or to a stutter, the element entering at
`InsertCount` and leaving at `RemoveCount`.

`RenderDelayBufferProofs`. First the arithmetic of positions: `OffsetWraps`
reduces the modulo of `OffsetIndex` to adding or subtracting one ring; stepping
and offsetting a position mirror each other (`IndexSteps`, `OffsetMirrors`);
distances change by one (`DistanceSteps`, `LatencySteps`). `RingInv` joins types and
mirroring, which need each other: the block ring's test `read # write` decides for
all three rings (`IncrementReadIndices`), which is right only because mirroring
loses nothing (`MirrorInjective`).
- `TypeCorrect`, `AlwaysMirrored`: no assumption beyond the sizes; external delays
  and failed checks included.
- `ExcessAlwaysDetected`: by `ExcessInv`, which splits on whether the excess began
  in this interval or in the one before.
- `NoCheckFails`, `DelayAlwaysKept`: of the delay estimator, for a default delay no
  longer than the rings (`RingsFit`), which a longer one fails in the constructor; the
  run `BlockProcessor_unlimited` shows what external delays do. `DelaySteps` says that a
  step resets, keeps, reads, shortens or aligns the delay, and nothing else.
- `DelayNeverNegative`: for a default delay of at least one block that fits; with
  0 the delay is -1 after a reset.
- `HistoryAlwaysInOrder`: seen from the write position, every slot of the four rings has an
  age, and a block its place (`HistoryInv`). Every step writes nothing or one block
  (`HistorySteps`), which makes every slot older by one and the oldest the newest; moving
  read positions does not matter.
- `FilterAlwaysFits`: after an alignment the delay is the limited one, and the
  limit is what leaves room for the filter.

`EchoRemoverProofs`. Inductive invariants, each the conjunction of the properties
with what they lack.
- `Agreement`: the counters, the modes and the end of the initial state.
  `TransitionNotMissed` says what holds while the end is not announced; what it
  lacks is that an announced end has been handled before the update that withdraws
  it (third part). Gives `CountersAgree`, `ModesExclusive`, `EndNotMissed`.
- `HangoverLasts`: once a level change was acted on, the hangover covers the blocks
  left in the frame. It needs `MaxBlocksPerFrame >= 3` and gives `OncePerFrame`.
- `Direction`: both filters are sound (typed, the partition to constrain in use,
  nothing stale in use) and all parts are headed for the same parameters
  (`HeadedFor`). The lemmas about one filter go operation by operation
  (`ResizeIsSound` to `AdaptIsSound`); `AverageBetween` shows that a size in
  change stays within the filter, whichever way the rounding goes. Gives
  `SameDirection`, `ConstrainsInUse`, `NothingStale`.
- `Growth`: a filter is settled or grows from the initial to the regular size
  (`Moving`), and one that still grows began no longer ago than the initial state has
  counted (`InTime`), so a new initial state finds every change finished. It needs
  the hypothesis `InitialOutlastsChange` (2.5 s against 1 s by default); with shorter
  initial states a filter does shrink while it grows, see the hazards. `AverageGrows`
  and `AverageOfSame` are about the rounding. Gives `GrowthIsSteady`.
- `PeakInside`, on top of `Growth`: the peak is inside the filter in use, and inside the
  longest one in any case. Gives `PeakAlwaysInside` and, when the
  guessed delay is inside the shorter filter too (`GuessFits`, which configurations
  are free not to honour), `DelayAlwaysInside`.
- `Types` collects what no other invariant types and gives `TypeCorrect`.

`BlockProcessorProofs`. `DrivesTheBuffer`: every step of the block processor is a step of
`RenderDelayBuffer` or a stutter, so all theorems of `RenderDelayBufferProofs` hold of it and
are used as invariants. `EstimateAlwaysUsed` follows from `DelayAlwaysKept` once
the estimate is known to have been applied (`EstimateApplied`);
`ExternalDelayAlwaysFollowed` from what the call counters say between the alignment and
the removal (`ExternalApplied`); `RenderAlwaysContinuous` from `ReadInv`, which follows
the block last read through every step until the next removal.

`EchoAudibilityProofs`. `DrivesTheProcessor` adds the third storey to this refinement. `NotedInv`
says that the position up to which the noise estimate has looked lies as many slots behind
the write position as there were render calls since, while that is less than a ring;
`SlotsBetween` then finds in those slots, by `HistoryInOrder`, exactly the missing blocks
(`NoiseAlwaysSeesAll`).

`RenderDelayControllerProofs`. `AggregatorInv` adds to `HistogramCountsWindow` that the
estimate given out leads the histogram; `VotesReplaced` says what replacing one lag of the
window does to the votes of every lag. That a largest count exists (`CandidateExists`)
would be an induction; `NatMinimum` takes it from the well-foundedness of the naturals.
`AlwaysCausal` needs no more than the types and the effect of `GetDelay`, `DriftStays` is about
single steps: neither reset touches the level of the drift.

`EchoCanceller3Proofs`. Blockers and framers hold zero to four chunks, in a phase
that `pc` allows, and what they hold is the end of what was given to them
(`BlocksInv`, `StreamInv`); the ring of the fixed delay holds the last samples of the frames
before (`DelayInv`), and `DelaySignalEffect` is the arithmetic of its positions, for delays of
any length. `SubFrameRepacked` is the step of the output proof: a blocker, a framer and
the chunk in between together delay by one block. `AlwaysInOrder`, `OnlyAFullQueueLoses`,
`OnlyWholeRunsCount` and `SaturationAlwaysFlagged` hold for every caller, `ChecksHold` and
`OutputAlwaysDelayed` for one that asks for the linear output in every call
(`AlwaysAsked`): the run `EchoCanceller3_linear_skipped` shows what happens otherwise.

`ReverbDecayEstimatorProofs`. `PassInv` says that the early reverb has been given no
more blocks than the pass has gone by, less its room once a peak was found; `RegionInv` says that the
regressor has all blocks of the region that the pass has gone by. `StaysInside` needs
`FirstPassFits`, that a pass from the first block, which the early reverb has no room in
yet, still ends inside the filter; the sizes in the code imply it. `AlwaysOneRegion` needs
nothing.

Hypotheses of theorems that are not assumptions of the modules are definitions beside
the theorem, so that the models may still be run without them: `RingsFit`, `AlwaysAsked`,
`FirstPassFits`, `InitialOutlastsChange`, `GuessFits`, `GuessInside`. The default
configuration satisfies all of them; `AlwaysAsked` is a matter of the caller.

Only model-checked: liveness (`QueuedIsRemoved`, `SteadyLagIsFound`,
`SteadyFilterIsEstimated`), which is out of the prover's reach, and the properties
that do not hold, of which the run is the proof. Induction over data is out of reach too; no
model computes anything by recursion, and the proofs do without it.

## What the checks found

1. A caller that asks for the linear output in some calls and not in others makes
   the linear framer overflow: `ProcessRemainingCaptureFrameContent` fills it
   whenever it exists, `ProcessCaptureFrameContent` drains it only on request.
2. `AlignFromExternalDelay` does not limit the total delay; a burst of render calls
   takes it beyond the rings.
3. With `use_stationarity_properties`, off by default, the window of spectra whose
   stationarity is judged can reach past the newest one into the oldest of the ring
   (`WindowIsConsecutive`). `echo_audibility.cc:59` counts the spectra newer than the one at
   the delay as `Headroom() - delay + 1`, one too many for a delay of 0, which is the guess
   until the filter has found one. The run meets it in its shortest behaviour: seven render
   blocks, a capture block aligned to an estimate of 1, one newer spectrum, a lookahead of
   2, and blocks 6, 7 and 1 in the window. There is a second way into the same window,
   behind the first and thus not in the trace: when underruns let the read position catch up
   with the write position, `Headroom` takes that for a full ring (`render_buffer.h:87-89`),
   and every delay shorter than the lookahead looks too far ahead. Correcting either alone leaves the property violated;
   with both corrected TLC finds no violation in this instance.
4. A reset of the delay confidence is documented to be like a restart of the call,
   but the clockdrift detector keeps its level.
5. `AecState::InitialState::Reset` leaves `transition_triggered_` as it is. A delay change
   in the block after the initial state ended puts subtractor and suppressor back to the
   initial parameters, and the stale flag takes them on to the regular ones at once: the
   new initial state runs with them. When it ends, the filter is told to grow to the
   length it already has; the float average can then take its last partition away for a
   block (13 partitions over 250 blocks are 12 in two of them), with the analyzer's peak
   in it. `GrowsToItself` is this case, which `PeakInsideFilter` and `DelayInsideFilter`
   leave out.

The hazards in `PROJECT.json` list further spots that contradict no doc: a render
overrun that the next `BufferRender` overwrites, the ignored event of excess
render data, underruns that are never counted, lag 0, which can never win the vote, the
saturation flag that a delay change takes back, and an initial state shorter than the
change of the filter size, in which a filter shrinks in the middle of growing
(`GrowsSteadily` is stated for longer ones, as the default's is). With a fixed capture
delay the saturation flag is ahead of the samples by that delay. Not worth a model, but
seen while writing them: `Validate` lets `default_delay` be longer than the rings, which
fails a check in the constructor; it accepts a `config_change_duration_blocks` of 0, which
fails a check in the constructor of the update gains, and thresholds of 250 for a vote
among 250 lags, which none can exceed; a gain change in the block of a delay change keeps
`MainFilterUpdateGain` from restarting its counters; the first region the analyzer looks
at after a reset begins at sample 1; a filter of fewer than 9 blocks makes the number of
numerators in `ReverbDecayEstimator` negative, and one with exactly 9 sections leaves it
nothing to take the minimum of; ten seconds without a render call are reported as a
minimum jitter of 50 and a maximum of 0; an external delay before the first proper render
block keeps the render noise estimate from ever beginning.

## Not modelled

By lines most of the repository is vendored (Abseil, jsoncpp, parts of WebRTC's
`rtc_base`), and most of the rest computes samples, spectra and gains in float: matched
filters, decimator, FFT, adaptation, ERL and ERLE, suppression gain, comfort noise,
filter banks, resampling. None of that has states a model checker could tell apart or an
order of steps that could go wrong, and a table of its arithmetic would show nothing.
What keeps state across calls, indexes something, counts or decides is modelled,
except where `PROJECT.json` says otherwise with the reason. The share of modelled
lines is therefore small and will stay so.

Samples, filters, spectra and their estimators; logging, data dumps and counters
nothing reads; third-party code; configuration parsing. Memory orders weaker than
those of the code: `SwapQueue` treats every access as atomic and in program order,
which acquire and release justify for the one counter both threads share. `Clear`
uses a relaxed exchange; the slots it frees were not touched by the consumer.

Of the echo remover: whether a block adapts a filter (the excitation and call
counters of the update gains; the model takes every block to adapt, which can only
leave more behind), ERL, ERLE, reverb and audibility estimates, the echo saturation
flag, several capture channels, `use_linear_filter` off, and what is done to samples
with the modes that `AecState` decides.

## Plan

Done: the queue, framing with delay, saturation flag and call metrics, the render
history, the block processor, the delay estimation control, the control of the echo
remover, the audibility's way through the render history, the reverb decay passes, with
the proofs above.

Next, in this order:
1. `BlockProcessor` with `RenderDelayController` in place of the abstract controller, the
   abstract one shown to be implemented.
2. The render delay buffer's limits for external delays: how long a burst has to be for the
   total delay to leave the rings, as a theorem instead of the one counterexample.
3. `AlignmentMixer`'s channel selection and the nearend detector's hold counters, if a
   property of theirs turns out to depend on more than levels.
