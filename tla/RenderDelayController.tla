------------------------- MODULE RenderDelayController -------------------------
(***************************************************************************)
(* RenderDelayController and EchoPathDelayEstimator                        *)
(* (src/audio_processing/aec3/render_delay_controller.cc,                  *)
(* echo_path_delay_estimator.cc), with the lag aggregator and the          *)
(* clockdrift detector they own: from the lags of the matched filters to   *)
(* the delay, in blocks, that the render delay buffer is aligned to.       *)
(*                                                                         *)
(* Lags are in decimated samples, delay_samples_ in samples, delay_ in     *)
(* blocks.  The matched filters (external here) may report any lag for any *)
(* block.  Counters nothing reads (capture_call_counter_,                  *)
(* delay_change_counter_, the ages in DelayEstimate) and the metrics are   *)
(* left out.                                                               *)
(***************************************************************************)
EXTENDS MatchedFilterLagAggregator, ClockdriftDetector

CONSTANTS
  DownSamplingFactor,  \* config.delay.down_sampling_factor, 4.
  BlockSize,           \* kBlockSize, 64.
  HeadroomSamples,     \* config.delay.delay_headroom_samples, 32.
  HysteresisLimit,     \* config.delay.hysteresis_limit_blocks, 1.
  ConsistentLimit      \* kNumBlocksPerSecond / 2, 125.

ASSUME UnitsAssumption == DownSamplingFactor \in Nat \ {0} /\ BlockSize \in Nat \ {0}
ASSUME LimitsAssumption == /\ HeadroomSamples \in Nat /\ HysteresisLimit \in Nat
                           /\ ConsistentLimit \in Nat

VARIABLES
  old_aggregated_lag_, consistent_estimate_counter_,  \* EchoPathDelayEstimator.
  delay_, delay_samples_, last_delay_estimate_quality_,
  restarted  \* History: Reset(true) was the last call.

estimatorVars == <<old_aggregated_lag_, consistent_estimate_counter_>>
controllerVars == <<delay_, delay_samples_, last_delay_estimate_quality_>>
vars == <<aggregatorVars, clockdriftVars, estimatorVars, controllerVars, restarted>>

Init ==
  /\ AggregatorInit
  /\ ClockdriftInit
  /\ old_aggregated_lag_ = None /\ consistent_estimate_counter_ = 0
  /\ delay_ = None /\ delay_samples_ = None
  /\ last_delay_estimate_quality_ = "coarse"
  /\ restarted = FALSE

-----------------------------------------------------------------------------
(* EchoPathDelayEstimator.                                                 *)

\* Only refined estimates are watched for drift.
WatchClockdrift ==
  IF aggregated' # None /\ aggregated'.quality = "refined"
  THEN Update(aggregated'.delay)
  ELSE UNCHANGED clockdriftVars

\* Estimates that stay the same for long restart the matched filters, and the
\* count, but neither the vote nor the confidence.
Consistent ==
  old_aggregated_lag_ # None /\ aggregated' # None /\ old_aggregated_lag_.delay = aggregated'.delay
CountConsistent ==
  LET counter == IF Consistent THEN consistent_estimate_counter_ + 1 ELSE 0
      restart == counter > ConsistentLimit
  IN /\ consistent_estimate_counter_' = IF restart THEN 0 ELSE counter
     /\ old_aggregated_lag_' = IF restart THEN None ELSE aggregated'

EstimateDelay(lag) == Aggregate(lag) /\ WatchClockdrift /\ CountConsistent

ResetEstimator(reset_delay_confidence) ==
  /\ AggregatorReset(reset_delay_confidence)
  /\ old_aggregated_lag_' = None
  /\ consistent_estimate_counter_' = 0
  /\ UNCHANGED clockdriftVars

-----------------------------------------------------------------------------
(* RenderDelayController.                                                  *)

\* The delay in blocks, less the headroom.
BlocksOf(samples) ==
  (IF samples > HeadroomSamples THEN samples - HeadroomSamples ELSE 0) \div BlockSize

\* Variant with a mistake: the hysteresis has no upper limit.
UnlimitedHysteresis(current, limit, estimated) ==
  LET new == BlocksOf(estimated.delay) IN
  IF current # None /\ limit > 0 /\ new > current.delay
  THEN [estimated EXCEPT !.delay = current.delay]
  ELSE [estimated EXCEPT !.delay = new]

\* A small increase of the delay is ignored.
ComputeBufferDelay(current, limit, estimated) ==
  LET new == BlocksOf(estimated.delay) IN
  IF current # None /\ new > current.delay /\ new <= current.delay + limit
  THEN [estimated EXCEPT !.delay = current.delay]
  ELSE [estimated EXCEPT !.delay = new]

\* A block without estimate leaves the last one in place.
GetDelay(lag) ==
  /\ EstimateDelay(lag)
  /\ delay_samples_' = IF aggregated' = None THEN delay_samples_
                       ELSE [aggregated' EXCEPT !.delay = @ * DownSamplingFactor]
  /\ IF delay_samples_' = None
     THEN UNCHANGED <<delay_, last_delay_estimate_quality_>>
     ELSE LET use_hysteresis == /\ last_delay_estimate_quality_ = "refined"
                                /\ delay_samples_'.quality = "refined"
          IN /\ delay_' = ComputeBufferDelay(delay_, IF use_hysteresis THEN HysteresisLimit ELSE 0,
                                             delay_samples_')
             /\ last_delay_estimate_quality_' = delay_samples_'.quality
  /\ restarted' = FALSE

Reset(reset_delay_confidence) ==
  /\ ResetEstimator(reset_delay_confidence)
  /\ delay_' = None /\ delay_samples_' = None
  /\ last_delay_estimate_quality_' = IF reset_delay_confidence THEN "coarse"
                                     ELSE last_delay_estimate_quality_
  /\ restarted' = reset_delay_confidence

HasClockdrift == level_ # "none"

Next == \/ \E lag \in Lag \cup {None} : GetDelay(lag)
        \/ \E reset_delay_confidence \in BOOLEAN : Reset(reset_delay_confidence)

Spec == Init /\ [][Next]_vars

-----------------------------------------------------------------------------
(* Properties.                                                             *)

\* Type invariant.
TypeOK ==
  /\ AggregatorTypeOK
  /\ delay_history_ \in [1 .. 3 -> Lag]
  /\ level_ \in {"none", "probable", "verified"}
  /\ stability_counter_ \in 0 .. StabilityLimit + 1
  /\ old_aggregated_lag_ \in DelayEstimate \cup {None}
  /\ consistent_estimate_counter_ \in 0 .. ConsistentLimit
  /\ delay_ \in DelayEstimate \cup {None} /\ delay_samples_ \in DelayEstimate \cup {None}
  /\ last_delay_estimate_quality_ \in {"coarse", "refined"}
  /\ restarted \in BOOLEAN

\* The buffer is never aligned later than the echo: the delay in blocks is at most
\* the estimated one, less the headroom, and the hysteresis costs at most its
\* limit, through any sequence of estimates, gaps and resets.
DelayIsCausal ==
  delay_ # None =>
    /\ delay_samples_ # None
    /\ BlocksOf(delay_samples_.delay) \in delay_.delay .. delay_.delay + HysteresisLimit

\* A verified drift is not taken back to probable by what looks like less, nor by
\* any reset: only more than StabilityLimit unchanged refined estimates clear it.
DriftOnlyClearedByStability ==
  [][level_ = "verified" /\ level_' # "verified" =>
       level_' = "none" /\ stability_counter_' > StabilityLimit]_vars

\* When from some block on the matched filters agree on a lag and nothing is reset,
\* the delay becomes that lag, as a refined estimate, and any clockdrift is
\* forgotten, whatever votes, confidence, hysteresis and drift there were before.
\* Only capture calls that keep coming are needed for that.
Settled(lag) ==
  /\ delay_samples_ = [quality |-> "refined", delay |-> lag * DownSamplingFactor]
  /\ delay_ # None
  /\ ~HasClockdrift
SteadyLagIsFound ==
  \A lag \in Lag \ {0} :
    <>[][GetDelay(lag)]_vars /\ WF_vars(GetDelay(lag)) => <>[]Settled(lag)

\* After a reset of the delay confidence the behaviour is as if the call were
\* restarted (render_delay_controller.h): no clockdrift is reported.
RestartedWithoutClockdrift == restarted => ~HasClockdrift
=============================================================================
