----------------------------- MODULE EchoRemover -----------------------------
(***************************************************************************)
(* EchoRemover (src/audio_processing/aec3/echo_remover.cc): how a change   *)
(* of the echo path goes through AecState, Subtractor and SuppressionGain, *)
(* and how the initial state ends.  A capture block is two steps: what     *)
(* ProcessCapture does before it subtracts the echo (AdjustToChange), and  *)
(* the subtraction with the update of AecState (ProcessBlock); nothing     *)
(* runs in between, the properties look there.                             *)
(*                                                                         *)
(* The delay change of a block comes from the block processor.  The level  *)
(* change and the saturation of the capture signal belong to a frame of    *)
(* alternately two and three blocks (EchoCanceller3).                      *)
(***************************************************************************)
EXTENDS Subtractor, AecState

CONSTANTS
  MaxBlocksPerFrame,     \* kMaxBlocksPerFrame, 3.
  LevelChanges, Saturations, \* What a frame may bring,
  Analyses,              \* what the analyzers may find in a block,
  Verdicts,              \* and what the subtractor may find of its filters.
  MaxBlocks              \* Bound on the number of blocks.

ASSUME AnalysesAssumption ==
  Analyses \subseteq [active_render : BOOLEAN, external_delay : BOOLEAN, consistent : BOOLEAN,
                      converged : BOOLEAN, diverged : BOOLEAN]
ASSUME InputAssumption ==
  /\ LevelChanges \subseteq BOOLEAN /\ Saturations \subseteq BOOLEAN
  /\ Verdicts \subseteq [misadjusted : BOOLEAN, shadow_is_worse : BOOLEAN]
ASSUME BlocksAssumption == MaxBlocks \in Nat /\ MaxBlocksPerFrame \in Nat /\ MaxBlocksPerFrame >= 3

VARIABLES
  subtractor_, aec_state_,
  suppression_initial,     \* SuppressionGain::initial_state_.
  gain_change_hangover_,
  phase,                   \* "adjust" or "subtract".
  level_change, saturation,\* The arguments of ProcessCapture, the same for a whole frame.
  frame_size, left,        \* Blocks in this frame, and those still to come.
  acted                    \* History: gain changes acted on in this frame.

frameVars == <<level_change, saturation, frame_size, left>>
vars == <<subtractor_, aec_state_, suppression_initial, gain_change_hangover_, phase, frameVars,
          acted>>

Init ==
  /\ subtractor_ = NewSubtractor
  /\ aec_state_ = NewAecState
  /\ suppression_initial = TRUE
  /\ gain_change_hangover_ = 0
  /\ phase = "adjust"
  /\ level_change = FALSE /\ saturation = FALSE
  /\ frame_size \in {2, 3} /\ left = 0
  /\ acted = 0

\* The blocks of a capture frame in EchoCanceller3.
BeginFrame ==
  /\ left = 0
  /\ level_change' \in LevelChanges /\ saturation' \in Saturations
  /\ frame_size' = 5 - frame_size /\ left' = 5 - frame_size
  /\ acted' = 0
  /\ UNCHANGED <<subtractor_, aec_state_, suppression_initial, gain_change_hangover_, phase>>

\* Variant with a mistake: the hangover of the shorter frame.
HangoverShort(acts) ==
  LET set == IF acts THEN MaxBlocksPerFrame - 1 ELSE gain_change_hangover_
  IN IF set > 0 THEN set - 1 ELSE 0
\* "Ensure that the gain change is only acted on once per frame."
Hangover(acts) ==
  LET set == IF acts THEN MaxBlocksPerFrame ELSE gain_change_hangover_
  IN IF set > 0 THEN set - 1 ELSE 0

\* Variant with a mistake: the end of the initial state is only looked at together
\* with a change of the echo path.
AdjustOnlyToChange(delay_change) ==
  /\ phase = "adjust"
  /\ left > 0
  /\ aec_state_.transparent.blocks < MaxBlocks
  /\ LET saturated == UpdateCaptureSaturation(aec_state_, saturation)
         aec       == IF delay_change THEN AecReset(saturated) ELSE saturated
         acts      == level_change /\ gain_change_hangover_ = 0
         exits     == aec.initial.transition /\ acts
     IN /\ aec_state_' = aec
        /\ subtractor_' = IF delay_change THEN SubtractorReset(subtractor_)
                          ELSE IF exits THEN ExitInitialState(subtractor_) ELSE subtractor_
        /\ suppression_initial' = IF delay_change THEN TRUE ELSE suppression_initial /\ ~exits
        /\ gain_change_hangover_' = Hangover(acts)
        /\ acted' = acted + Count(acts)
  /\ phase' = "subtract"
  /\ UNCHANGED frameVars

\* ProcessCapture up to the state transition.
AdjustToChange(delay_change) ==
  /\ phase = "adjust"
  /\ left > 0
  /\ aec_state_.transparent.blocks < MaxBlocks
  /\ LET saturated == UpdateCaptureSaturation(aec_state_, saturation)
         aec       == IF delay_change THEN AecReset(saturated) ELSE saturated
         reset     == IF delay_change THEN SubtractorReset(subtractor_) ELSE subtractor_
         acts      == level_change /\ gain_change_hangover_ = 0
     IN /\ aec_state_' = aec
        /\ subtractor_' = IF aec.initial.transition THEN ExitInitialState(reset) ELSE reset
        /\ suppression_initial' =
             (~aec.initial.transition /\ (delay_change \/ suppression_initial))
        /\ gain_change_hangover_' = Hangover(acts)
        /\ acted' = acted + Count(acts)
  /\ phase' = "subtract"
  /\ UNCHANGED frameVars

\* Subtractor::Process and AecState::Update, on the impulse response of the main
\* filter.
ProcessBlock ==
  /\ phase = "subtract"
  /\ \E mainSize \in NextSizes(subtractor_.main_filter),
        shadowSize \in NextSizes(subtractor_.shadow_filter),
        verdict \in Verdicts, found \in Analyses :
       /\ subtractor_' = SubtractorProcess(subtractor_, mainSize, shadowSize,
                                           verdict.misadjusted, verdict.shadow_is_worse)
       /\ \E peak \in PeakCandidates(aec_state_.analyzer, BlockSize * mainSize) :
            aec_state_' = AecUpdate(aec_state_,
                                    [filter_size |-> BlockSize * mainSize, peak_index |-> peak,
                                     active_render |-> found.active_render,
                                     external_delay |-> found.external_delay,
                                     consistent |-> found.consistent,
                                     converged |-> found.converged,
                                     diverged |-> found.diverged])
  /\ phase' = "adjust"
  /\ left' = left - 1
  /\ UNCHANGED <<suppression_initial, gain_change_hangover_, level_change, saturation, frame_size,
                 acted>>

Next == BeginFrame \/ (\E delay_change \in BOOLEAN : AdjustToChange(delay_change)) \/ ProcessBlock

Spec == Init /\ [][Next]_vars

-----------------------------------------------------------------------------
(* Properties.                                                             *)

Filters == {subtractor_.main_filter, subtractor_.shadow_filter}
Gains == {subtractor_.main_gain, subtractor_.shadow_gain}

FilterType(max) ==
  [max : {max}, current : 1 .. max, target : 1 .. max, old_target : 1 .. max,
   change_counter : 0 .. ChangeDuration, partition_to_constrain : 0 .. max - 1,
   H : [0 .. max - 1 -> {"zero", "live", "stale"}]]
Config == {"initial", "between", "regular"}

\* Type invariant; the counters of size and gain changes stay within their duration
\* (the RTC_DCHECKs of UpdateSize and UpdateCurrentConfig).
TypeOK ==
  /\ subtractor_.main_filter \in FilterType(MainLength)
  /\ subtractor_.shadow_filter \in FilterType(ShadowLength)
  /\ Gains \subseteq [current : Config, target : Config, old_target : Config,
                      change_counter : 0 .. ChangeDuration]
  /\ subtractor_.poor_shadow_filter_counter \in 0 .. PoorShadowLimit - 1
  /\ aec_state_.delay.min \in 0 .. MainLength
  /\ suppression_initial \in BOOLEAN
  /\ gain_change_hangover_ \in 0 .. MaxBlocksPerFrame
  /\ phase \in {"adjust", "subtract"}
  /\ level_change \in BOOLEAN /\ saturation \in BOOLEAN
  /\ frame_size \in {2, 3} /\ left \in 0 .. 3 /\ acted \in 0 .. 3

\* Partitions that come into use again, after a size change up, down and up, do not
\* bring back coefficients from before (ZeroFilter).
NoStalePartition == \A f \in Filters : \A p \in 0 .. f.current - 1 : f.H[p] # "stale"

\* The cyclic constraint always works on a partition in use, whatever the size does
\* (Constrain indexes H_ with it).
ConstrainsPartitionInUse == \A f \in Filters : f.partition_to_constrain < f.current

\* While a filter grows to its regular size, it does not become shorter in between,
\* nor longer than that (UpdateSize).  This takes an initial state that is longer
\* than the change, as the default's is; else growth may start over in the middle.
GrowsSteadily ==
  [][phase = "subtract" =>
       \A f \in {"main_filter", "shadow_filter"} :
         LET before == subtractor_[f] IN
         before.old_target < before.target
           => subtractor_'[f].current \in before.current .. before.target]_vars

\* Both filters, both gains and the suppressor are always headed for the same
\* parameters: all for those of the initial state or all for the regular ones,
\* whatever delay changes and transitions do to them.
ConfigurationsAgree ==
  /\ \A g \in Gains : g.target = IF suppression_initial THEN "initial" ELSE "regular"
  /\ subtractor_.main_filter.target = IF suppression_initial THEN MainInitialLength ELSE MainLength
  /\ subtractor_.shadow_filter.target =
       IF suppression_initial THEN ShadowInitialLength ELSE ShadowLength

\* The end of the initial state is announced for one block only; it is never
\* missed: whenever the state is over, the regular parameters are targeted.
TransitionNotMissed ==
  ~aec_state_.initial.state /\ ~aec_state_.initial.transition => ~suppression_initial

\* "Class for controlling the transition from the intial state, which in turn
\* controls when the filter parameters for the initial state should be used"
\* (aec_state.h): in the initial state they are used.
InitialParametersInInitialState ==
  phase = "subtract" /\ aec_state_.initial.state => suppression_initial

\* A level change is acted on at most once per frame, although it is passed with
\* each of its two or three blocks ("Ensure that the gain change is only acted on
\* once per frame", echo_remover.cc).
GainChangeOncePerFrame == acted <= 1

\* A filter of full length is told to grow to that length.  It may then lose its
\* last partition to rounding for a block: peak and delay can be in it.
GrowsToItself(f) == f.change_counter > 0 /\ f.old_target = f.target

\* The peak the analyzer remembers lies inside the impulse response it looks at
\* next, although that gets shorter at delay changes (the RTC_DCHECKs in
\* AnalyzeRegion), other than when GrowsToItself.
PeakInsideFilter ==
  [][phase = "subtract" /\ ~GrowsToItself(subtractor_.main_filter)
       => aec_state_.analyzer.peak_index < BlockSize * subtractor_'.main_filter.current]_vars

\* After every block the filter delay is inside the filter in use, where the next
\* block reads render spectra with it, other than when GrowsToItself.
DelayInsideFilter ==
  phase = "adjust" /\ ~GrowsToItself(subtractor_.main_filter)
    => aec_state_.delay.min < subtractor_.main_filter.current

\* Four classes count the blocks of strong unsaturated render since the last delay
\* change, each for itself; they agree.
CountersInStep ==
  aec_state_.initial.strong = aec_state_.strong
  /\ aec_state_.transparent.strong = aec_state_.strong
  /\ aec_state_.quality.since_reset = aec_state_.strong

\* After every block, the suppressor is not told to be transparent and to use the
\* linear filter both.
TransparentOrLinear ==
  phase = "adjust" => ~(aec_state_.transparent.active /\ aec_state_.quality.usable)
=============================================================================
