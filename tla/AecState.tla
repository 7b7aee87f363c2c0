------------------------------ MODULE AecState ------------------------------
(***************************************************************************)
(* AecState (src/audio_processing/aec3/aec_state.cc) and the FilterAnalyzer*)
(* it owns: in which mode the echo remover works.  Its state is a record   *)
(* with a part per class; an operation maps it to the next one.            *)
(*                                                                         *)
(* Whether render is active, which sample of the analysed region is the    *)
(* peak, whether the filter is consistent, converged or diverged is up to  *)
(* the samples: inputs.  ERL, ERLE, reverb and audibility estimates and    *)
(* the echo saturation flag, which only the suppressor reads, are left out.*)
(***************************************************************************)
EXTENDS Integers, FiniteSetsExt

CONSTANTS
  BlockSize,             \* kBlockSize, 64 samples.
  InitialStateBlocks,    \* Length of the initial state: 5 or initial_state_seconds seconds (0 to 100).
  DelayGuessBlocks,      \* 2 seconds: until then the filter delay is a guess,
  DelayGuess,            \* delay_headroom_samples / kBlockSize.
  UsableSinceStart,      \* 0.4 and 0.2 seconds: render the linear filter needs
  UsableSinceReset,      \* before it is used.
  SaneFilterAtStart,     \* 5 seconds: blocks in which a sane filter is not yet missed.
  SaneFilterRecently,    \* 30 seconds.
  ConvergedBlocks,       \* 50.
  NonConvergedLimit,     \* 20 seconds.
  ActiveNonConvergedLimit, \* 60 seconds.
  DivergedLimit,         \* 60.
  ShouldHaveConverged,   \* 6 seconds.
  BoundedErl,            \* config.ep_strength.bounded_erl.
  LinearAndStable        \* config.echo_removal_control.linear_and_stable_echo_path.

ASSUME ThresholdAssumption ==
  /\ {BlockSize, DivergedLimit} \subseteq Nat \ {0}
  /\ {InitialStateBlocks, DelayGuessBlocks, DelayGuess, UsableSinceStart, UsableSinceReset,
      SaneFilterAtStart, SaneFilterRecently, ConvergedBlocks, NonConvergedLimit,
      ActiveNonConvergedLimit, ShouldHaveConverged} \subseteq Nat
ASSUME ConfigAssumption == BoundedErl \in BOOLEAN /\ LinearAndStable \in BOOLEAN

\* kBlocksSinceConvergencedFilterInit, 10000 and more than the limits.
LongAgo == NonConvergedLimit + SaneFilterRecently

\* FilterAnalyzer::Reset and what AecState holds at the start.
AnalyzerReset == [start_sample |-> 0, end_sample |-> 0, peak_index |-> 0]

NewAecState ==
  [saturated |-> FALSE,
   strong |-> 0,
   analyzer |-> AnalyzerReset,
   delay |-> [external |-> FALSE, min |-> 0],
   initial |-> [state |-> TRUE, transition |-> FALSE, strong |-> 0],
   transparent |-> [active |-> FALSE, blocks |-> 0, strong |-> 0,
                    sane_observed |-> FALSE, since_sane |-> LongAgo,
                    finite_erl |-> FALSE, recent_convergence |-> FALSE,
                    non_converged |-> LongAgo, active_non_converged |-> 0,
                    converged |-> 0, diverged |-> 0],
   quality |-> [usable |-> FALSE, since_start |-> 0, since_reset |-> 0,
                convergence_seen |-> FALSE]]

UpdateCaptureSaturation(a, saturated) == [a EXCEPT !.saturated = saturated]

-----------------------------------------------------------------------------
(* Echo path changes.                                                      *)

\* InitialState::Reset leaves transition_triggered_ as it was.
InitialStateReset(i) == [i EXCEPT !.state = TRUE, !.strong = 0]

\* TransparentMode::Reset leaves transparency_activated_ as it was.
TransparentReset(t) ==
  [t EXCEPT !.non_converged = LongAgo, !.diverged = 0, !.strong = 0,
            !.recent_convergence = @ /\ ~LinearAndStable]

QualityReset(q) == [q EXCEPT !.usable = FALSE, !.since_reset = 0]

\* Variants with a mistake: parts that are not reset.
AecResetWithoutTransparent(a) ==
  [a EXCEPT !.analyzer = AnalyzerReset, !.saturated = FALSE, !.strong = 0,
            !.initial = InitialStateReset(@), !.quality = QualityReset(@)]
AecResetWithoutAnalyzer(a) ==
  [a EXCEPT !.saturated = FALSE, !.strong = 0, !.initial = InitialStateReset(@),
            !.transparent = TransparentReset(@), !.quality = QualityReset(@)]

\* The full_reset of HandleEchoPathChange, for a delay change.
AecReset(a) ==
  [a EXCEPT !.analyzer = AnalyzerReset, !.saturated = FALSE, !.strong = 0,
            !.initial = InitialStateReset(@), !.transparent = TransparentReset(@),
            !.quality = QualityReset(@)]

-----------------------------------------------------------------------------
(* Update, part by part.  in is the record of inputs: filter_size, the     *)
(* samples in the impulse response; peak_index, the peak among the old one *)
(* and those of the region; external_delay, whether there is one;          *)
(* active_render, consistent, converged and diverged.                      *)

Count(condition) == IF condition THEN 1 ELSE 0

SetRegionToAnalyze(r, filterSize) ==
  LET start == IF r.end_sample >= filterSize - 1 THEN 0 ELSE r.end_sample + 1
  IN [r EXCEPT !.start_sample = start, !.end_sample = Min({start + BlockSize - 1, filterSize - 1})]

\* Where the peak may be after an update of the analyzer.
PeakCandidates(r, filterSize) ==
  LET region == SetRegionToAnalyze(r, filterSize)
  IN {r.peak_index} \cup (region.start_sample .. region.end_sample)

AnalyzerUpdate(r, in) ==
  [SetRegionToAnalyze(r, in.filter_size) EXCEPT !.peak_index = in.peak_index]

\* Variant with a mistake: until the filter had time to converge the old delay is kept.
FilterDelayKept(d, in, strong, analyzed) ==
  LET external == d.external \/ in.external_delay
  IN [external |-> external,
      min |-> IF strong < DelayGuessBlocks /\ external THEN d.min ELSE analyzed]

FilterDelayUpdate(d, in, strong, analyzed) ==
  LET external == d.external \/ in.external_delay
  IN [external |-> external,
      min |-> IF strong < DelayGuessBlocks /\ external THEN DelayGuess ELSE analyzed]

InitialStateUpdate(i, adapting) ==
  LET strong == i.strong + Count(adapting)
      state  == strong < InitialStateBlocks
  IN [state |-> state, transition |-> ~state /\ i.state, strong |-> strong]

\* TransparentMode::Update, first the counters, then the flags that depend on them.
\* diverged_sequence_size_ at its limit puts the last convergence long ago.
TransparentCounters(t, in, delay, adapting) ==
  LET sane     == in.consistent /\ delay < 5
      diverged == IF in.diverged THEN t.diverged + 1 ELSE 0
  IN [t EXCEPT
        !.blocks = @ + 1,
        !.strong = @ + Count(adapting),
        !.sane_observed = @ \/ sane,
        !.since_sane = IF sane THEN 0 ELSE @ + Count(in.active_render),
        !.non_converged = IF diverged >= DivergedLimit THEN LongAgo
                          ELSE IF in.converged THEN 0 ELSE @ + 1,
        !.active_non_converged = IF in.converged THEN 0 ELSE @ + Count(in.active_render),
        !.converged = IF in.converged THEN @ + 1
                      ELSE IF t.non_converged + 1 > NonConvergedLimit THEN 0 ELSE @,
        !.diverged = diverged,
        !.recent_convergence =
          \/ in.converged
          \/ @ /\ ~(in.active_render /\ t.active_non_converged + 1 > ActiveNonConvergedLimit)]

FiniteErl(t) == \/ t.finite_erl /\ t.active_non_converged <= ActiveNonConvergedLimit
                \/ t.converged > ConvergedBlocks

SaneFilterSeen(t) == IF t.sane_observed THEN t.since_sane <= SaneFilterRecently
                     ELSE t.blocks <= SaneFilterAtStart

TransparentUpdate(t, in, delay, adapting) ==
  LET next == TransparentCounters(t, in, delay, adapting)
      erl  == FiniteErl(next)
  IN [next EXCEPT !.finite_erl = erl,
                  !.active = /\ ~BoundedErl /\ ~erl
                             /\ ~(SaneFilterSeen(next) /\ next.recent_convergence)
                             /\ next.strong > ShouldHaveConverged]

QualityUpdate(q, in, transparentMode, adapting) ==
  LET start == q.since_start + Count(adapting)
      reset == q.since_reset + Count(adapting)
      seen  == q.convergence_seen \/ in.converged
  IN [since_start |-> start, since_reset |-> reset, convergence_seen |-> seen,
      usable |-> /\ start > UsableSinceStart /\ reset > UsableSinceReset
                 /\ in.external_delay \/ seen
                 /\ ~transparentMode]

\* Variant with a mistake: the transparent mode of the block before is used.
AecUpdateTransparentLast(a, in) ==
  LET adapting == in.active_render /\ ~a.saturated
      analyzer == AnalyzerUpdate(a.analyzer, in)
      delay    == FilterDelayUpdate(a.delay, in, a.strong, analyzer.peak_index \div BlockSize)
  IN [a EXCEPT !.analyzer = analyzer, !.delay = delay, !.strong = @ + Count(adapting),
               !.initial = InitialStateUpdate(@, adapting),
               !.transparent = TransparentUpdate(@, in, delay.min, adapting),
               !.quality = QualityUpdate(@, in, a.transparent.active, adapting)]

AecUpdate(a, in) ==
  LET adapting    == in.active_render /\ ~a.saturated
      analyzer    == AnalyzerUpdate(a.analyzer, in)
      delay       == FilterDelayUpdate(a.delay, in, a.strong, analyzer.peak_index \div BlockSize)
      transparent == TransparentUpdate(a.transparent, in, delay.min, adapting)
  IN [a EXCEPT !.analyzer = analyzer, !.delay = delay, !.strong = @ + Count(adapting),
               !.initial = InitialStateUpdate(@, adapting),
               !.transparent = transparent,
               !.quality = QualityUpdate(@, in, transparent.active, adapting)]
=============================================================================
