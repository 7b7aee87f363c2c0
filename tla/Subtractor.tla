----------------------------- MODULE Subtractor -----------------------------
(***************************************************************************)
(* Subtractor (src/audio_processing/aec3/subtractor.cc): a main and a      *)
(* shadow filter with their update gains, for one capture channel.  Sizes  *)
(* and gain parameters start with the values for the initial state, move   *)
(* to the regular ones over ChangeDuration blocks when that state ends,    *)
(* and go back at once when the delay changes.  Whether a filter is worse  *)
(* than the other or misadjusted is up to the samples and is an input.     *)
(***************************************************************************)
EXTENDS AdaptiveFirFilter

CONSTANTS
  MainLength, MainInitialLength,       \* config.filter.main, main_initial: length_blocks.
  ShadowLength, ShadowInitialLength,   \* config.filter.shadow, shadow_initial: length_blocks.
  PoorShadowLimit                      \* 5.

ASSUME LengthAssumption ==
  /\ MainLength \in Nat /\ ShadowLength \in Nat
  /\ MainInitialLength \in 1 .. MainLength
  /\ ShadowInitialLength \in 1 .. ShadowLength
  /\ PoorShadowLimit \in Nat \ {0}

\* Parameters of an update gain: those of the initial state, the regular ones, or
\* an average of both.
NewGain == [current |-> "initial", target |-> "initial", old_target |-> "initial",
            change_counter |-> 0]

SetConfig(g, config, immediate) ==
  IF immediate
  THEN [current |-> config, target |-> config, old_target |-> config, change_counter |-> 0]
  ELSE [g EXCEPT !.old_target = g.current, !.target = config, !.change_counter = ChangeDuration]

UpdateCurrentConfig(g) ==
  IF g.change_counter = 0 THEN g
  ELSE IF g.change_counter = 1
  THEN [current |-> g.target, target |-> g.target, old_target |-> g.target, change_counter |-> 0]
  ELSE [g EXCEPT !.change_counter = @ - 1,
                 !.current = IF g.old_target = g.target THEN g.target ELSE "between"]

NewSubtractor ==
  [main_filter |-> NewFilter(MainLength, MainInitialLength),
   shadow_filter |-> NewFilter(ShadowLength, ShadowInitialLength),
   main_gain |-> NewGain, shadow_gain |-> NewGain,
   poor_shadow_filter_counter |-> 0]

\* Variant with a mistake: the filters keep the regular size.
ResetGainsOnly(s) ==
  [s EXCEPT !.main_filter = FilterHandleEchoPathChange(@),
            !.shadow_filter = FilterHandleEchoPathChange(@),
            !.main_gain = SetConfig(@, "initial", TRUE),
            !.shadow_gain = SetConfig(@, "initial", TRUE)]

\* The full_reset of HandleEchoPathChange, for a delay change.  (What a gain change
\* does, the counters that hold adaptation back, is left to the inputs.)
SubtractorReset(s) ==
  [s EXCEPT !.main_filter = SetSizePartitions(FilterHandleEchoPathChange(@),
                                              MainInitialLength, TRUE),
            !.shadow_filter = SetSizePartitions(FilterHandleEchoPathChange(@),
                                                ShadowInitialLength, TRUE),
            !.main_gain = SetConfig(@, "initial", TRUE),
            !.shadow_gain = SetConfig(@, "initial", TRUE)]

\* The end of the initial state: over to the regular parameters.
ExitInitialState(s) ==
  [s EXCEPT !.main_gain = SetConfig(@, "regular", FALSE),
            !.shadow_gain = SetConfig(@, "regular", FALSE),
            !.main_filter = SetSizePartitions(@, MainLength, FALSE),
            !.shadow_filter = SetSizePartitions(@, ShadowLength, FALSE)]

\* Process: a misadjusted main filter is scaled, and its gain not computed.  A
\* shadow filter that was worse for several blocks is replaced by the main filter.
SubtractorProcess(s, mainSize, shadowSize, misadjusted, shadowIsWorse) ==
  LET main     == Adapt(s.main_filter, mainSize)
      counter  == IF shadowIsWorse THEN s.poor_shadow_filter_counter + 1 ELSE 0
      replaced == counter >= PoorShadowLimit
  IN [main_filter   |-> main,
      shadow_filter |-> Adapt(IF replaced THEN SetFilter(s.shadow_filter, main)
                              ELSE s.shadow_filter, shadowSize),
      main_gain     |-> IF misadjusted THEN s.main_gain ELSE UpdateCurrentConfig(s.main_gain),
      shadow_gain   |-> UpdateCurrentConfig(s.shadow_gain),
      poor_shadow_filter_counter |-> IF replaced THEN 0 ELSE counter]
=============================================================================
