------------------------- MODULE ReverbDecayEstimator -------------------------
(***************************************************************************)
(* ReverbDecayEstimator (src/audio_processing/aec3/                        *)
(* reverb_decay_estimator.cc) with adaptive decay: it looks at one block   *)
(* of the filter's impulse response per call, pass after pass from behind  *)
(* the peak to the end of the filter.  What a pass finds out about the     *)
(* region of late reverb decides over which blocks the next pass fits the  *)
(* decay; that pass ends in an estimate if it saw all of them.  Any call   *)
(* may come with a filter that is not fit for it, which starts it all over.*)
(*                                                                         *)
(* Gains and tilts are left to the environment, smoothing_constant_ is     *)
(* only zero or not, counts of samples are counts of blocks.  A failed     *)
(* RTC_DCHECK ends the program: aborted.                                   *)
(***************************************************************************)
EXTENDS Integers, Sequences

CONSTANTS
  FilterLength,        \* config.filter.main.length_blocks, 13.
  EarlyReverbMinSize,  \* kEarlyReverbMinSizeBlocks, 3.
  BlocksPerSection,    \* kBlocksPerSection, 6.
  SectionsToAnalyze,   \* kNumSectionsToAnalyze, 9.
  LateReverbMinSize    \* Late reverb shorter than 5 blocks is not used.

ASSUME SizesAssumption ==
  /\ FilterLength \in Nat \ {0} /\ EarlyReverbMinSize \in Nat \ {0} /\ BlocksPerSection \in Nat \ {0}
  /\ SectionsToAnalyze \in Nat \ {0} /\ LateReverbMinSize \in Nat \ {0}
\* The numerators of the early reverb, one per section, must not be less than none.
ASSUME SectionsAssumption == FilterLength >= EarlyReverbMinSize + BlocksPerSection

VARIABLES
  block_to_analyze_,
  estimation_region_candidate_size_, estimation_region_identified_,
  smoothing,                      \* smoothing_constant_ # 0.
  late_reverb_start_, late_reverb_end_,
  N_, n_,                         \* Points the late regressor waits for, and has.
  block_counter_, n_sections_,    \* Of the early reverb length estimator.
  aborted,
  fitted,                         \* History: the blocks in the late regressor.
  estimated                       \* History: the last call ended in a new estimate.

regionVars == <<estimation_region_candidate_size_, estimation_region_identified_>>
lateVars == <<late_reverb_start_, late_reverb_end_, N_>>
pointVars == <<n_, fitted>>
earlyVars == <<block_counter_, n_sections_>>
vars == <<block_to_analyze_, regionVars, smoothing, lateVars, pointVars, earlyVars, aborted, estimated>>

Sections == FilterLength - EarlyReverbMinSize - BlocksPerSection

\* The longest delay an estimate is feasible for.
MaxPeak == FilterLength - EarlyReverbMinSize - 1

Init ==
  /\ block_to_analyze_ = 0
  /\ estimation_region_candidate_size_ = 0 /\ estimation_region_identified_ = FALSE
  /\ smoothing = FALSE
  /\ late_reverb_start_ = EarlyReverbMinSize /\ late_reverb_end_ = EarlyReverbMinSize
  /\ N_ = 0 /\ n_ = 0 /\ fitted = <<>>
  /\ block_counter_ = 0 /\ n_sections_ = 0
  /\ aborted = FALSE /\ estimated = FALSE

-----------------------------------------------------------------------------
(* The parts.                                                              *)

\* LateReverbLinearRegressor::Reset.
ResetLate(points) == N_' = points /\ n_' = 0 /\ fitted' = <<>>
EstimateAvailable == n_ = N_ /\ N_ # 0

\* EarlyReverbLengthEstimator::Reset leaves the number of sections as it is.
ResetEarly == block_counter_' = 0 /\ UNCHANGED n_sections_

\* EarlyReverbLengthEstimator::Accumulate, for the samples of a block: behind the
\* first BlocksPerSection blocks each one completes a section.
AccumulateEarly ==
  LET section == block_counter_ - (BlocksPerSection - 1) IN
  /\ block_counter_' = block_counter_ + 1
  /\ n_sections_' = IF section >= 0 THEN section + 1 ELSE n_sections_
  /\ aborted' = (section >= Sections)

\* EarlyReverbLengthEstimator::Estimate: the last section that is not yet late
\* reverb, found by its tilt, decides.
EarlyReverbSizes ==
  IF n_sections_ < SectionsToAnalyze THEN {0} ELSE {0} \cup 2 .. SectionsToAnalyze

-----------------------------------------------------------------------------
(* Update.                                                                 *)

\* A delay of zero, one too close to the end, a filter that is not of full length
\* or one that is not usable.
ResetDecayEstimation ==
  /\ ~aborted
  /\ ResetEarly
  /\ ResetLate(0)
  /\ block_to_analyze_' = 0
  /\ estimation_region_candidate_size_' = 0 /\ estimation_region_identified_' = FALSE
  /\ smoothing' = FALSE
  /\ late_reverb_start_' = 0 /\ late_reverb_end_' = 0
  /\ estimated' = FALSE
  /\ UNCHANGED aborted

\* Variant with a mistake: a filter whose peak is in the first block will do.
FeasibleAtZero == 0 .. MaxPeak

\* The filter delays, that is, positions of the peak, an estimate is feasible for.
FeasiblePeaks == 1 .. MaxPeak

\* Analysis goes on as long as one of the calls of the pass had a filter quality.
MayAnalyze(quality) ==
  /\ ~aborted
  /\ smoothing \/ quality

\* AnalyzeFilter: the blocks from the start of the pass are counted as long as they
\* are good, that is, above the noise floor and as they were in the last pass.
AnalyzeFilter(quality, good) ==
  /\ MayAnalyze(quality)
  /\ block_to_analyze_ < FilterLength
  /\ smoothing' = TRUE
  /\ estimation_region_identified_' = (estimation_region_identified_ \/ ~good)
  /\ estimation_region_candidate_size_' =
       estimation_region_candidate_size_ + (IF estimation_region_identified_' THEN 0 ELSE 1)
  /\ IF block_to_analyze_ <= late_reverb_end_
     THEN AccumulateEarly
     ELSE UNCHANGED <<earlyVars, aborted>>
  /\ IF block_to_analyze_ \in late_reverb_start_ .. late_reverb_end_
     THEN n_' = n_ + 1 /\ fitted' = Append(fitted, block_to_analyze_)
     ELSE UNCHANGED pointVars
  /\ block_to_analyze_' = block_to_analyze_ + 1
  /\ estimated' = FALSE
  /\ UNCHANGED lateVars

\* Variant with a mistake: a region once identified stays so.
NextPassRegionKept(peak, valid, sufficient) ==
  /\ block_to_analyze_' = peak + EarlyReverbMinSize
  /\ estimation_region_identified_' = (estimation_region_identified_ \/ ~(valid /\ sufficient))
  /\ estimation_region_candidate_size_' = 0
  /\ smoothing' = FALSE
  /\ ResetEarly
  /\ aborted' = (peak + EarlyReverbMinSize >= FilterLength)

\* The pass is over; the next one starts inside the filter.  A valid filter has a peak that is not too high and decays;
\* decay that is sufficient is needed on top of that for the next pass to look for
\* the region of late reverb.
NextPass(peak, valid, sufficient) ==
  /\ block_to_analyze_' = peak + EarlyReverbMinSize
  /\ estimation_region_identified_' = ~(valid /\ sufficient)
  /\ estimation_region_candidate_size_' = 0
  /\ smoothing' = FALSE
  /\ ResetEarly
  /\ aborted' = (peak + EarlyReverbMinSize >= FilterLength)

\* Variant with a mistake: too short a region of late reverb leaves the regressor
\* as it is.
EstimateDecayLateKept(quality, peak, valid, sufficient, early) ==
  LET late == estimation_region_candidate_size_ - early IN
  /\ MayAnalyze(quality)
  /\ block_to_analyze_ >= FilterLength
  /\ early \in EarlyReverbSizes
  /\ IF late >= LateReverbMinSize
     THEN /\ estimated' = (valid /\ EstimateAvailable)
          /\ ResetLate(late)
          /\ late_reverb_start_' = peak + EarlyReverbMinSize + early
          /\ late_reverb_end_' = peak + EarlyReverbMinSize + estimation_region_candidate_size_ - 1
     ELSE estimated' = FALSE /\ UNCHANGED <<lateVars, pointVars>>
  /\ NextPass(peak, valid, sufficient)

\* EstimateDecay: an estimate needs that this pass found late reverb behind the
\* early one and that the regressor is full.  The region found is the one the next
\* pass fits.
EstimateDecay(quality, peak, valid, sufficient, early) ==
  LET late == estimation_region_candidate_size_ - early IN
  /\ MayAnalyze(quality)
  /\ block_to_analyze_ >= FilterLength
  /\ early \in EarlyReverbSizes
  /\ IF late >= LateReverbMinSize
     THEN /\ estimated' = (valid /\ EstimateAvailable)
          /\ ResetLate(late)
          /\ late_reverb_start_' = peak + EarlyReverbMinSize + early
          /\ late_reverb_end_' = peak + EarlyReverbMinSize + estimation_region_candidate_size_ - 1
     ELSE estimated' = FALSE /\ ResetLate(0) /\ late_reverb_start_' = 0 /\ late_reverb_end_' = 0
  /\ NextPass(peak, valid, sufficient)

\* A valid filter need not decay enough for its region to be looked for, and one
\* that decays enough may have too high a peak.
Next ==
  \/ ResetDecayEstimation
  \/ \E quality, good \in BOOLEAN : AnalyzeFilter(quality, good)
  \/ \E quality, valid, sufficient \in BOOLEAN, peak \in FeasiblePeaks, early \in 0 .. SectionsToAnalyze :
       EstimateDecay(quality, peak, valid, sufficient, early)

Spec == Init /\ [][Next]_vars

-----------------------------------------------------------------------------
(* Properties.                                                             *)

\* No section is counted beyond the numerators there is room for, and no block looked
\* at behind the end of the filter (the RTC_DCHECKs of Accumulate and
\* BlockEnergyAverage), whatever peaks and resets cut the passes: there is room for
\* FilterLength - EarlyReverbMinSize blocks, and only a pass that starts behind that
\* many or ends early stays inside.
NothingBeyondTheFilter == ~aborted

\* Whenever there is an estimate it is a line through one unbroken stretch of the
\* filter, placed behind the peak and as long as the last pass found it good, each
\* block of it once and in order, however the peak moved and wherever passes were cut
\* short in between.  The
\* regressor weighs its points by their number, so that anything else is wrong.
EstimateFromOneRegion ==
  N_ # 0 =>
    /\ N_ = late_reverb_end_ - late_reverb_start_ + 1
    /\ n_ <= N_
    /\ fitted = [i \in 1 .. n_ |-> late_reverb_start_ + i - 1]

\* A filter that from some call on has its peak at the same place and decays over
\* enough blocks behind the early reverb, however long that is found to be each
\* time, gives estimates again and again, whatever was analyzed before.  Only
\* capture calls that keep coming are needed for that.
SteadyCall(peak) ==
  \/ AnalyzeFilter(TRUE, TRUE)
  \/ \E early \in 0 .. FilterLength - peak - EarlyReverbMinSize - LateReverbMinSize :
       EstimateDecay(TRUE, peak, TRUE, TRUE, early)
SteadyFilterIsEstimated ==
  \A peak \in 1 .. FilterLength - EarlyReverbMinSize - LateReverbMinSize :
    <>[][SteadyCall(peak)]_vars /\ WF_vars(SteadyCall(peak)) => []<>estimated
=============================================================================
