---------------------- MODULE ReverbDecayEstimatorProofs ----------------------
(***************************************************************************)
(* Theorems about ReverbDecayEstimator, for filters of every length: two   *)
(* inductive invariants, one about where a pass is and what was counted in *)
(* it, one about what the regressor has been given.                        *)
(***************************************************************************)
EXTENDS ReverbDecayEstimator, TLAPS

\* The sections, as numbers.
LEMMA Sizes ==
  /\ FilterLength \in Nat /\ EarlyReverbMinSize \in Nat \ {0} /\ BlocksPerSection \in Nat \ {0}
  /\ SectionsToAnalyze \in Nat \ {0} /\ LateReverbMinSize \in Nat \ {0}
  /\ Sections = FilterLength - EarlyReverbMinSize - BlocksPerSection
  /\ MaxPeak = FilterLength - EarlyReverbMinSize - 1
  /\ EarlyReverbSizes \subseteq Nat
  /\ FeasiblePeaks \subseteq Nat
BY SizesAssumption, SectionsAssumption DEF Sections, MaxPeak, EarlyReverbSizes, FeasiblePeaks

-----------------------------------------------------------------------------
(* Where a pass is.                                                        *)

\* The numbers are numbers.
NumbersOK ==
  /\ block_to_analyze_ \in 0 .. FilterLength
  /\ block_counter_ \in Nat
  /\ estimation_region_candidate_size_ \in Nat
  /\ late_reverb_start_ \in Nat /\ late_reverb_end_ \in Nat
  /\ N_ \in Nat /\ n_ \in Nat

\* The early reverb has been given no more blocks than the pass has gone by.  A pass
\* behind a peak starts behind more blocks than the early reverb has room for less;
\* one from the first block, after construction or a reset, gives it only few.
EarlyReverbHasRoom ==
  \/ block_counter_ + EarlyReverbMinSize + 1 <= block_to_analyze_
  \/ block_counter_ <= block_to_analyze_ /\ late_reverb_end_ <= EarlyReverbMinSize

PassInv == NumbersOK /\ EarlyReverbHasRoom /\ aborted \in BOOLEAN /\ ~aborted

\* The filter has more blocks than twice the least early reverb and one, as every
\* configuration has: it has 9 or more, which makes the number of sections a
\* natural one, and 8 suffice.
FirstPassFits == FilterLength >= 2 * EarlyReverbMinSize + 2

\* No call counts a section too many or looks behind the filter.
LEMMA PassInvNext == FirstPassFits /\ PassInv /\ [Next]_vars => PassInv'
<1> SUFFICES ASSUME FirstPassFits, PassInv, [Next]_vars PROVE PassInv'
  OBVIOUS
<1> USE Sizes DEF PassInv, NumbersOK, EarlyReverbHasRoom
<1>1. CASE ResetDecayEstimation
  BY <1>1 DEF ResetDecayEstimation, ResetEarly, ResetLate
<1>2. ASSUME NEW quality \in BOOLEAN, NEW good \in BOOLEAN, AnalyzeFilter(quality, good)
      PROVE  PassInv'
  <2>1. /\ block_to_analyze_ < FilterLength
        /\ block_to_analyze_' = block_to_analyze_ + 1
        /\ UNCHANGED <<late_reverb_start_, late_reverb_end_, N_>>
    BY <1>2 DEF AnalyzeFilter, lateVars
  <2>2. n_' \in Nat
    BY <1>2 DEF AnalyzeFilter, pointVars
  <2>3. estimation_region_candidate_size_' \in Nat
    BY <1>2 DEF AnalyzeFilter
  <2>4. CASE block_to_analyze_ <= late_reverb_end_
    <3>1. /\ block_counter_' = block_counter_ + 1
          /\ aborted' = (block_counter_ - (BlocksPerSection - 1) >= Sections)
      BY <1>2, <2>4 DEF AnalyzeFilter, AccumulateEarly
    <3>2. block_counter_ < FilterLength - EarlyReverbMinSize - 1
      BY <2>1, <2>4 DEF FirstPassFits
    <3>3. ~aborted'  BY <3>1, <3>2
    <3> QED  BY <2>1, <2>2, <2>3, <3>1, <3>3
  <2>5. CASE ~(block_to_analyze_ <= late_reverb_end_)
    <3>1. block_counter_' = block_counter_ /\ aborted' = aborted
      BY <1>2, <2>5 DEF AnalyzeFilter, earlyVars
    <3>2. aborted' \in BOOLEAN /\ ~aborted'  BY <3>1
    <3> QED  BY <2>1, <2>2, <2>3, <3>1, <3>2
  <2> QED  BY <2>4, <2>5
<1>3. ASSUME NEW quality \in BOOLEAN, NEW valid \in BOOLEAN, NEW sufficient \in BOOLEAN,
             NEW peak \in FeasiblePeaks, NEW early \in 0 .. SectionsToAnalyze,
             EstimateDecay(quality, peak, valid, sufficient, early)
      PROVE  PassInv'
  <2>1. /\ block_to_analyze_' = peak + EarlyReverbMinSize
        /\ estimation_region_candidate_size_' = 0
        /\ block_counter_' = 0
        /\ aborted' = (peak + EarlyReverbMinSize >= FilterLength)
    BY <1>3 DEF EstimateDecay, NextPass, ResetEarly
  <2>2. peak \in 1 .. FilterLength - EarlyReverbMinSize - 1  BY DEF FeasiblePeaks
  <2>3. /\ late_reverb_start_' \in Nat /\ late_reverb_end_' \in Nat
        /\ N_' \in Nat /\ n_' \in Nat
    BY <1>3, <2>2 DEF EstimateDecay, ResetLate
  <2> QED  BY <2>1, <2>2, <2>3
<1>4. CASE UNCHANGED vars
  BY <1>4 DEF vars, regionVars, lateVars, pointVars, earlyVars
<1> QED  BY <1>1, <1>2, <1>3, <1>4 DEF Next

\* The constructor establishes it.
LEMMA PassInvInit == Init => PassInv
<1> SUFFICES ASSUME Init PROVE PassInv
  OBVIOUS
<1>1. aborted \in BOOLEAN /\ ~aborted  BY DEF Init
<1>2. /\ block_to_analyze_ = 0 /\ estimation_region_candidate_size_ = 0 /\ block_counter_ = 0
      /\ late_reverb_start_ = EarlyReverbMinSize /\ late_reverb_end_ = EarlyReverbMinSize
      /\ N_ = 0 /\ n_ = 0
  BY DEF Init
<1> QED  BY <1>1, <1>2, Sizes DEF PassInv, NumbersOK, EarlyReverbHasRoom

\* No RTC_DCHECK of the passes ever fails, whatever peaks and resets cut them.
THEOREM StaysInside == FirstPassFits /\ Spec => []NothingBeyondTheFilter
<1> SUFFICES ASSUME FirstPassFits PROVE Spec => []NothingBeyondTheFilter
  OBVIOUS
<1>1. Init => PassInv  BY PassInvInit
<1>2. PassInv /\ [Next]_vars => PassInv'  BY PassInvNext
<1>3. PassInv => NothingBeyondTheFilter  BY DEF PassInv, NothingBeyondTheFilter
<1> QED  BY <1>1, <1>2, <1>3, PTL DEF Spec

-----------------------------------------------------------------------------
(* What the regressor has been given.                                      *)

\* How many blocks of the region of late reverb the pass has gone by.
PassedOf(block, first, size) ==
  IF block < first THEN 0 ELSE IF block < first + size THEN block - first ELSE size

\* While there is something to fit, the regressor has the blocks of the region that
\* the pass has gone by: it has not missed the first ones, since the pass began
\* before them.
RegionInv ==
  N_ # 0 =>
    /\ N_ = late_reverb_end_ - late_reverb_start_ + 1
    /\ n_ = PassedOf(block_to_analyze_, late_reverb_start_, N_)
    /\ fitted = [i \in 1 .. n_ |-> late_reverb_start_ + i - 1]

\* The numbers are numbers after a failed check, too.
LEMMA NumbersNext == NumbersOK /\ [Next]_vars => NumbersOK'
<1> SUFFICES ASSUME NumbersOK, [Next]_vars PROVE NumbersOK'
  OBVIOUS
<1> USE Sizes DEF NumbersOK
<1>1. CASE ResetDecayEstimation
  BY <1>1 DEF ResetDecayEstimation, ResetEarly, ResetLate
<1>2. ASSUME NEW quality \in BOOLEAN, NEW good \in BOOLEAN, AnalyzeFilter(quality, good)
      PROVE  NumbersOK'
  <2>1. /\ block_to_analyze_ < FilterLength
        /\ block_to_analyze_' = block_to_analyze_ + 1
        /\ UNCHANGED <<late_reverb_start_, late_reverb_end_, N_>>
    BY <1>2 DEF AnalyzeFilter, lateVars
  <2>2. n_' \in Nat  BY <1>2 DEF AnalyzeFilter, pointVars
  <2>3. estimation_region_candidate_size_' \in Nat  BY <1>2 DEF AnalyzeFilter
  <2>4. block_counter_' \in Nat  BY <1>2 DEF AnalyzeFilter, AccumulateEarly, earlyVars
  <2> QED  BY <2>1, <2>2, <2>3, <2>4
<1>3. ASSUME NEW quality \in BOOLEAN, NEW valid \in BOOLEAN, NEW sufficient \in BOOLEAN,
             NEW peak \in FeasiblePeaks, NEW early \in 0 .. SectionsToAnalyze,
             EstimateDecay(quality, peak, valid, sufficient, early)
      PROVE  NumbersOK'
  <2>1. /\ block_to_analyze_' = peak + EarlyReverbMinSize
        /\ estimation_region_candidate_size_' = 0
        /\ block_counter_' = 0
        /\ aborted' = (peak + EarlyReverbMinSize >= FilterLength)
    BY <1>3 DEF EstimateDecay, NextPass, ResetEarly
  <2>2. peak \in 1 .. FilterLength - EarlyReverbMinSize - 1  BY DEF FeasiblePeaks
  <2>3. /\ late_reverb_start_' \in Nat /\ late_reverb_end_' \in Nat
        /\ N_' \in Nat /\ n_' \in Nat
    BY <1>3, <2>2 DEF EstimateDecay, ResetLate
  <2> QED  BY <2>1, <2>2, <2>3
<1>4. CASE UNCHANGED vars
  BY <1>4 DEF vars, regionVars, lateVars, pointVars, earlyVars
<1> QED  BY <1>1, <1>2, <1>3, <1>4 DEF Next

\* No call takes a point from outside the region, or the same one twice.
LEMMA RegionInvNext == NumbersOK /\ RegionInv /\ [Next]_vars => RegionInv'
<1> SUFFICES ASSUME NumbersOK, RegionInv, [Next]_vars, N_' # 0
             PROVE  /\ N_' = late_reverb_end_' - late_reverb_start_' + 1
                    /\ n_' = PassedOf(block_to_analyze_', late_reverb_start_', N_')
                    /\ fitted' = [i \in 1 .. n_' |-> late_reverb_start_' + i - 1]
  BY DEF RegionInv
<1> USE Sizes DEF NumbersOK
<1>1. CASE ResetDecayEstimation
  BY <1>1 DEF ResetDecayEstimation, ResetLate
<1>2. ASSUME NEW quality \in BOOLEAN, NEW good \in BOOLEAN, AnalyzeFilter(quality, good)
      PROVE  RegionInv'
  <2>1. /\ block_to_analyze_' = block_to_analyze_ + 1
        /\ UNCHANGED <<late_reverb_start_, late_reverb_end_, N_>>
    BY <1>2 DEF AnalyzeFilter, lateVars
  <2>2. /\ N_ = late_reverb_end_ - late_reverb_start_ + 1
        /\ n_ = PassedOf(block_to_analyze_, late_reverb_start_, N_)
        /\ fitted = [i \in 1 .. n_ |-> late_reverb_start_ + i - 1]
    BY <2>1 DEF RegionInv
  <2>3. CASE block_to_analyze_ \in late_reverb_start_ .. late_reverb_end_
    <3>1. n_' = n_ + 1 /\ fitted' = Append(fitted, block_to_analyze_)
      BY <1>2, <2>3 DEF AnalyzeFilter
    <3>2. block_to_analyze_ = late_reverb_start_ + n_
      BY <2>2, <2>3 DEF PassedOf
    <3>3. fitted' = [i \in 1 .. n_ + 1 |-> late_reverb_start_ + i - 1]
      BY <2>2, <3>1, <3>2
    <3>4. n_' = PassedOf(block_to_analyze_', late_reverb_start_, N_)
      BY <2>1, <2>2, <2>3, <3>1, <3>2 DEF PassedOf
    <3> QED  BY <2>1, <2>2, <3>1, <3>3, <3>4 DEF RegionInv
  <2>4. CASE block_to_analyze_ \notin late_reverb_start_ .. late_reverb_end_
    <3>1. n_' = n_ /\ fitted' = fitted
      BY <1>2, <2>4 DEF AnalyzeFilter, pointVars
    <3>2. n_' = PassedOf(block_to_analyze_', late_reverb_start_, N_)
      BY <2>1, <2>2, <2>4, <3>1 DEF PassedOf
    <3> QED  BY <2>1, <2>2, <3>1, <3>2 DEF RegionInv
  <2> QED  BY <2>3, <2>4
<1>3. ASSUME NEW quality \in BOOLEAN, NEW valid \in BOOLEAN, NEW sufficient \in BOOLEAN,
             NEW peak \in FeasiblePeaks, NEW early \in 0 .. SectionsToAnalyze,
             EstimateDecay(quality, peak, valid, sufficient, early)
      PROVE  RegionInv'
  <2> DEFINE late == estimation_region_candidate_size_ - early
  <2>1. late >= LateReverbMinSize
    BY <1>3 DEF EstimateDecay, ResetLate
  <2>2. /\ N_' = late /\ n_' = 0 /\ fitted' = <<>>
        /\ late_reverb_start_' = peak + EarlyReverbMinSize + early
        /\ late_reverb_end_' = peak + EarlyReverbMinSize + estimation_region_candidate_size_ - 1
        /\ block_to_analyze_' = peak + EarlyReverbMinSize
    BY <1>3, <2>1 DEF EstimateDecay, ResetLate, NextPass
  <2>3. peak \in Nat /\ early \in Nat  OBVIOUS
  <2>4. n_' = PassedOf(block_to_analyze_', late_reverb_start_', N_')
    BY <2>1, <2>2, <2>3 DEF PassedOf
  <2>5. N_' = late_reverb_end_' - late_reverb_start_' + 1  BY <2>2, <2>3
  <2>6. fitted' = [i \in 1 .. n_' |-> late_reverb_start_' + i - 1]  BY <2>2
  <2> QED  BY <2>4, <2>5, <2>6 DEF RegionInv
<1>4. CASE UNCHANGED vars
  BY <1>4 DEF vars, regionVars, lateVars, pointVars, earlyVars, RegionInv
<1> QED  BY <1>1, <1>2, <1>3, <1>4 DEF Next, RegionInv

\* What the regressor fits is always one unbroken region of the filter, in order.
THEOREM AlwaysOneRegion == Spec => []EstimateFromOneRegion
<1>1. Init => NumbersOK /\ RegionInv  BY PassInvInit DEF Init, PassInv, RegionInv
<1>2. NumbersOK /\ [Next]_vars => NumbersOK'  BY NumbersNext
<1>3. NumbersOK /\ RegionInv /\ [Next]_vars => RegionInv'  BY RegionInvNext
<1>4. NumbersOK /\ RegionInv => EstimateFromOneRegion
  BY DEF NumbersOK, RegionInv, EstimateFromOneRegion, PassedOf
<1> QED  BY <1>1, <1>2, <1>3, <1>4, PTL DEF Spec
=============================================================================
