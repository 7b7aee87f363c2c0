---------------------- MODULE RenderDelayControllerProofs ----------------------
(***************************************************************************)
(* Theorems about RenderDelayController and the lag aggregator and the     *)
(* clockdrift detector it owns, for windows of every size, every threshold *)
(* and every range of lags.  First numbers and the counting of votes, then *)
(* the aggregator, then the delay.                                         *)
(***************************************************************************)
EXTENDS RenderDelayController, FiniteSetTheorems, WellFoundedInduction, TLAPS

-----------------------------------------------------------------------------
(* Numbers.                                                                *)

\* A set of natural numbers has a least one.
LEMMA NatMinimum ==
  ASSUME NEW T \in SUBSET Nat, T # {}
  PROVE  \E m \in T : \A n \in T : m <= n
<1> DEFINE R == OpToRel(<, Nat)
<1>1. IsWellFoundedOn(R, Nat)  BY NatLessThanWellFounded
<1>2. \A x, y \in Nat : y < x => <<y, x>> \in R  BY DEF OpToRel
<1> HIDE DEF R
<1>3. \E x \in T : \A y \in T : ~(<<y, x>> \in R)  BY <1>1, WFMin
<1>4. PICK m \in T : \A y \in T : ~(<<y, m>> \in R)  BY <1>3
<1>5. \A y \in T : m <= y
  <2> TAKE y \in T
  <2>1. ~(y < m)  BY <1>2, <1>4
  <2> QED  BY <2>1
<1> QED  BY <1>5

\* There is a first of the most frequent lags, as long as no lag is more frequent
\* than some bound: Candidate has something to choose.
LEMMA CandidateExists ==
  ASSUME NEW histogram \in [Lag -> Int], NEW bound \in Int, \A lag \in Lag : histogram[lag] <= bound
  PROVE  /\ Candidate(histogram) \in Lag
         /\ \A other \in Lag : histogram[other] <= histogram[Candidate(histogram)]
<1> DEFINE Misses == {bound - histogram[lag] : lag \in Lag}
           Best == {lag \in Lag : \A other \in Lag : histogram[other] <= histogram[lag]}
<1>0. MaxLag \in Nat  BY HistogramAssumption
<1>1. Misses \in SUBSET Nat  OBVIOUS
<1>2. 0 \in Lag  BY <1>0 DEF Lag
<1>3. Misses # {}  BY <1>2
<1>4. PICK least \in Misses : \A m \in Misses : least <= m
  <2> HIDE DEF Misses
  <2> QED  BY <1>1, <1>3, NatMinimum
<1>5. PICK lag \in Lag : least = bound - histogram[lag]  BY <1>4
<1>6. \A other \in Lag : histogram[other] <= histogram[lag]
  <2> TAKE other \in Lag
  <2>1. bound - histogram[other] \in Misses  OBVIOUS
  <2>2. least <= bound - histogram[other]  BY <1>4, <2>1
  <2>3. histogram[other] \in Int /\ histogram[lag] \in Int  OBVIOUS
  <2> HIDE DEF Misses
  <2> QED  BY <1>5, <2>2, <2>3
<1>7. Best # {} /\ Best \in SUBSET Nat
  <2>1. lag \in Best  BY <1>6
  <2>2. Best \subseteq Lag  OBVIOUS
  <2>3. Lag \subseteq Nat  BY <1>0 DEF Lag
  <2> HIDE DEF Best
  <2> QED  BY <2>1, <2>2, <2>3
<1>8. PICK first \in Best : \A b \in Best : first <= b
  <2> HIDE DEF Best
  <2> QED  BY <1>7, NatMinimum
<1>9. first \in Lag /\ \A other \in Lag : histogram[other] <= histogram[first]  BY <1>8
<1> HIDE DEF Misses
<1>10. \A other \in 0 .. first - 1 : histogram[other] < histogram[first]
  <2> TAKE other \in 0 .. first - 1
  <2>1. other \in Lag
    <3>1. first \in 0 .. MaxLag  BY <1>9 DEF Lag
    <3>2. other \in 0 .. MaxLag  BY <1>0, <3>1
    <3> QED  BY <3>2 DEF Lag
  <2>2. other \notin Best
    <3>1. other \in Best => first <= other  BY <1>8
    <3>2. first \in Nat /\ other \in Int  BY <1>0, <1>9 DEF Lag
    <3> HIDE DEF Best
    <3> QED  BY <3>1, <3>2
  <2>3. PICK third \in Lag : ~(histogram[third] <= histogram[other])  BY <2>1, <2>2
  <2>4. histogram[third] <= histogram[first]  BY <1>9
  <2>5. histogram[third] \in Int /\ histogram[other] \in Int /\ histogram[first] \in Int
    BY <1>9, <2>1
  <2> QED  BY <2>3, <2>4, <2>5
<1> HIDE DEF Best
<1> QED  BY <1>9, <1>10 DEF Candidate

-----------------------------------------------------------------------------
(* Votes.                                                                  *)

\* The votes for a lag among data, of which Votes is the case of histogram_data_.
VotesIn(data, lag) == Cardinality({i \in HistogramIndex : data[i] = lag})

\* They can be counted, and are at most as many as there are data.
LEMMA VotesFinite ==
  ASSUME NEW data, NEW lag
  PROVE  /\ IsFiniteSet({i \in HistogramIndex : data[i] = lag})
         /\ VotesIn(data, lag) \in 0 .. HistogramSize
<1>1. IsFiniteSet(HistogramIndex) /\ Cardinality(HistogramIndex) = HistogramSize
  BY FS_Interval, HistogramAssumption DEF HistogramIndex
<1>2. {i \in HistogramIndex : data[i] = lag} \in SUBSET HistogramIndex  OBVIOUS
<1>3. /\ IsFiniteSet({i \in HistogramIndex : data[i] = lag})
      /\ VotesIn(data, lag) <= HistogramSize
  BY <1>1, <1>2, FS_Subset DEF VotesIn
<1>4. VotesIn(data, lag) \in Nat  BY <1>3, FS_CardinalityType DEF VotesIn
<1> QED  BY <1>3, <1>4, HistogramAssumption

\* Of data that are lags.
LEMMA VotesRange ==
  ASSUME NEW data \in [HistogramIndex -> Lag]
  PROVE  \A lag \in Lag : VotesIn(data, lag) \in 0 .. HistogramSize
BY VotesFinite

\* All data vote for the lag they are.
LEMMA VotesOfConstant ==
  ASSUME NEW lag
  PROVE  /\ VotesIn([i \in HistogramIndex |-> 0], 0) = HistogramSize
         /\ lag # 0 => VotesIn([i \in HistogramIndex |-> 0], lag) = 0
<1> DEFINE zeros == [i \in HistogramIndex |-> 0]
<1>1. {i \in HistogramIndex : zeros[i] = 0} = HistogramIndex  OBVIOUS
<1>2. lag # 0 => {i \in HistogramIndex : zeros[i] = lag} = {}  OBVIOUS
<1>3. Cardinality(HistogramIndex) = HistogramSize
  BY FS_Interval, HistogramAssumption DEF HistogramIndex
<1> QED  BY <1>1, <1>2, <1>3, FS_EmptySet DEF VotesIn

\* Replacing one of the data takes a vote from what it was and gives one to what it is.
LEMMA VotesReplaced ==
  ASSUME NEW data \in [HistogramIndex -> Lag], NEW k \in HistogramIndex, NEW new \in Lag,
         NEW changed \in [HistogramIndex -> Lag], changed[k] = new,
         \A i \in HistogramIndex \ {k} : changed[i] = data[i],
         NEW lag \in Lag
  PROVE  VotesIn(changed, lag) =
           VotesIn(data, lag) + (IF lag = new THEN 1 ELSE 0) - (IF lag = data[k] THEN 1 ELSE 0)
<1> DEFINE Before == {i \in HistogramIndex : data[i] = lag}
           After == {i \in HistogramIndex : changed[i] = lag}
<1>1. IsFiniteSet(Before)  BY VotesFinite
<1>2. k \in Before <=> lag = data[k]  OBVIOUS
<1>3. After = IF lag = new THEN (Before \ {k}) \cup {k} ELSE Before \ {k}  OBVIOUS
<1> HIDE DEF Before, After
<1>4. /\ IsFiniteSet(Before \ {k})
      /\ Cardinality(Before \ {k}) = IF k \in Before THEN Cardinality(Before) - 1
                                     ELSE Cardinality(Before)
  BY <1>1, FS_RemoveElement
<1>5. Cardinality((Before \ {k}) \cup {k}) = Cardinality(Before \ {k}) + 1
  BY <1>4, FS_AddElement
<1>6. Cardinality(Before) \in Nat  BY <1>1, FS_CardinalityType
<1>7. Cardinality(After) =
        Cardinality(Before) + (IF lag = new THEN 1 ELSE 0) - (IF lag = data[k] THEN 1 ELSE 0)
  BY <1>2, <1>3, <1>4, <1>5, <1>6
<1> QED  BY <1>7 DEF VotesIn, Before, After

-----------------------------------------------------------------------------
(* The aggregator.                                                         *)

\* The estimate is the lag with the most votes of the histogram, and more than the
\* threshold of its quality.  With HistogramCountsWindow this is EstimateWonTheVote;
\* by itself it says nothing of the window.
EstimateLeads ==
  aggregated # None =>
    /\ aggregated.delay \in Lag
    /\ \A lag \in Lag : histogram_[lag] <= histogram_[aggregated.delay]
    /\ histogram_[aggregated.delay] >
         (IF aggregated.quality = "refined" THEN ConvergedThreshold ELSE InitialThreshold)

AggregatorInv == AggregatorTypeOK /\ HistogramCountsWindow /\ EstimateLeads

\* The constructor establishes it.
LEMMA AggregatorInitially == AggregatorInit => AggregatorInv
<1> SUFFICES ASSUME AggregatorInit PROVE AggregatorInv
  OBVIOUS
<1>0. 0 \in Lag /\ 0 \in HistogramIndex /\ HistogramSize \in Nat
  BY HistogramAssumption DEF Lag, HistogramIndex
<1>1. AggregatorTypeOK
  <2>1. significant_candidate_found_ \in BOOLEAN  BY DEF AggregatorInit
  <2> QED  BY <1>0, <2>1 DEF AggregatorInit, AggregatorTypeOK
<1>2. HistogramCountsWindow
  <2>1. \A lag \in Lag : Votes(lag) = VotesIn([i \in HistogramIndex |-> 0], lag)
    BY DEF AggregatorInit, Votes, VotesIn
  <2>2. \A lag \in Lag : histogram_[lag] = 0  BY DEF AggregatorInit
  <2>3. \A lag \in Lag : Votes(lag) = IF lag = 0 THEN HistogramSize ELSE 0
    BY <2>1, VotesOfConstant
  <2> QED  BY <1>0, <2>2, <2>3 DEF HistogramCountsWindow
<1>3. EstimateLeads  BY DEF AggregatorInit, EstimateLeads
<1> QED  BY <1>1, <1>2, <1>3 DEF AggregatorInv

\* A reset, hard or soft, does as well.
LEMMA AggregatorAfterReset ==
  ASSUME AggregatorInv, NEW hard_reset \in BOOLEAN, AggregatorReset(hard_reset)
  PROVE  AggregatorInv' /\ aggregated' = None
<1>0. 0 \in Lag /\ 0 \in HistogramIndex /\ HistogramSize \in Nat
  BY HistogramAssumption DEF Lag, HistogramIndex
<1>1. /\ histogram_' = [lag \in Lag |-> 0]
      /\ histogram_data_' = [i \in HistogramIndex |-> 0]
      /\ histogram_data_index_' = 0
      /\ significant_candidate_found_' = (significant_candidate_found_ /\ ~hard_reset)
      /\ aggregated' = None
  BY DEF AggregatorReset
<1>2. AggregatorTypeOK'
  <2>1. significant_candidate_found_' \in BOOLEAN  BY <1>1
  <2> QED  BY <1>0, <1>1, <2>1 DEF AggregatorTypeOK
<1>3. HistogramCountsWindow'
  <2>1. \A lag \in Lag : Votes(lag)' = VotesIn([i \in HistogramIndex |-> 0], lag)
    BY <1>1 DEF Votes, VotesIn
  <2>2. \A lag \in Lag : histogram_'[lag] = 0  BY <1>1
  <2>3. \A lag \in Lag : Votes(lag)' = IF lag = 0 THEN HistogramSize ELSE 0
    BY <2>1, VotesOfConstant
  <2> QED  BY <1>0, <2>2, <2>3 DEF HistogramCountsWindow
<1>4. EstimateLeads'  BY <1>1 DEF EstimateLeads
<1> QED  BY <1>1, <1>2, <1>3, <1>4 DEF AggregatorInv

\* The histogram with one vote out and one in counts the window with one vote
\* replaced, and has a lag that leads.
LEMMA VoteCounted ==
  ASSUME AggregatorTypeOK, HistogramCountsWindow, NEW lag \in Lag,
         histogram_' = ReplaceVote(lag),
         histogram_data_' \in [HistogramIndex -> Lag],
         histogram_data_'[histogram_data_index_] = lag,
         \A i \in HistogramIndex \ {histogram_data_index_} : histogram_data_'[i] = histogram_data_[i]
  PROVE  /\ histogram_' \in [Lag -> Int]
         /\ HistogramCountsWindow'
         /\ Candidate(histogram_') \in Lag
         /\ \A other \in Lag : histogram_'[other] <= histogram_'[Candidate(histogram_')]
<1> DEFINE k == histogram_data_index_
           delta(l) == (IF l = lag THEN 1 ELSE 0) - (IF l = histogram_data_[k] THEN 1 ELSE 0)
<1>1. /\ histogram_ \in [Lag -> Int] /\ histogram_data_ \in [HistogramIndex -> Lag]
      /\ k \in HistogramIndex
  BY DEF AggregatorTypeOK
<1>2. \A l \in Lag : histogram_'[l] = histogram_[l] + delta(l)
  BY <1>1 DEF ReplaceVote
<1>3. histogram_' \in [Lag -> Int]  BY <1>1 DEF ReplaceVote
<1>4. \A l \in Lag : Votes(l)' = Votes(l) + delta(l)
  <2> TAKE l \in Lag
  <2>1. VotesIn(histogram_data_', l) = VotesIn(histogram_data_, l)
          + (IF l = lag THEN 1 ELSE 0) - (IF l = histogram_data_[k] THEN 1 ELSE 0)
    BY <1>1, VotesReplaced
  <2>2. VotesIn(histogram_data_, l) \in Int  BY <1>1, VotesRange
  <2> QED  BY <2>1, <2>2 DEF Votes, VotesIn
<1>5. \A l \in Lag : histogram_[l] = Votes(l) - (IF l = 0 THEN HistogramSize ELSE 0)
  BY DEF HistogramCountsWindow
<1>6. \A l \in Lag : Votes(l) \in Int /\ Votes(l)' \in 0 .. HistogramSize
  <2>1. histogram_data_' \in [HistogramIndex -> Lag]  BY <1>1
  <2>2. \A l \in Lag : VotesIn(histogram_data_, l) \in Int  BY <1>1, VotesRange
  <2>3. \A l \in Lag : VotesIn(histogram_data_', l) \in 0 .. HistogramSize  BY <2>1, VotesRange
  <2> QED  BY <2>2, <2>3 DEF Votes, VotesIn
<1>7. HistogramSize \in Nat  BY HistogramAssumption
<1>8. \A l \in Lag : delta(l) \in Int  OBVIOUS
<1> HIDE DEF delta
<1>9. \A l \in Lag : histogram_'[l] = Votes(l)' - (IF l = 0 THEN HistogramSize ELSE 0)
  BY <1>2, <1>4, <1>5, <1>6, <1>7, <1>8
<1>10. HistogramCountsWindow'  BY <1>9 DEF HistogramCountsWindow
<1>11. \A l \in Lag : histogram_'[l] <= HistogramSize  BY <1>6, <1>7, <1>9
<1> QED  BY <1>3, <1>7, <1>10, <1>11, CandidateExists

\* A block, with or without a reliable lag, keeps the invariant.
LEMMA AggregateKeeps ==
  ASSUME AggregatorInv, NEW lag \in Lag \cup {None}, Aggregate(lag)
  PROVE  AggregatorInv'
<1>0. MaxLag \in Nat /\ HistogramSize \in Nat \ {0}
      /\ InitialThreshold \in Nat /\ ConvergedThreshold \in Nat
  BY HistogramAssumption, ThresholdAssumption
<1>1. CASE lag = None
  <2>1. /\ aggregated' = None
        /\ UNCHANGED <<histogram_, histogram_data_, histogram_data_index_,
                       significant_candidate_found_>>
    BY <1>1 DEF Aggregate
  <2> QED  BY <2>1 DEF AggregatorInv, AggregatorTypeOK, HistogramCountsWindow, Votes, EstimateLeads
<1>2. CASE lag # None
  <2> DEFINE candidate == Candidate(histogram_')
             votes == histogram_'[candidate]
  <2>0. lag \in Lag  BY <1>2
  <2>1. /\ histogram_' = ReplaceVote(lag)
        /\ histogram_data_' = [histogram_data_ EXCEPT ![histogram_data_index_] = lag]
        /\ histogram_data_index_' = NextIndex
        /\ significant_candidate_found_' = Significant(votes)
        /\ aggregated' = IF \/ votes > ConvergedThreshold
                            \/ votes > InitialThreshold /\ ~Significant(votes)
                         THEN [quality |-> IF Significant(votes) THEN "refined" ELSE "coarse",
                               delay |-> candidate]
                         ELSE None
    BY <1>2 DEF Aggregate
  <2>2. /\ histogram_' \in [Lag -> Int] /\ HistogramCountsWindow'
        /\ candidate \in Lag
        /\ \A other \in Lag : histogram_'[other] <= votes
    <3>1. histogram_data_index_ \in HistogramIndex /\ histogram_data_ \in [HistogramIndex -> Lag]
      BY DEF AggregatorInv, AggregatorTypeOK
    <3>2. /\ histogram_data_' \in [HistogramIndex -> Lag]
          /\ histogram_data_'[histogram_data_index_] = lag
          /\ \A i \in HistogramIndex \ {histogram_data_index_} :
               histogram_data_'[i] = histogram_data_[i]
      BY <2>0, <2>1, <3>1
    <3>3. histogram_' = ReplaceVote(lag)  BY <2>1
    <3> QED  BY <2>0, <3>2, <3>3, VoteCounted DEF AggregatorInv
  <2>3. significant_candidate_found_' \in BOOLEAN
    BY <2>1 DEF Significant, AggregatorInv, AggregatorTypeOK
  <2>4. histogram_data_index_' \in HistogramIndex
    <3>1. histogram_data_index_ \in 0 .. HistogramSize - 1
      BY DEF AggregatorInv, AggregatorTypeOK, HistogramIndex
    <3>2. (histogram_data_index_ + 1) % HistogramSize \in 0 .. HistogramSize - 1
      BY <1>0, <3>1
    <3> QED  BY <2>1, <3>2 DEF NextIndex, HistogramIndex
  <2>5. histogram_data_' \in [HistogramIndex -> Lag]
    BY <2>0, <2>1 DEF AggregatorInv, AggregatorTypeOK
  <2> HIDE DEF candidate, votes
  <2>6. votes > ConvergedThreshold => Significant(votes)  BY DEF Significant
  <2>7. candidate \in Nat  BY <1>0, <2>2 DEF Lag
  <2>8. aggregated' \in DelayEstimate \cup {None}  BY <2>1, <2>7 DEF DelayEstimate
  <2>9. EstimateLeads'
    <3> SUFFICES ASSUME aggregated' # None
                 PROVE  /\ aggregated'.delay \in Lag
                        /\ \A other \in Lag : histogram_'[other] <= histogram_'[aggregated'.delay]
                        /\ histogram_'[aggregated'.delay] >
                             (IF aggregated'.quality = "refined" THEN ConvergedThreshold
                              ELSE InitialThreshold)
      BY DEF EstimateLeads
    <3>1. /\ aggregated'.delay = candidate
          /\ IF aggregated'.quality = "refined" THEN votes > ConvergedThreshold
             ELSE votes > InitialThreshold
      BY <2>1, <2>6
    <3> QED  BY <2>2, <3>1 DEF votes
  <2> QED  BY <2>2, <2>3, <2>4, <2>5, <2>8, <2>9 DEF AggregatorInv, AggregatorTypeOK
<1> QED  BY <1>1, <1>2

\* What leads the histogram leads the window, and is not lag 0, whose count is never
\* above zero.
LEMMA LeaderWonTheVote == AggregatorInv => EstimateWonTheVote
<1> SUFFICES ASSUME AggregatorInv, aggregated # None
             PROVE  /\ aggregated.delay # 0
                    /\ \A lag \in Lag \ {0} : Votes(lag) <= Votes(aggregated.delay)
                    /\ Votes(aggregated.delay) >
                         (IF aggregated.quality = "refined" THEN ConvergedThreshold
                          ELSE InitialThreshold)
  BY DEF EstimateWonTheVote
<1> DEFINE threshold == IF aggregated.quality = "refined" THEN ConvergedThreshold ELSE InitialThreshold
<1>0. HistogramSize \in Nat /\ threshold \in Nat  BY HistogramAssumption, ThresholdAssumption
<1>1. /\ aggregated.delay \in Lag
      /\ \A lag \in Lag : histogram_[lag] <= histogram_[aggregated.delay]
      /\ histogram_[aggregated.delay] > threshold
  BY DEF AggregatorInv, EstimateLeads
<1>2. \A lag \in Lag : histogram_[lag] = Votes(lag) - (IF lag = 0 THEN HistogramSize ELSE 0)
  BY DEF AggregatorInv, HistogramCountsWindow
<1>3. \A lag \in Lag : Votes(lag) \in 0 .. HistogramSize
  <2>1. histogram_data_ \in [HistogramIndex -> Lag]  BY DEF AggregatorInv, AggregatorTypeOK
  <2>2. \A lag \in Lag : VotesIn(histogram_data_, lag) \in 0 .. HistogramSize  BY <2>1, VotesRange
  <2> QED  BY <2>2 DEF Votes, VotesIn
<1> HIDE DEF threshold
<1>4. aggregated.delay # 0  BY <1>0, <1>1, <1>2, <1>3
<1>5. histogram_[aggregated.delay] = Votes(aggregated.delay)  BY <1>0, <1>1, <1>2, <1>3, <1>4
<1>6. \A lag \in Lag \ {0} : histogram_[lag] = Votes(lag)  BY <1>0, <1>2, <1>3
<1> QED  BY <1>1, <1>4, <1>5, <1>6 DEF threshold

\* Only Aggregate and AggregatorReset touch the aggregator, so that its invariant
\* is one of the controller.
LEMMA AggregatorInvNext == AggregatorInv /\ [Next]_vars => AggregatorInv'
<1> SUFFICES ASSUME AggregatorInv, [Next]_vars PROVE AggregatorInv'
  OBVIOUS
<1>1. ASSUME NEW lag \in Lag \cup {None}, GetDelay(lag) PROVE AggregatorInv'
  BY <1>1, AggregateKeeps DEF GetDelay, EstimateDelay
<1>2. ASSUME NEW reset_delay_confidence \in BOOLEAN, Reset(reset_delay_confidence)
      PROVE  AggregatorInv'
  BY <1>2, AggregatorAfterReset DEF Reset, ResetEstimator
<1>3. CASE UNCHANGED vars
  BY <1>3 DEF vars, aggregatorVars, AggregatorInv, AggregatorTypeOK, HistogramCountsWindow,
              Votes, EstimateLeads
<1> QED  BY <1>1, <1>2, <1>3 DEF Next

\* The aggregator's invariant holds in every reachable state.
LEMMA AggregatorInvAlways == Spec => []AggregatorInv
<1>1. Init => AggregatorInv  BY AggregatorInitially DEF Init
<1> QED  BY <1>1, AggregatorInvNext, PTL DEF Spec

\* The histogram, updated by one vote in and one out, counts the votes of the
\* window, for windows of every size and every history of votes and resets.
THEOREM HistogramAlwaysCounts == Spec => []HistogramCountsWindow
<1>1. AggregatorInv => HistogramCountsWindow  BY DEF AggregatorInv
<1> QED  BY <1>1, AggregatorInvAlways, PTL

\* Every estimate has won the vote of the window, and lag 0 never does.
THEOREM AlwaysWonTheVote == Spec => []EstimateWonTheVote
<1> QED  BY LeaderWonTheVote, AggregatorInvAlways, PTL

-----------------------------------------------------------------------------
(* The estimator, the clockdrift detector and the delay.                   *)

\* Their part of the type invariant.
ControllerTypes ==
  /\ delay_history_ \in [1 .. 3 -> Lag]
  /\ level_ \in {"none", "probable", "verified"}
  /\ stability_counter_ \in 0 .. StabilityLimit + 1
  /\ old_aggregated_lag_ \in DelayEstimate \cup {None}
  /\ consistent_estimate_counter_ \in 0 .. ConsistentLimit
  /\ delay_ \in DelayEstimate \cup {None} /\ delay_samples_ \in DelayEstimate \cup {None}
  /\ last_delay_estimate_quality_ \in {"coarse", "refined"}
  /\ restarted \in BOOLEAN

\* Conversion between units leaves natural numbers.
LEMMA UnitsConvert ==
  ASSUME NEW samples \in Nat
  PROVE  BlocksOf(samples) \in Nat /\ samples * DownSamplingFactor \in Nat
<1>1. \A a \in Nat, b \in Nat \ {0} : a \div b \in Nat  OBVIOUS
<1>2. \A a, b \in Nat : a * b \in Nat  OBVIOUS
<1>3. /\ HeadroomSamples \in Nat /\ BlockSize \in Nat \ {0} /\ DownSamplingFactor \in Nat
  BY UnitsAssumption, LimitsAssumption
<1>4. (IF samples > HeadroomSamples THEN samples - HeadroomSamples ELSE 0) \in Nat  BY <1>3
<1> QED  BY <1>1, <1>2, <1>3, <1>4 DEF BlocksOf

\* The clockdrift detector stays within its types for every new delay.
LEMMA UpdateTypes ==
  ASSUME ControllerTypes, NEW delay \in Lag, Update(delay)
  PROVE  /\ delay_history_' \in [1 .. 3 -> Lag]
         /\ level_' \in {"none", "probable", "verified"}
         /\ stability_counter_' \in 0 .. StabilityLimit + 1
<1>0. StabilityLimit \in Nat  BY StabilityAssumption
<1>1. CASE delay = delay_history_[1]
  <2>1. /\ stability_counter_' = CountedOn(stability_counter_)
        /\ level_' = "none" \/ level_' = level_
        /\ delay_history_' = delay_history_
    BY <1>1 DEF Update
  <2> QED  BY <1>0, <2>1 DEF ControllerTypes, CountedOn
<1>2. CASE delay # delay_history_[1]
  <2>1. /\ stability_counter_' = 0
        /\ level_' = "verified" \/ level_' = "probable" \/ level_' = level_
        /\ delay_history_' = <<delay, delay_history_[1], delay_history_[2]>>
    BY <1>2 DEF Update
  <2> QED  BY <1>0, <2>1 DEF ControllerTypes
<1> QED  BY <1>1, <1>2

\* What a block makes of the delay: the estimate in blocks, or the delay as it was
\* when that is at most the hysteresis below it.
LEMMA BufferDelay ==
  ASSUME NEW current \in DelayEstimate \cup {None}, NEW limit \in Nat, NEW estimated \in DelayEstimate
  PROVE  LET delay == ComputeBufferDelay(current, limit, estimated) IN
         /\ delay \in DelayEstimate
         /\ BlocksOf(estimated.delay) \in delay.delay .. delay.delay + limit
<1> DEFINE new == BlocksOf(estimated.delay)
<1>1. new \in Nat  BY UnitsConvert DEF DelayEstimate
<1> HIDE DEF new
<1>2. CASE current # None /\ new > current.delay /\ new <= current.delay + limit
  <2>1. current.delay \in Nat  BY <1>2 DEF DelayEstimate
  <2>2. ComputeBufferDelay(current, limit, estimated) = [estimated EXCEPT !.delay = current.delay]
    BY <1>2 DEF ComputeBufferDelay, new
  <2> QED  BY <1>1, <1>2, <2>1, <2>2 DEF DelayEstimate, new
<1>3. CASE ~(current # None /\ new > current.delay /\ new <= current.delay + limit)
  <2>1. ComputeBufferDelay(current, limit, estimated) = [estimated EXCEPT !.delay = new]
    BY <1>3 DEF ComputeBufferDelay, new
  <2> QED  BY <1>1, <2>1 DEF DelayEstimate, new
<1> QED  BY <1>2, <1>3

\* The delay follows the last estimate, at most the hysteresis behind it: both are
\* forgotten together, and a block without estimate leaves both.
LEMMA GetDelayEffect ==
  ASSUME ControllerTypes, NEW lag \in Lag \cup {None}, GetDelay(lag),
         aggregated' \in DelayEstimate \cup {None}
  PROVE  /\ delay_' \in DelayEstimate \cup {None} /\ delay_samples_' \in DelayEstimate \cup {None}
         /\ last_delay_estimate_quality_' \in {"coarse", "refined"}
         /\ DelayIsCausal => DelayIsCausal'
<1>0. HysteresisLimit \in Nat /\ None \notin DelayEstimate  BY LimitsAssumption, NoneAssumption
<1>1. delay_samples_' \in DelayEstimate \cup {None}
  <2>1. CASE aggregated' = None
    <3>1. delay_samples_' = delay_samples_  BY <2>1 DEF GetDelay
    <3> QED  BY <3>1 DEF ControllerTypes
  <2>2. CASE aggregated' # None
    <3>1. delay_samples_' = [aggregated' EXCEPT !.delay = @ * DownSamplingFactor]
      BY <2>2 DEF GetDelay
    <3>2. aggregated' \in DelayEstimate  BY <2>2
    <3>3. aggregated'.delay * DownSamplingFactor \in Nat  BY <3>2, UnitsConvert DEF DelayEstimate
    <3> QED  BY <3>1, <3>2, <3>3 DEF DelayEstimate
  <2> QED  BY <2>1, <2>2
<1>2. CASE delay_samples_' = None
  <2>1. UNCHANGED <<delay_, last_delay_estimate_quality_>>  BY <1>2 DEF GetDelay
  <2>2. delay_samples_ = None
    <3>1. aggregated' # None => delay_samples_' # None
      <4>1. SUFFICES ASSUME aggregated' # None PROVE delay_samples_' # None
        OBVIOUS
      <4>2. delay_samples_' = [aggregated' EXCEPT !.delay = @ * DownSamplingFactor]
        BY <4>1 DEF GetDelay
      <4>3. aggregated' \in DelayEstimate  BY <4>1
      <4>4. aggregated'.delay * DownSamplingFactor \in Nat  BY <4>3, UnitsConvert DEF DelayEstimate
      <4>5. delay_samples_' \in DelayEstimate  BY <4>2, <4>3, <4>4 DEF DelayEstimate
      <4> QED  BY <1>0, <4>5
    <3>2. aggregated' = None  BY <1>2, <3>1
    <3>3. delay_samples_' = delay_samples_  BY <3>2 DEF GetDelay
    <3> QED  BY <1>2, <3>3
  <2> QED  BY <1>1, <2>1, <2>2 DEF ControllerTypes, DelayIsCausal
<1>3. CASE delay_samples_' # None
  <2> DEFINE limit == IF last_delay_estimate_quality_ = "refined" /\ delay_samples_'.quality = "refined"
                      THEN HysteresisLimit ELSE 0
  <2>1. /\ delay_' = ComputeBufferDelay(delay_, limit, delay_samples_')
        /\ last_delay_estimate_quality_' = delay_samples_'.quality
    BY <1>3 DEF GetDelay
  <2>2. limit \in 0 .. HysteresisLimit /\ limit \in Nat  BY <1>0
  <2>3. delay_samples_' \in DelayEstimate /\ delay_ \in DelayEstimate \cup {None}
    BY <1>1, <1>3 DEF ControllerTypes
  <2> HIDE DEF limit
  <2>4. /\ delay_' \in DelayEstimate
        /\ BlocksOf(delay_samples_'.delay) \in delay_'.delay .. delay_'.delay + limit
    BY <2>1, <2>2, <2>3, BufferDelay
  <2>5. delay_'.delay \in Nat /\ last_delay_estimate_quality_' \in {"coarse", "refined"}
    BY <2>1, <2>3, <2>4 DEF DelayEstimate
  <2>6. BlocksOf(delay_samples_'.delay) \in delay_'.delay .. delay_'.delay + HysteresisLimit
    BY <1>0, <2>2, <2>4, <2>5
  <2> QED  BY <1>1, <1>3, <2>4, <2>5, <2>6 DEF DelayIsCausal
<1> QED  BY <1>2, <1>3

\* A refined estimate is a lag, which is what the clockdrift detector is given.
LEMMA WatchTypes ==
  ASSUME ControllerTypes, AggregatorInv', WatchClockdrift
  PROVE  /\ delay_history_' \in [1 .. 3 -> Lag]
         /\ level_' \in {"none", "probable", "verified"}
         /\ stability_counter_' \in 0 .. StabilityLimit + 1
<1>1. aggregated' # None => aggregated'.delay \in Lag  BY DEF AggregatorInv, EstimateLeads
<1>2. CASE aggregated' # None /\ aggregated'.quality = "refined"
  BY <1>1, <1>2, UpdateTypes DEF WatchClockdrift
<1>3. CASE ~(aggregated' # None /\ aggregated'.quality = "refined")
  BY <1>3 DEF WatchClockdrift, clockdriftVars, ControllerTypes
<1> QED  BY <1>2, <1>3

\* Every operation keeps the types.
LEMMA ControllerTypesNext ==
  ControllerTypes /\ AggregatorInv' /\ [Next]_vars => ControllerTypes'
<1> SUFFICES ASSUME ControllerTypes, AggregatorInv', [Next]_vars PROVE ControllerTypes'
  OBVIOUS
<1>0. /\ aggregated' \in DelayEstimate \cup {None} /\ ConsistentLimit \in Nat
  BY LimitsAssumption DEF AggregatorInv, AggregatorTypeOK
<1>1. ASSUME NEW lag \in Lag \cup {None}, GetDelay(lag) PROVE ControllerTypes'
  <2>1. WatchClockdrift /\ CountConsistent /\ restarted' = FALSE  BY <1>1 DEF GetDelay, EstimateDelay
  <2>2. /\ old_aggregated_lag_' \in DelayEstimate \cup {None}
        /\ consistent_estimate_counter_' \in 0 .. ConsistentLimit
    BY <1>0, <2>1 DEF CountConsistent, ControllerTypes
  <2>3. /\ delay_' \in DelayEstimate \cup {None} /\ delay_samples_' \in DelayEstimate \cup {None}
        /\ last_delay_estimate_quality_' \in {"coarse", "refined"}
    BY <1>0, <1>1, GetDelayEffect
  <2>4. restarted' \in BOOLEAN  BY <2>1
  <2> QED  BY <2>1, <2>2, <2>3, <2>4, WatchTypes DEF ControllerTypes
<1>2. ASSUME NEW reset_delay_confidence \in BOOLEAN, Reset(reset_delay_confidence)
      PROVE  ControllerTypes'
  <2>1. /\ old_aggregated_lag_' = None /\ consistent_estimate_counter_' = 0
        /\ UNCHANGED <<delay_history_, level_, stability_counter_>>
        /\ delay_' = None /\ delay_samples_' = None
        /\ last_delay_estimate_quality_' = "coarse"
             \/ last_delay_estimate_quality_' = last_delay_estimate_quality_
    BY <1>2 DEF Reset, ResetEstimator, clockdriftVars
  <2>2. restarted' \in BOOLEAN  BY <1>2 DEF Reset
  <2> QED  BY <1>0, <2>1, <2>2 DEF ControllerTypes
<1>3. CASE UNCHANGED vars
  BY <1>3 DEF vars, clockdriftVars, estimatorVars, controllerVars, ControllerTypes
<1> QED  BY <1>1, <1>2, <1>3 DEF Next

\* The constructor establishes them.
LEMMA ControllerTypesInit == Init => ControllerTypes
<1> SUFFICES ASSUME Init PROVE ControllerTypes
  OBVIOUS
<1>0. 0 \in Lag /\ 0 \in 0 .. StabilityLimit + 1 /\ 0 \in 0 .. ConsistentLimit
  BY HistogramAssumption, StabilityAssumption, LimitsAssumption DEF Lag
<1>1. restarted \in BOOLEAN  BY DEF Init
<1> QED  BY <1>0, <1>1 DEF Init, ClockdriftInit, ControllerTypes

\* The types hold in every reachable state.
LEMMA ControllerTypesAlways == Spec => []ControllerTypes
<1>1. Init => ControllerTypes  BY ControllerTypesInit
<1>2. ControllerTypes /\ AggregatorInv' /\ [Next]_vars => ControllerTypes'
  BY ControllerTypesNext
<1> QED  BY <1>1, <1>2, AggregatorInvAlways, PTL DEF Spec

\* Every reachable state is well typed: the index of the window stays inside it,
\* every estimate is a number of samples, and no counter passes its limit.
THEOREM TypeCorrect == Spec => []TypeOK
<1>1. AggregatorInv /\ ControllerTypes => TypeOK
  BY DEF AggregatorInv, ControllerTypes, TypeOK
<1> QED  BY <1>1, AggregatorInvAlways, ControllerTypesAlways, PTL

\* Every operation keeps the delay with the estimate.
LEMMA CausalNext ==
  ControllerTypes /\ AggregatorInv' /\ DelayIsCausal /\ [Next]_vars => DelayIsCausal'
<1> SUFFICES ASSUME ControllerTypes, AggregatorInv', DelayIsCausal, [Next]_vars
             PROVE  DelayIsCausal'
  OBVIOUS
<1>0. aggregated' \in DelayEstimate \cup {None}  BY DEF AggregatorInv, AggregatorTypeOK
<1>1. ASSUME NEW lag \in Lag \cup {None}, GetDelay(lag) PROVE DelayIsCausal'
  BY <1>0, <1>1, GetDelayEffect
<1>2. ASSUME NEW reset_delay_confidence \in BOOLEAN, Reset(reset_delay_confidence)
      PROVE  DelayIsCausal'
  BY <1>2 DEF Reset, DelayIsCausal
<1>3. CASE UNCHANGED vars
  BY <1>3 DEF vars, controllerVars, DelayIsCausal
<1> QED  BY <1>1, <1>2, <1>3 DEF Next

\* The buffer is never aligned later than the echo, for every headroom, block size
\* and hysteresis.
THEOREM AlwaysCausal == Spec => []DelayIsCausal
<1>1. Init => DelayIsCausal  BY DEF Init, DelayIsCausal
<1>2. ControllerTypes /\ AggregatorInv' /\ DelayIsCausal /\ [Next]_vars => DelayIsCausal'
  BY CausalNext
<1> QED  BY <1>1, <1>2, ControllerTypesAlways, AggregatorInvAlways, PTL DEF Spec

-----------------------------------------------------------------------------
(* Clockdrift.                                                             *)

\* A new delay never takes a verified drift back; an unchanged one does so only
\* beyond the limit.
LEMMA UpdateKeepsVerified ==
  ASSUME NEW delay, Update(delay), level_ = "verified", level_' # "verified"
  PROVE  level_' = "none" /\ stability_counter_' > StabilityLimit
<1>1. CASE delay = delay_history_[1]
  BY <1>1 DEF Update
<1>2. CASE delay # delay_history_[1]
  BY <1>2 DEF Update
<1> QED  BY <1>1, <1>2

\* Only stability clears a verified drift, for every limit and every sequence of
\* estimates and resets.
THEOREM DriftStays == Spec => DriftOnlyClearedByStability
<1>1. ASSUME [Next]_vars, level_ = "verified", level_' # "verified"
      PROVE  level_' = "none" /\ stability_counter_' > StabilityLimit
  <2>1. ASSUME NEW lag \in Lag \cup {None}, GetDelay(lag)
        PROVE  level_' = "none" /\ stability_counter_' > StabilityLimit
    <3>1. WatchClockdrift  BY <2>1 DEF GetDelay, EstimateDelay
    <3>2. Update(aggregated'.delay)  BY <1>1, <3>1 DEF WatchClockdrift, clockdriftVars
    <3> QED  BY <1>1, <3>2, UpdateKeepsVerified
  <2>2. ASSUME NEW reset_delay_confidence \in BOOLEAN, Reset(reset_delay_confidence)
        PROVE  FALSE
    BY <1>1, <2>2 DEF Reset, ResetEstimator, clockdriftVars
  <2>3. CASE UNCHANGED vars
    BY <1>1, <2>3 DEF vars, clockdriftVars
  <2> QED  BY <1>1, <2>1, <2>2, <2>3 DEF Next
<1>2. [Next]_vars => [level_ = "verified" /\ level_' # "verified" =>
                        level_' = "none" /\ stability_counter_' > StabilityLimit]_vars
  BY <1>1
<1> QED  BY <1>2, PTL DEF Spec, DriftOnlyClearedByStability
=============================================================================
