---------------------- MODULE MatchedFilterLagAggregator ----------------------
(***************************************************************************)
(* MatchedFilterLagAggregator                                              *)
(* (src/audio_processing/aec3/matched_filter_lag_aggregator.cc): a vote    *)
(* over the last lags of the matched filters.  Of the lag estimates of one *)
(* block only the strongest reliable one counts: it is the input, or None. *)
(***************************************************************************)
EXTENDS Integers, FiniteSets

CONSTANTS
  HistogramSize,       \* histogram_data_.size(), 250.
  MaxLag,              \* max_filter_lag.
  InitialThreshold,    \* delay_selection_thresholds.initial, 5.
  ConvergedThreshold,  \* delay_selection_thresholds.converged, 20.
  None                 \* An empty absl::optional.

ASSUME HistogramAssumption == HistogramSize \in Nat \ {0} /\ MaxLag \in Nat
\* The RTC_DCHECK_LE of the constructor; Validate lets both be as high as 250.
ASSUME ThresholdAssumption == /\ InitialThreshold \in Nat /\ ConvergedThreshold \in Nat
                              /\ InitialThreshold <= ConvergedThreshold
VARIABLES histogram_, histogram_data_, histogram_data_index_,
          significant_candidate_found_,
          aggregated  \* What the last Aggregate returned, None after a Reset.

aggregatorVars == <<histogram_, histogram_data_, histogram_data_index_,
                    significant_candidate_found_, aggregated>>

Lag == 0 .. MaxLag
HistogramIndex == 0 .. HistogramSize - 1
DelayEstimate == [quality : {"coarse", "refined"}, delay : Nat]
ASSUME NoneAssumption == None \notin Nat /\ None \notin DelayEstimate

AggregatorInit ==
  /\ histogram_ = [lag \in Lag |-> 0]
  /\ histogram_data_ = [i \in HistogramIndex |-> 0]
  /\ histogram_data_index_ = 0
  /\ significant_candidate_found_ = FALSE
  /\ aggregated = None

\* Variant with a mistake: the histogram is emptied, its data are not.
ResetWithoutData(hard_reset) ==
  /\ histogram_' = [lag \in Lag |-> 0]
  /\ UNCHANGED histogram_data_
  /\ histogram_data_index_' = 0
  /\ significant_candidate_found_' = (significant_candidate_found_ /\ ~hard_reset)
  /\ aggregated' = None

\* Only a hard reset takes the confidence away.
AggregatorReset(hard_reset) ==
  /\ histogram_' = [lag \in Lag |-> 0]
  /\ histogram_data_' = [i \in HistogramIndex |-> 0]
  /\ histogram_data_index_' = 0
  /\ significant_candidate_found_' = (significant_candidate_found_ /\ ~hard_reset)
  /\ aggregated' = None

\* The first of the most frequent lags (std::max_element).
Candidate(histogram) ==
  CHOOSE lag \in Lag : /\ \A other \in Lag : histogram[other] <= histogram[lag]
                       /\ \A other \in 0 .. lag - 1 : histogram[other] < histogram[lag]

\* Variant with a mistake: the vote that leaves the window stays in the histogram.
ReplaceVoteAddOnly(lag) == [histogram_ EXCEPT ![lag] = @ + 1]

\* The oldest vote makes room for the new one.
ReplaceVote(lag) ==
  [l \in Lag |-> histogram_[l] + (IF l = lag THEN 1 ELSE 0)
                   - (IF l = histogram_data_[histogram_data_index_] THEN 1 ELSE 0)]
Significant(votes) == significant_candidate_found_ \/ votes > ConvergedThreshold
NextIndex == (histogram_data_index_ + 1) % HistogramSize

\* A block without a reliable lag estimate changes nothing and yields none.
Aggregate(lag) ==
  IF lag = None
  THEN aggregated' = None /\ UNCHANGED <<histogram_, histogram_data_, histogram_data_index_,
                                         significant_candidate_found_>>
  ELSE LET candidate == Candidate(histogram_')
           votes == histogram_'[candidate]
           significant == Significant(votes)
       IN /\ histogram_' = ReplaceVote(lag)
          /\ histogram_data_' = [histogram_data_ EXCEPT ![histogram_data_index_] = lag]
          /\ histogram_data_index_' = NextIndex
          /\ significant_candidate_found_' = significant
          /\ aggregated' = IF \/ votes > ConvergedThreshold
                              \/ votes > InitialThreshold /\ ~significant
                           THEN [quality |-> IF significant THEN "refined" ELSE "coarse",
                                 delay |-> candidate]
                           ELSE None

-----------------------------------------------------------------------------
(* Properties.                                                             *)

\* Type invariant.
AggregatorTypeOK ==
  /\ histogram_ \in [Lag -> Int]
  /\ histogram_data_ \in [HistogramIndex -> Lag]
  /\ histogram_data_index_ \in HistogramIndex
  /\ significant_candidate_found_ \in BOOLEAN
  /\ aggregated \in DelayEstimate \cup {None}

\* The histogram, only ever updated by one vote in and one vote out, counts the
\* votes of the window, through every wrap of the index and every reset.  The
\* window starts full of zeros that were never counted, so that lag 0 is always
\* HistogramSize votes behind.
Votes(lag) == Cardinality({i \in HistogramIndex : histogram_data_[i] = lag})
HistogramCountsWindow ==
  \A lag \in Lag : histogram_[lag] = Votes(lag) - (IF lag = 0 THEN HistogramSize ELSE 0)

\* Lag 0 can therefore never win the vote, however often it is estimated; any
\* other estimate has the most votes of the window, and more than the threshold
\* of its quality.
EstimateWonTheVote ==
  aggregated # None =>
    /\ aggregated.delay # 0
    /\ \A lag \in Lag \ {0} : Votes(lag) <= Votes(aggregated.delay)
    /\ Votes(aggregated.delay) >
         (IF aggregated.quality = "refined" THEN ConvergedThreshold ELSE InitialThreshold)

=============================================================================
