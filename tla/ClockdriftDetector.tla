-------------------------- MODULE ClockdriftDetector --------------------------
(***************************************************************************)
(* ClockdriftDetector (src/audio_processing/aec3/clockdrift_detector.cc):  *)
(* recognises a delay that moves steadily by small steps.                  *)
(***************************************************************************)
EXTENDS Integers

CONSTANT StabilityLimit  \* 7500 updates without a change.
ASSUME StabilityAssumption == StabilityLimit \in Nat

VARIABLES delay_history_,     \* The last three different delays, newest first.
          level_, stability_counter_

clockdriftVars == <<delay_history_, level_, stability_counter_>>

ClockdriftInit ==
  /\ delay_history_ = <<0, 0, 0>>
  /\ level_ = "none"
  /\ stability_counter_ = 0

\* The patterns, as the earlier delays relative to the new one: two steps that
\* reach 2 in either order, and a third further one.
ProbableDrift(d, sign) == <<sign * d[1], sign * d[2]>> \in {<<1, 2>>, <<2, 1>>}
VerifiedDrift(d, sign) == ProbableDrift(d, sign) /\ sign * d[3] = 3

\* Beyond the limit the counter makes no difference any more and stays.
CountedOn(counter) == IF counter > StabilityLimit THEN counter ELSE counter + 1

\* Variant with a mistake: a probable drift replaces a verified one.
UpdateDowngrading(delay_estimate) ==
  LET d == [i \in 1 .. 3 |-> delay_history_[i] - delay_estimate] IN
  IF delay_estimate = delay_history_[1]
  THEN /\ stability_counter_' = CountedOn(stability_counter_)
       /\ level_' = IF stability_counter_' > StabilityLimit THEN "none" ELSE level_
       /\ UNCHANGED delay_history_
  ELSE /\ stability_counter_' = 0
       /\ level_' = IF \E sign \in {1, -1} : VerifiedDrift(d, sign) THEN "verified"
                   ELSE IF \E sign \in {1, -1} : ProbableDrift(d, sign) THEN "probable"
                   ELSE level_
       /\ delay_history_' = <<delay_estimate, delay_history_[1], delay_history_[2]>>

\* An unchanged delay only counts as stability; any other shifts the history.
Update(delay_estimate) ==
  LET d == [i \in 1 .. 3 |-> delay_history_[i] - delay_estimate] IN
  IF delay_estimate = delay_history_[1]
  THEN /\ stability_counter_' = CountedOn(stability_counter_)
       /\ level_' = IF stability_counter_' > StabilityLimit THEN "none" ELSE level_
       /\ UNCHANGED delay_history_
  ELSE /\ stability_counter_' = 0
       /\ level_' = IF \E sign \in {1, -1} : VerifiedDrift(d, sign) THEN "verified"
                   ELSE IF level_ = "none" /\ \E sign \in {1, -1} : ProbableDrift(d, sign)
                        THEN "probable" ELSE level_
       /\ delay_history_' = <<delay_estimate, delay_history_[1], delay_history_[2]>>
=============================================================================
