-------------------------- MODULE AdaptiveFirFilter --------------------------
(***************************************************************************)
(* AdaptiveFirFilter (src/audio_processing/aec3/adaptive_fir_filter.cc):   *)
(* which partitions of the filter are in use while its size changes over a *)
(* number of blocks, and which one is constrained next.  A filter is a     *)
(* record; of the coefficients of a partition we keep whether they are     *)
(* zero, were adapted since they were last zeroed ("live"), or were left   *)
(* behind when the partition went out of use ("stale").                    *)
(***************************************************************************)
EXTENDS Integers, FiniteSetsExt

CONSTANT ChangeDuration   \* config.filter.config_change_duration_blocks, 250.

ASSUME DurationAssumption == ChangeDuration \in Nat \ {0}

NewFilter(max, initial) ==
  [max |-> max, current |-> initial, target |-> initial, old_target |-> initial,
   change_counter |-> 0, partition_to_constrain |-> 0,
   H |-> [p \in 0 .. max - 1 |-> "zero"]]

\* Variant with a mistake: nothing is zeroed.
ZeroNothing(H, from, to) == H

ZeroFilter(H, from, to) == [p \in DOMAIN H |-> IF from <= p /\ p < to THEN "zero" ELSE H[p]]

\* The filter with another number of partitions in use; those that come into
\* use are zeroed, those that go out of use keep what is in them.
Resize(f, size) ==
  LET left == [p \in DOMAIN f.H |->
                 IF size <= p /\ p < f.current /\ f.H[p] = "live" THEN "stale" ELSE f.H[p]]
  IN [f EXCEPT !.current = size, !.H = ZeroFilter(left, f.current, size)]

FilterHandleEchoPathChange(f) == [f EXCEPT !.H = ZeroFilter(@, f.current, f.max)]

\* Variant with a mistake: an immediate change forgets the partition to constrain.
SetSizeOnly(f, size, immediate) ==
  LET target == Min({f.max, size})
  IN IF immediate
     THEN [Resize(f, target) EXCEPT !.target = target, !.old_target = target,
                                    !.change_counter = 0]
     ELSE [f EXCEPT !.target = target, !.change_counter = ChangeDuration]

SetSizePartitions(f, size, immediate) ==
  LET target == Min({f.max, size})
  IN IF immediate
     THEN [Resize(f, target) EXCEPT !.target = target, !.old_target = target,
                                    !.change_counter = 0,
                                    !.partition_to_constrain = Min({@, target - 1})]
     ELSE [f EXCEPT !.target = target, !.change_counter = ChangeDuration]

\* Variant with a mistake: the weights are exchanged.
AverageExchanged(f, weight) ==
  {(f.target * weight + f.old_target * (ChangeDuration - weight)) \div ChangeDuration}

\* The weighted average of old and new size, cut down to an integer.  In single
\* precision a whole number may come out just below itself, and is then cut down
\* to the one before (1 to 4 partitions over 3 blocks does, 13 to 13 over 250 too,
\* 12 to 13 over 250 does not).
Average(f, weight) ==
  LET sum   == f.old_target * weight + f.target * (ChangeDuration - weight)
      whole == sum \div ChangeDuration
  IN IF weight > 0 /\ sum % ChangeDuration = 0 /\ whole > 1 THEN {whole - 1, whole} ELSE {whole}

\* The sizes UpdateSize may arrive at.
NextSizes(f) == IF f.change_counter > 0 THEN Average(f, f.change_counter - 1) ELSE {f.target}

UpdateSize(f, size) ==
  IF f.change_counter > 0
  THEN [Resize(f, size) EXCEPT !.change_counter = @ - 1,
                               !.partition_to_constrain = Min({@, size - 1})]
  ELSE [Resize(f, size) EXCEPT !.old_target = f.target]

\* Adapt: the size, then the partitions in use, then the next one to constrain.
Adapt(f, size) ==
  [UpdateSize(f, size) EXCEPT
     !.H = [p \in DOMAIN @ |-> IF p < size /\ @[p] = "zero" THEN "live" ELSE @[p]],
     !.partition_to_constrain = IF @ < size - 1 THEN @ + 1 ELSE 0]

\* Copies the partitions that both filters use.
SetFilter(f, other) ==
  [f EXCEPT !.H = [p \in DOMAIN @ |-> IF p < f.current /\ p < other.current
                                      THEN other.H[p] ELSE @[p]]]
=============================================================================
