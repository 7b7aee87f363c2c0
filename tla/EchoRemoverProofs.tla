-------------------------- MODULE EchoRemoverProofs --------------------------
(***************************************************************************)
(* Theorems about EchoRemover, for all sizes of the filters, all durations *)
(* and thresholds, and whatever the analyzers find.                        *)
(***************************************************************************)
EXTENDS EchoRemover, TLAPS

-----------------------------------------------------------------------------
(* The parts of AecState.                                                  *)

\* Which parts AecState has, and which parts these have.
AecParts(a) ==
  /\ DOMAIN a = {"saturated", "strong", "analyzer", "delay", "initial", "transparent", "quality"}
  /\ DOMAIN a.initial = {"state", "transition", "strong"}
  /\ DOMAIN a.transparent = {"active", "blocks", "strong", "sane_observed", "since_sane",
                             "finite_erl", "recent_convergence", "non_converged",
                             "active_non_converged", "converged", "diverged"}
  /\ DOMAIN a.quality = {"usable", "since_start", "since_reset", "convergence_seen"}

\* The four counters of CountersInStep agree, as a fact about any state of AecState.
InStep(a) ==
  a.initial.strong = a.strong /\ a.transparent.strong = a.strong
  /\ a.quality.since_reset = a.strong

\* A delay change sets all of them to zero, and begins an initial state.
LEMMA ResetAgrees ==
  ASSUME NEW a, AecParts(a), NEW saturated
  PROVE  LET b == UpdateCaptureSaturation(a, saturated) IN
         /\ AecParts(b) /\ b.initial = a.initial /\ (InStep(a) => InStep(b))
         /\ AecParts(AecReset(b)) /\ InStep(AecReset(b)) /\ AecReset(b).initial.state
BY DEF AecParts, InStep, UpdateCaptureSaturation, AecReset, InitialStateReset,
       TransparentReset, QualityReset

\* What the updates of the three parts leave in them, whatever they are given.
LEMMA TransparentCounts ==
  ASSUME NEW t, NEW in, NEW delay, NEW adapting,
         DOMAIN t = {"active", "blocks", "strong", "sane_observed", "since_sane", "finite_erl",
                     "recent_convergence", "non_converged", "active_non_converged",
                     "converged", "diverged"}
  PROVE  LET u == TransparentUpdate(t, in, delay, adapting) IN
         DOMAIN u = DOMAIN t /\ u.strong = t.strong + Count(adapting)
<1> DEFINE counted == TransparentCounters(t, in, delay, adapting)
<1>1. DOMAIN counted = DOMAIN t /\ counted.strong = t.strong + Count(adapting)
  BY DEF TransparentCounters
<1> HIDE DEF counted
<1> QED  BY <1>1 DEF TransparentUpdate, counted

\* The initial state: its counter, and that its end is announced when it comes.
LEMMA InitialCounts ==
  ASSUME NEW i, NEW adapting
  PROVE  LET u == InitialStateUpdate(i, adapting) IN
         /\ DOMAIN u = {"state", "transition", "strong"}
         /\ u.strong = i.strong + Count(adapting)
         /\ ~u.state /\ ~u.transition => ~i.state
BY DEF InitialStateUpdate

\* The filter quality: its counter, and no linear filter in transparent mode.
LEMMA QualityCounts ==
  ASSUME NEW q, NEW in, NEW transparentMode, NEW adapting
  PROVE  LET u == QualityUpdate(q, in, transparentMode, adapting) IN
         /\ DOMAIN u = {"usable", "since_start", "since_reset", "convergence_seen"}
         /\ u.since_reset = q.since_reset + Count(adapting)
         /\ u.usable => ~transparentMode
BY DEF QualityUpdate

\* A block of strong render counts for all of them.
LEMMA UpdateAgrees ==
  ASSUME NEW a, AecParts(a), NEW in
  PROVE  LET b == AecUpdate(a, in) IN
         /\ AecParts(b) /\ (InStep(a) => InStep(b))
         /\ ~b.initial.state /\ ~b.initial.transition => ~a.initial.state
         /\ ~(b.transparent.active /\ b.quality.usable)
<1> DEFINE b == AecUpdate(a, in)
<1>1. PICK adapting, analyzer, delay, min, transparent, quality, initial :
        /\ initial = InitialStateUpdate(a.initial, adapting)
        /\ transparent = TransparentUpdate(a.transparent, in, min, adapting)
        /\ quality = QualityUpdate(a.quality, in, transparent.active, adapting)
        /\ b = [a EXCEPT !.analyzer = analyzer, !.delay = delay, !.strong = @ + Count(adapting),
                         !.initial = initial, !.transparent = transparent, !.quality = quality]
  BY Zenon DEF AecUpdate
<1>2. /\ DOMAIN transparent = DOMAIN a.transparent
      /\ transparent.strong = a.transparent.strong + Count(adapting)
  BY <1>1, TransparentCounts DEF AecParts
<1>3. /\ DOMAIN quality = {"usable", "since_start", "since_reset", "convergence_seen"}
      /\ quality.since_reset = a.quality.since_reset + Count(adapting)
      /\ quality.usable => ~transparent.active
  BY <1>1, QualityCounts
<1>4. /\ DOMAIN initial = {"state", "transition", "strong"}
      /\ initial.strong = a.initial.strong + Count(adapting)
      /\ ~initial.state /\ ~initial.transition => ~a.initial.state
  BY <1>1, InitialCounts
<1> HIDE DEF b
<1>5. /\ DOMAIN b = DOMAIN a
      /\ b.strong = a.strong + Count(adapting)
      /\ b.initial = initial /\ b.transparent = transparent /\ b.quality = quality
  BY <1>1 DEF AecParts
<1> QED  BY <1>2, <1>3, <1>4, <1>5 DEF AecParts, InStep, b

\* The inductive invariant for AecState.  Its third part is what TransitionNotMissed
\* lacks: a transition that is announced has been handled before the update that
\* withdraws it.
Agreement ==
  /\ AecParts(aec_state_) /\ suppression_initial \in BOOLEAN
  /\ CountersInStep /\ TransparentOrLinear /\ TransitionNotMissed
  /\ phase = "subtract" /\ aec_state_.initial.transition => ~suppression_initial

\* It holds initially and every step of the echo remover keeps it.
LEMMA AgreementInductive == Spec => []Agreement
<1>1. Init => Agreement
  <2>1. AecParts(NewAecState)
    BY DEF AecParts, NewAecState
  <2>2. /\ InStep(NewAecState)
        /\ NewAecState.initial.state /\ ~NewAecState.initial.transition
        /\ ~NewAecState.quality.usable
    BY DEF InStep, NewAecState
  <2>3. Init => aec_state_ = NewAecState /\ suppression_initial = TRUE
    BY DEF Init
  <2> QED  BY <2>1, <2>2, <2>3 DEF Agreement, InStep, CountersInStep, TransparentOrLinear,
                                   TransitionNotMissed
<1>2. Agreement /\ [Next]_vars => Agreement'
  <2> SUFFICES ASSUME Agreement, [Next]_vars PROVE Agreement'
    OBVIOUS
  <2> USE DEF Agreement, CountersInStep, TransparentOrLinear, TransitionNotMissed
  <2>1. CASE BeginFrame
    BY <2>1 DEF BeginFrame
  <2>2. ASSUME NEW delay_change \in BOOLEAN, AdjustToChange(delay_change)
        PROVE  Agreement'
    <3> DEFINE b == UpdateCaptureSaturation(aec_state_, saturation)
    <3>0. AecParts(aec_state_) /\ InStep(aec_state_)
      BY DEF InStep
    <3>1. /\ aec_state_' = IF delay_change THEN AecReset(b) ELSE b
          /\ suppression_initial' = (~aec_state_'.initial.transition
                                       /\ (delay_change \/ suppression_initial))
          /\ phase' = "subtract"
      BY <2>2 DEF AdjustToChange
    <3>2. /\ AecParts(b) /\ b.initial = aec_state_.initial /\ InStep(b)
          /\ AecParts(AecReset(b)) /\ InStep(AecReset(b)) /\ AecReset(b).initial.state
      BY <3>0, ResetAgrees, Zenon
    <3> HIDE DEF b
    <3> QED  BY <3>1, <3>2 DEF InStep
  <2>3. CASE ProcessBlock
    <3>0. AecParts(aec_state_) /\ InStep(aec_state_)
      BY DEF InStep
    <3>1. PICK in : aec_state_' = AecUpdate(aec_state_, in)
      BY <2>3, Zenon DEF ProcessBlock
    <3>2. /\ AecParts(aec_state_') /\ InStep(aec_state_')
          /\ ~aec_state_'.initial.state /\ ~aec_state_'.initial.transition
               => ~aec_state_.initial.state
          /\ ~(aec_state_'.transparent.active /\ aec_state_'.quality.usable)
      BY <3>0, <3>1, UpdateAgrees, Zenon
    <3>3. phase = "subtract" /\ phase' = "adjust" /\ suppression_initial' = suppression_initial
      BY <2>3 DEF ProcessBlock
    <3> QED  BY <3>2, <3>3 DEF InStep
  <2>4. CASE UNCHANGED vars
    BY <2>4 DEF vars, AecParts
  <2> QED  BY <2>1, <2>2, <2>3, <2>4 DEF Next
<1> QED  BY <1>1, <1>2, PTL DEF Spec

\* The counters of the four classes agree after any sequence of delay changes,
\* silent and saturated blocks.
THEOREM CountersAgree == Spec => []CountersInStep
<1>1. Agreement => CountersInStep  BY DEF Agreement
<1> QED  BY <1>1, AgreementInductive, PTL

\* However delay changes and the end of the initial state meet, the end is acted on.
THEOREM EndNotMissed == Spec => []TransitionNotMissed
<1>1. Agreement => TransitionNotMissed  BY DEF Agreement
<1> QED  BY <1>1, AgreementInductive, PTL

\* The suppressor is not told to be transparent and to use the linear filter both.
THEOREM ModesExclusive == Spec => []TransparentOrLinear
<1>1. Agreement => TransparentOrLinear  BY DEF Agreement
<1> QED  BY <1>1, AgreementInductive, PTL

-----------------------------------------------------------------------------
(* Level changes.                                                          *)

\* Once a level change was acted on, the hangover lasts for the blocks of the frame
\* that are still to be adjusted to it.
HangoverLasts ==
  /\ gain_change_hangover_ \in 0 .. MaxBlocksPerFrame /\ acted \in Nat /\ frame_size \in {2, 3} /\ left \in 0 .. 3
  /\ phase \in {"adjust", "subtract"} /\ (phase = "subtract" => left > 0)
  /\ acted <= 1
  /\ acted = 1 /\ phase = "subtract" => gain_change_hangover_ >= left - 1
  /\ acted = 1 /\ phase = "adjust" => gain_change_hangover_ >= left

\* It holds initially and every step keeps it, if a hangover is as long as a frame.
LEMMA HangoverInductive == Spec => []HangoverLasts
<1>1. Init => HangoverLasts
  BY BlocksAssumption DEF Init, HangoverLasts
<1>2. HangoverLasts /\ [Next]_vars => HangoverLasts'
  <2> SUFFICES ASSUME HangoverLasts, [Next]_vars PROVE HangoverLasts'
    OBVIOUS
  <2> USE DEF HangoverLasts
  <2>1. CASE BeginFrame
    BY <2>1 DEF BeginFrame
  <2>2. ASSUME NEW delay_change \in BOOLEAN, AdjustToChange(delay_change)
        PROVE  HangoverLasts'
    <3>1. PICK acts \in BOOLEAN :
            /\ acts => gain_change_hangover_ = 0
            /\ gain_change_hangover_' = Hangover(acts)
            /\ acted' = acted + Count(acts)
      BY <2>2 DEF AdjustToChange
    <3>2. /\ phase = "adjust" /\ phase' = "subtract" /\ left > 0 /\ left' = left
          /\ frame_size' = frame_size
      BY <2>2 DEF AdjustToChange, frameVars
    <3>3. CASE acts
      BY <3>1, <3>2, <3>3, BlocksAssumption DEF Hangover, Count
    <3>4. CASE ~acts
      BY <3>1, <3>2, <3>4, BlocksAssumption DEF Hangover, Count
    <3> QED  BY <3>3, <3>4
  <2>3. CASE ProcessBlock
    BY <2>3 DEF ProcessBlock
  <2>4. CASE UNCHANGED vars
    BY <2>4 DEF vars, frameVars
  <2> QED  BY <2>1, <2>2, <2>3, <2>4 DEF Next
<1> QED  BY <1>1, <1>2, PTL DEF Spec

\* A level change is acted on once per frame, however its blocks fall.
THEOREM OncePerFrame == Spec => []GainChangeOncePerFrame
<1>1. HangoverLasts => GainChangeOncePerFrame
  BY DEF HangoverLasts, GainChangeOncePerFrame
<1> QED  BY <1>1, HangoverInductive, PTL

-----------------------------------------------------------------------------
(* One filter.                                                             *)

\* What SetSizePartitions and UpdateSize need of std::min.
LEMMA MinOfTwo ==
  ASSUME NEW a \in Int, NEW b \in Int
  PROVE  Min({a, b}) = IF a <= b THEN a ELSE b
<1> DEFINE Least(x) == x \in {a, b} /\ \A y \in {a, b} : x <= y
<1>1. \E x : Least(x)
  <2>1. CASE a <= b  BY <2>1
  <2>2. CASE ~(a <= b)  BY <2>2
  <2> QED  BY <2>1, <2>2
<1>2. Min({a, b}) = CHOOSE x : Least(x)
  BY Zenon DEF Min
<1>3. Least(Min({a, b}))
  BY <1>1, <1>2, Zenon
<1> QED  BY <1>3

\* What is true of a filter between two operations: it has its type, constrains a
\* partition in use, and has nothing stale in use.
NoneStale(f) == \A p \in 0 .. f.current - 1 : f.H[p] # "stale"
Sound(f, max) == f \in FilterType(max) /\ f.partition_to_constrain < f.current /\ NoneStale(f)

\* A filter is sound when it is constructed.
LEMMA NewIsSound ==
  ASSUME NEW max \in Nat \ {0}, NEW initial \in 1 .. max
  PROVE  Sound(NewFilter(max, initial), max) /\ NewFilter(max, initial).target = initial
BY DurationAssumption DEF Sound, NoneStale, FilterType, NewFilter

\* ZeroFilter touches the partitions from "from" to below "to", no other.
LEMMA ZeroFilterZeroes ==
  ASSUME NEW n \in Nat, NEW H \in [0 .. n - 1 -> {"zero", "live", "stale"}],
         NEW from \in Int, NEW to \in Int
  PROVE  /\ ZeroFilter(H, from, to) \in [0 .. n - 1 -> {"zero", "live", "stale"}]
         /\ \A p \in 0 .. n - 1 :
              ZeroFilter(H, from, to)[p] = IF from <= p /\ p < to THEN "zero" ELSE H[p]
BY DEF ZeroFilter

\* Resize changes the size and brings nothing stale into use.
LEMMA ResizeIsSound ==
  ASSUME NEW max \in Nat \ {0}, NEW f \in FilterType(max), NoneStale(f), NEW size \in 1 .. max
  PROVE  LET g == Resize(f, size) IN
         /\ g \in FilterType(max) /\ NoneStale(g) /\ g.current = size
         /\ g.target = f.target /\ g.old_target = f.old_target
         /\ g.change_counter = f.change_counter
         /\ g.partition_to_constrain = f.partition_to_constrain
<1> DEFINE behind == [p \in DOMAIN f.H |->
                      IF size <= p /\ p < f.current /\ f.H[p] = "live" THEN "stale" ELSE f.H[p]]
           H    == ZeroFilter(behind, f.current, size)
<1>1. /\ f.current \in 1 .. max /\ DOMAIN f.H = 0 .. max - 1
      /\ f.H \in [0 .. max - 1 -> {"zero", "live", "stale"}]
  BY DEF FilterType
<1>2. behind \in [0 .. max - 1 -> {"zero", "live", "stale"}]
  BY <1>1
<1>3. \A p \in 0 .. size - 1 : behind[p] = f.H[p]
  BY <1>1
<1> HIDE DEF behind
<1>4. /\ H \in [0 .. max - 1 -> {"zero", "live", "stale"}]
      /\ \A p \in 0 .. max - 1 : H[p] = IF f.current <= p /\ p < size THEN "zero" ELSE behind[p]
  BY <1>1, <1>2, ZeroFilterZeroes
<1>5. \A p \in 0 .. size - 1 : H[p] # "stale"
  BY <1>1, <1>3, <1>4 DEF NoneStale
<1>6. Resize(f, size) = [f EXCEPT !.current = size, !.H = H]
  BY Zenon DEF Resize, behind
<1> HIDE DEF H
<1>7. /\ Resize(f, size) \in FilterType(max)
      /\ Resize(f, size).H = H /\ Resize(f, size).current = size
  BY <1>4, <1>6 DEF FilterType
<1>8. /\ Resize(f, size).target = f.target /\ Resize(f, size).old_target = f.old_target
      /\ Resize(f, size).change_counter = f.change_counter
      /\ Resize(f, size).partition_to_constrain = f.partition_to_constrain
  BY <1>6 DEF FilterType
<1> QED  BY <1>5, <1>7, <1>8 DEF NoneStale

\* HandleEchoPathChange zeroes what lies beyond the partitions in use.
LEMMA PathChangeIsSound ==
  ASSUME NEW max \in Nat \ {0}, NEW f, Sound(f, max)
  PROVE  /\ Sound(FilterHandleEchoPathChange(f), max)
         /\ FilterHandleEchoPathChange(f).target = f.target
<1> DEFINE H == ZeroFilter(f.H, f.current, f.max)
<1>1. /\ f \in FilterType(max) /\ f.current \in 1 .. max /\ f.max = max
      /\ f.H \in [0 .. max - 1 -> {"zero", "live", "stale"}]
  BY DEF FilterType, Sound
<1>2. /\ H \in [0 .. max - 1 -> {"zero", "live", "stale"}]
      /\ \A p \in 0 .. max - 1 : H[p] = IF f.current <= p /\ p < f.max THEN "zero" ELSE f.H[p]
  BY <1>1, ZeroFilterZeroes
<1>3. FilterHandleEchoPathChange(f) = [f EXCEPT !.H = H]
  BY Zenon DEF FilterHandleEchoPathChange
<1> HIDE DEF H
<1>4. /\ FilterHandleEchoPathChange(f) \in FilterType(max)
      /\ FilterHandleEchoPathChange(f).H = H
      /\ FilterHandleEchoPathChange(f).current = f.current
      /\ FilterHandleEchoPathChange(f).target = f.target
      /\ FilterHandleEchoPathChange(f).partition_to_constrain = f.partition_to_constrain
  BY <1>1, <1>2, <1>3 DEF FilterType
<1>5. \A p \in 0 .. f.current - 1 : H[p] # "stale"
  BY <1>1, <1>2 DEF Sound, NoneStale
<1> QED  BY <1>4, <1>5 DEF Sound, NoneStale

\* A new size, at once or to be grown to, is the target.
LEMMA SetSizeIsSound ==
  ASSUME NEW max \in Nat \ {0}, NEW f, Sound(f, max), NEW size \in 1 .. max,
         NEW immediate \in BOOLEAN
  PROVE  /\ Sound(SetSizePartitions(f, size, immediate), max)
         /\ SetSizePartitions(f, size, immediate).target = size
<1>1. /\ f \in FilterType(max) /\ f.max = max /\ NoneStale(f)
      /\ f.partition_to_constrain \in 0 .. max - 1
  BY DEF FilterType, Sound
<1>2. Min({f.max, size}) = size
  BY <1>1, MinOfTwo
<1>3. Min({f.partition_to_constrain, size - 1}) \in 0 .. size - 1
  BY <1>1, MinOfTwo
<1>4. CASE immediate
  <2> DEFINE r == Resize(f, size)
             c == Min({f.partition_to_constrain, size - 1})
             g == [r EXCEPT !.target = size, !.old_target = size, !.change_counter = 0,
                            !.partition_to_constrain = c]
  <2>1. /\ r \in FilterType(max) /\ NoneStale(r) /\ r.current = size
        /\ r.partition_to_constrain = f.partition_to_constrain
    BY <1>1, ResizeIsSound
  <2>2. SetSizePartitions(f, size, immediate) = g
    BY <1>2, <1>4, <2>1 DEF SetSizePartitions
  <2>3. c \in 0 .. size - 1 /\ c \in 0 .. max - 1 /\ 0 \in 0 .. ChangeDuration
    BY <1>3, DurationAssumption
  <2> HIDE DEF c, r
  <2>4. g \in FilterType(max)
    BY <2>1, <2>3 DEF FilterType
  <2>5. /\ g.current = r.current /\ g.partition_to_constrain = c
        /\ g.H = r.H /\ g.target = size
    BY <2>1 DEF FilterType
  <2> QED  BY <2>1, <2>2, <2>3, <2>4, <2>5 DEF Sound, NoneStale
<1>5. CASE ~immediate
  <2> DEFINE g == [f EXCEPT !.target = size, !.change_counter = ChangeDuration]
  <2>1. SetSizePartitions(f, size, immediate) = g
    BY <1>2, <1>5 DEF SetSizePartitions
  <2>2. ChangeDuration \in 0 .. ChangeDuration
    BY DurationAssumption
  <2>3. g \in FilterType(max)
    BY <1>1, <2>2 DEF FilterType
  <2>4. /\ g.current = f.current /\ g.H = f.H /\ g.target = size
        /\ g.partition_to_constrain = f.partition_to_constrain
    BY <1>1 DEF FilterType
  <2> QED  BY <2>1, <2>3, <2>4 DEF Sound, NoneStale
<1> QED  BY <1>4, <1>5

\* The average of two sizes of 1 to max is such a size, rounded down or by one more.
LEMMA AverageBetween ==
  ASSUME NEW max \in Nat \ {0}, NEW from \in 1 .. max, NEW to \in 1 .. max,
         NEW w \in 0 .. ChangeDuration
  PROVE  /\ from * w + to * (ChangeDuration - w) \in Nat
         /\ (from * w + to * (ChangeDuration - w)) \div ChangeDuration \in 1 .. max
<1> DEFINE D == ChangeDuration
           v == D - w
           x == from * w
           y == to * v
           q == (x + y) \div D
<1>1. D \in Nat \ {0} /\ v \in Nat /\ w \in Nat /\ w + v = D
  BY DurationAssumption
<1>2. x \in Nat /\ x >= w /\ x <= max * w
  <2>1. x = w + (from - 1) * w /\ (from - 1) * w \in Nat  BY <1>1, SMTT(30)
  <2>2. max * w = x + (max - from) * w /\ (max - from) * w \in Nat  BY <1>1, SMTT(30)
  <2> QED  BY <1>1, <2>1, <2>2
<1>3. y \in Nat /\ y >= v /\ y <= max * v
  <2>1. y = v + (to - 1) * v /\ (to - 1) * v \in Nat  BY <1>1, SMTT(30)
  <2>2. max * v = y + (max - to) * v /\ (max - to) * v \in Nat  BY <1>1, SMTT(30)
  <2> QED  BY <1>1, <2>1, <2>2
<1>4. max * w + max * v = max * D
  BY <1>1, SMTT(30)
<1> HIDE DEF x, y, v, D
<1>5. x + y \in Nat /\ x + y >= D /\ x + y <= max * D
  BY <1>1, <1>2, <1>3, <1>4
<1>6. q \in Int /\ q * D <= x + y /\ x + y < (q + 1) * D
  BY <1>1, <1>5, SMTT(30)
<1>7. q >= 1
  <2>1. CASE q + 1 <= 1
    <3>1. (q + 1) * D <= D  BY <1>1, <1>6, <2>1, SMTT(30)
    <3> QED  BY <1>1, <1>5, <1>6, <3>1
  <2> QED  BY <1>6, <2>1
<1>8. q <= max
  <2>1. CASE q >= max + 1
    <3>1. q * D >= max * D + D  BY <1>1, <1>6, <2>1, SMTT(30)
    <3>2. q * D \in Int /\ max * D \in Int  BY <1>1, <1>6
    <3> QED  BY <1>1, <1>5, <1>6, <3>1, <3>2
  <2> QED  BY <1>6, <2>1
<1> QED  BY <1>5, <1>6, <1>7, <1>8 DEF x, y, v, D

\* Whatever size a filter arrives at, it is one it can have.
LEMMA NextSizesInRange ==
  ASSUME NEW max \in Nat \ {0}, NEW f \in FilterType(max)
  PROVE  NextSizes(f) \subseteq 1 .. max
<1>1. f.target \in 1 .. max /\ f.old_target \in 1 .. max /\ f.change_counter \in 0 .. ChangeDuration
  BY DEF FilterType
<1>2. CASE f.change_counter > 0
  <2> DEFINE w == f.change_counter - 1
  <2>1. w \in 0 .. ChangeDuration
    BY <1>1, <1>2, DurationAssumption
  <2>2. (f.old_target * w + f.target * (ChangeDuration - w)) \div ChangeDuration \in 1 .. max
    BY <1>1, <2>1, AverageBetween
  <2>3. NextSizes(f) = Average(f, w)
    BY <1>2 DEF NextSizes
  <2> HIDE DEF w
  <2> QED  BY <2>2, <2>3 DEF Average
<1>3. CASE ~(f.change_counter > 0)
  BY <1>1, <1>3 DEF NextSizes
<1> QED  BY <1>2, <1>3

\* UpdateSize keeps a filter sound, at any of the sizes it may arrive at.
LEMMA UpdateSizeIsSound ==
  ASSUME NEW max \in Nat \ {0}, NEW f, Sound(f, max), NEW size \in 1 .. max
  PROVE  LET u == UpdateSize(f, size) IN
         /\ u \in FilterType(max) /\ NoneStale(u) /\ u.current = size /\ u.target = f.target
<1> DEFINE r == Resize(f, size)
           c == Min({r.partition_to_constrain, size - 1})
<1>1. f \in FilterType(max) /\ NoneStale(f)
  BY DEF Sound
<1>2. /\ r \in FilterType(max) /\ NoneStale(r) /\ r.current = size
      /\ r.target = f.target /\ r.change_counter = f.change_counter
  BY <1>1, ResizeIsSound
<1>3. f.change_counter \in 0 .. ChangeDuration /\ f.target \in 1 .. max
  BY <1>1 DEF FilterType
<1>4. CASE f.change_counter > 0
  <2> DEFINE n == r.change_counter - 1
             u == [r EXCEPT !.change_counter = n, !.partition_to_constrain = c]
  <2>1. r.partition_to_constrain \in 0 .. max - 1
    BY <1>2 DEF FilterType
  <2>2. c \in 0 .. max - 1 /\ n \in 0 .. ChangeDuration
    BY <1>2, <1>3, <1>4, <2>1, MinOfTwo, DurationAssumption
  <2>3. UpdateSize(f, size) = u
    BY <1>4 DEF UpdateSize
  <2> HIDE DEF r, c, n
  <2>4. u \in FilterType(max)
    BY <1>2, <2>2 DEF FilterType
  <2>5. u.current = r.current /\ u.target = r.target /\ u.H = r.H
    BY <1>2 DEF FilterType
  <2> QED  BY <1>2, <2>3, <2>4, <2>5 DEF NoneStale
<1>5. CASE ~(f.change_counter > 0)
  <2> DEFINE u == [r EXCEPT !.old_target = f.target]
  <2>1. UpdateSize(f, size) = u
    BY <1>5 DEF UpdateSize
  <2> HIDE DEF r
  <2>2. u \in FilterType(max)
    BY <1>2, <1>3 DEF FilterType
  <2>3. u.current = r.current /\ u.target = r.target /\ u.H = r.H
    BY <1>2 DEF FilterType
  <2> QED  BY <1>2, <2>1, <2>2, <2>3 DEF NoneStale
<1> QED  BY <1>4, <1>5

\* Adapt keeps a filter sound: the next partition to constrain is in use.
LEMMA AdaptIsSound ==
  ASSUME NEW max \in Nat \ {0}, NEW f, Sound(f, max), NEW size \in 1 .. max
  PROVE  Sound(Adapt(f, size), max) /\ Adapt(f, size).target = f.target
<1> DEFINE u == UpdateSize(f, size)
           H == [p \in DOMAIN u.H |-> IF p < size /\ u.H[p] = "zero" THEN "live" ELSE u.H[p]]
           c == IF u.partition_to_constrain < size - 1 THEN u.partition_to_constrain + 1 ELSE 0
           g == [u EXCEPT !.H = H, !.partition_to_constrain = c]
<1>1. u \in FilterType(max) /\ NoneStale(u) /\ u.current = size /\ u.target = f.target
  BY UpdateSizeIsSound
<1>2. Adapt(f, size) = g
  BY Zenon DEF Adapt
<1> HIDE DEF u
<1>3. /\ u.H \in [0 .. max - 1 -> {"zero", "live", "stale"}]
      /\ u.partition_to_constrain \in 0 .. max - 1
  BY <1>1 DEF FilterType
<1>4. /\ H \in [0 .. max - 1 -> {"zero", "live", "stale"}]
      /\ \A p \in 0 .. size - 1 : H[p] # "stale"
  BY <1>1, <1>3 DEF NoneStale
<1>5. c \in 0 .. max - 1 /\ c < size
  BY <1>3
<1> HIDE DEF H, c
<1>6. g \in FilterType(max)
  BY <1>1, <1>4, <1>5 DEF FilterType
<1>7. g.H = H /\ g.partition_to_constrain = c /\ g.current = size /\ g.target = f.target
  BY <1>1 DEF FilterType
<1> QED  BY <1>2, <1>4, <1>5, <1>6, <1>7 DEF Sound, NoneStale

\* The main filter's coefficients are as good as the shadow filter's own.
LEMMA SetFilterIsSound ==
  ASSUME NEW max \in Nat \ {0}, NEW f, Sound(f, max),
         NEW n \in Nat \ {0}, NEW other, Sound(other, n)
  PROVE  Sound(SetFilter(f, other), max) /\ SetFilter(f, other).target = f.target
<1> DEFINE H == [p \in DOMAIN f.H |-> IF p < f.current /\ p < other.current
                                      THEN other.H[p] ELSE f.H[p]]
           g == [f EXCEPT !.H = H]
<1>1. /\ f \in FilterType(max) /\ f.current \in 1 .. max
      /\ f.H \in [0 .. max - 1 -> {"zero", "live", "stale"}]
      /\ other.current \in 1 .. n /\ other.H \in [0 .. n - 1 -> {"zero", "live", "stale"}]
  BY DEF FilterType, Sound
<1>2. SetFilter(f, other) = g
  BY Zenon DEF SetFilter
<1>3. /\ H \in [0 .. max - 1 -> {"zero", "live", "stale"}]
      /\ \A p \in 0 .. f.current - 1 : H[p] # "stale"
  BY <1>1 DEF Sound, NoneStale
<1> HIDE DEF H
<1>4. g \in FilterType(max)
  BY <1>1, <1>3 DEF FilterType
<1>5. /\ g.H = H /\ g.current = f.current /\ g.target = f.target
      /\ g.partition_to_constrain = f.partition_to_constrain
  BY <1>1 DEF FilterType
<1> QED  BY <1>2, <1>3, <1>4, <1>5 DEF Sound, NoneStale

-----------------------------------------------------------------------------
(* The subtractor.                                                         *)

Fields(g) == DOMAIN g = {"current", "target", "old_target", "change_counter"}

\* Both filters are sound, and they and their gains are headed for the parameters of
\* the initial state or all for the regular ones.
HeadedFor(s, initial) ==
  /\ DOMAIN s = {"main_filter", "shadow_filter", "main_gain", "shadow_gain",
                 "poor_shadow_filter_counter"}
  /\ Sound(s.main_filter, MainLength) /\ Sound(s.shadow_filter, ShadowLength)
  /\ Fields(s.main_gain) /\ Fields(s.shadow_gain)
  /\ s.main_gain.target = IF initial THEN "initial" ELSE "regular"
  /\ s.shadow_gain.target = IF initial THEN "initial" ELSE "regular"
  /\ s.main_filter.target = IF initial THEN MainInitialLength ELSE MainLength
  /\ s.shadow_filter.target = IF initial THEN ShadowInitialLength ELSE ShadowLength

\* The assumed lengths fit their filters.
LEMMA Lengths ==
  /\ MainLength \in Nat \ {0} /\ MainInitialLength \in 1 .. MainLength
  /\ ShadowLength \in Nat \ {0} /\ ShadowInitialLength \in 1 .. ShadowLength
  /\ MainLength \in 1 .. MainLength /\ ShadowLength \in 1 .. ShadowLength
BY LengthAssumption

\* SetConfig heads for the given parameters, at once or over time.
LEMMA SetConfigHeads ==
  ASSUME NEW g, Fields(g), NEW config, NEW immediate \in BOOLEAN
  PROVE  Fields(SetConfig(g, config, immediate)) /\ SetConfig(g, config, immediate).target = config
BY DEF Fields, SetConfig

\* UpdateCurrentConfig heads for the same parameters as before.
LEMMA UpdateConfigKeeps ==
  ASSUME NEW g, Fields(g)
  PROVE  Fields(UpdateCurrentConfig(g)) /\ UpdateCurrentConfig(g).target = g.target
BY DEF Fields, UpdateCurrentConfig

\* A new subtractor heads for the parameters of the initial state.
LEMMA NewHeads == HeadedFor(NewSubtractor, TRUE)
<1>1. /\ Sound(NewFilter(MainLength, MainInitialLength), MainLength)
      /\ NewFilter(MainLength, MainInitialLength).target = MainInitialLength
      /\ Sound(NewFilter(ShadowLength, ShadowInitialLength), ShadowLength)
      /\ NewFilter(ShadowLength, ShadowInitialLength).target = ShadowInitialLength
  BY Lengths, NewIsSound, Zenon
<1>2. Fields(NewGain) /\ NewGain.target = "initial"
  BY DEF Fields, NewGain
<1> QED  BY <1>1, <1>2 DEF HeadedFor, NewSubtractor

\* A delay change heads for the initial state, whatever was going on.
LEMMA ResetHeads ==
  ASSUME NEW s, NEW i \in BOOLEAN, HeadedFor(s, i)
  PROVE  HeadedFor(SubtractorReset(s), TRUE)
<1> DEFINE main    == SetSizePartitions(FilterHandleEchoPathChange(s.main_filter),
                                        MainInitialLength, TRUE)
           shadow  == SetSizePartitions(FilterHandleEchoPathChange(s.shadow_filter),
                                        ShadowInitialLength, TRUE)
           gain    == SetConfig(s.main_gain, "initial", TRUE)
           shadow_gain == SetConfig(s.shadow_gain, "initial", TRUE)
<1>1. Sound(main, MainLength) /\ main.target = MainInitialLength
  <2>1. Sound(FilterHandleEchoPathChange(s.main_filter), MainLength)
    BY Lengths, PathChangeIsSound DEF HeadedFor
  <2> QED  BY <2>1, Lengths, SetSizeIsSound
<1>2. Sound(shadow, ShadowLength) /\ shadow.target = ShadowInitialLength
  <2>1. Sound(FilterHandleEchoPathChange(s.shadow_filter), ShadowLength)
    BY Lengths, PathChangeIsSound DEF HeadedFor
  <2> QED  BY <2>1, Lengths, SetSizeIsSound
<1>3. /\ Fields(gain) /\ gain.target = "initial"
      /\ Fields(shadow_gain) /\ shadow_gain.target = "initial"
  BY SetConfigHeads, Zenon DEF HeadedFor
<1>4. SubtractorReset(s) = [s EXCEPT !.main_filter = main, !.shadow_filter = shadow,
                                     !.main_gain = gain, !.shadow_gain = shadow_gain]
  BY DEF HeadedFor, SubtractorReset
<1> HIDE DEF main, shadow, gain, shadow_gain
<1> QED  BY <1>1, <1>2, <1>3, <1>4 DEF HeadedFor

\* The end of the initial state heads for the regular parameters.
LEMMA ExitHeads ==
  ASSUME NEW s, NEW i \in BOOLEAN, HeadedFor(s, i)
  PROVE  HeadedFor(ExitInitialState(s), FALSE)
<1> DEFINE main    == SetSizePartitions(s.main_filter, MainLength, FALSE)
           shadow  == SetSizePartitions(s.shadow_filter, ShadowLength, FALSE)
           gain    == SetConfig(s.main_gain, "regular", FALSE)
           shadow_gain == SetConfig(s.shadow_gain, "regular", FALSE)
<1>0. Sound(s.main_filter, MainLength) /\ Sound(s.shadow_filter, ShadowLength)
  BY DEF HeadedFor
<1>1. Sound(main, MainLength) /\ main.target = MainLength
  <2>1. \A immediate \in BOOLEAN :
          LET f == SetSizePartitions(s.main_filter, MainLength, immediate)
          IN Sound(f, MainLength) /\ f.target = MainLength
    BY <1>0, Lengths, SetSizeIsSound
  <2> QED  BY <2>1
<1>2. Sound(shadow, ShadowLength) /\ shadow.target = ShadowLength
  <2>1. \A immediate \in BOOLEAN :
          LET f == SetSizePartitions(s.shadow_filter, ShadowLength, immediate)
          IN Sound(f, ShadowLength) /\ f.target = ShadowLength
    BY <1>0, Lengths, SetSizeIsSound
  <2> QED  BY <2>1
<1>3. /\ Fields(gain) /\ gain.target = "regular"
      /\ Fields(shadow_gain) /\ shadow_gain.target = "regular"
  BY SetConfigHeads, Zenon DEF HeadedFor
<1>4. ExitInitialState(s) = [s EXCEPT !.main_filter = main, !.shadow_filter = shadow,
                                      !.main_gain = gain, !.shadow_gain = shadow_gain]
  BY DEF HeadedFor, ExitInitialState
<1> HIDE DEF main, shadow, gain, shadow_gain
<1> QED  BY <1>1, <1>2, <1>3, <1>4 DEF HeadedFor

\* A block leaves the direction as it is.
LEMMA ProcessHeads ==
  ASSUME NEW s, NEW i \in BOOLEAN, HeadedFor(s, i), NEW misadjusted \in BOOLEAN,
         NEW worse \in BOOLEAN,
         NEW m \in NextSizes(s.main_filter), NEW n \in NextSizes(s.shadow_filter)
  PROVE  HeadedFor(SubtractorProcess(s, m, n, misadjusted, worse), i)
<1> DEFINE main     == Adapt(s.main_filter, m)
           replaced == (IF worse THEN s.poor_shadow_filter_counter + 1 ELSE 0) >= PoorShadowLimit
           basis    == IF replaced THEN SetFilter(s.shadow_filter, main) ELSE s.shadow_filter
           shadow   == Adapt(basis, n)
           gain     == IF misadjusted THEN s.main_gain ELSE UpdateCurrentConfig(s.main_gain)
           shadow_gain == UpdateCurrentConfig(s.shadow_gain)
           counter  == IF replaced THEN 0 ELSE IF worse THEN s.poor_shadow_filter_counter + 1 ELSE 0
<1>0. /\ Sound(s.main_filter, MainLength) /\ Sound(s.shadow_filter, ShadowLength)
      /\ s.main_filter \in FilterType(MainLength) /\ s.shadow_filter \in FilterType(ShadowLength)
  BY DEF HeadedFor, Sound
<1>1. m \in 1 .. MainLength /\ n \in 1 .. ShadowLength
  BY <1>0, Lengths, NextSizesInRange
<1>2. Sound(main, MainLength) /\ main.target = s.main_filter.target
  BY <1>0, <1>1, Lengths, AdaptIsSound
<1> HIDE DEF main
<1>3. Sound(basis, ShadowLength) /\ basis.target = s.shadow_filter.target
  <2>1. /\ Sound(SetFilter(s.shadow_filter, main), ShadowLength)
        /\ SetFilter(s.shadow_filter, main).target = s.shadow_filter.target
    <3>1. \A f, g : Sound(f, ShadowLength) /\ Sound(g, MainLength)
                    => /\ Sound(SetFilter(f, g), ShadowLength)
                       /\ SetFilter(f, g).target = f.target
      BY Lengths, SetFilterIsSound
    <3> QED  BY <1>0, <1>2, <3>1, Zenon
  <2> HIDE DEF replaced
  <2> QED  BY <1>0, <2>1
<1> HIDE DEF basis
<1>4. Sound(shadow, ShadowLength) /\ shadow.target = s.shadow_filter.target
  BY <1>1, <1>3, Lengths, AdaptIsSound
<1>5. /\ Fields(gain) /\ gain.target = s.main_gain.target
      /\ Fields(shadow_gain) /\ shadow_gain.target = s.shadow_gain.target
  BY UpdateConfigKeeps DEF HeadedFor
<1>6. SubtractorProcess(s, m, n, misadjusted, worse)
        = [main_filter |-> main, shadow_filter |-> shadow, main_gain |-> gain,
           shadow_gain |-> shadow_gain, poor_shadow_filter_counter |-> counter]
  BY Zenon DEF SubtractorProcess, main, basis
<1> HIDE DEF shadow, gain, shadow_gain, counter
<1> QED  BY <1>2, <1>4, <1>5, <1>6 DEF HeadedFor

\* Filters and gains follow the initial state of the suppressor.
Direction == suppression_initial \in BOOLEAN /\ HeadedFor(subtractor_, suppression_initial)

\* It holds initially and every step of the echo remover keeps it.
LEMMA DirectionInductive == Spec => []Direction
<1>1. Init => Direction
  BY NewHeads DEF Init, Direction
<1>2. Direction /\ [Next]_vars => Direction'
  <2> SUFFICES ASSUME Direction, [Next]_vars PROVE Direction'
    OBVIOUS
  <2>1. CASE BeginFrame
    BY <2>1 DEF BeginFrame, Direction
  <2>2. ASSUME NEW delay_change \in BOOLEAN, AdjustToChange(delay_change)
        PROVE  Direction'
    <3> DEFINE reset == IF delay_change THEN SubtractorReset(subtractor_) ELSE subtractor_
    <3>1. PICK transition \in BOOLEAN :
            /\ subtractor_' = IF transition THEN ExitInitialState(reset) ELSE reset
            /\ suppression_initial' = (~transition /\ (delay_change \/ suppression_initial))
      <4> DEFINE aec == IF delay_change
                        THEN AecReset(UpdateCaptureSaturation(aec_state_, saturation))
                        ELSE UpdateCaptureSaturation(aec_state_, saturation)
      <4>1. /\ subtractor_' = IF aec.initial.transition THEN ExitInitialState(reset) ELSE reset
            /\ suppression_initial' =
                 (~aec.initial.transition /\ (delay_change \/ suppression_initial))
        BY <2>2, Zenon DEF AdjustToChange
      <4> HIDE DEF aec, reset
      <4>2. CASE aec.initial.transition
        BY <4>1, <4>2
      <4>3. CASE ~aec.initial.transition
        BY <4>1, <4>3
      <4> QED  BY <4>2, <4>3
    <3>2. HeadedFor(reset, delay_change \/ suppression_initial)
      <4>1. CASE delay_change
        BY <4>1, ResetHeads DEF Direction
      <4>2. CASE ~delay_change
        BY <4>2 DEF Direction
      <4> QED  BY <4>1, <4>2
    <3> HIDE DEF reset
    <3>3. CASE transition
      BY <3>1, <3>2, <3>3, ExitHeads DEF Direction
    <3>4. CASE ~transition
      BY <3>1, <3>2, <3>4 DEF Direction
    <3> QED  BY <3>3, <3>4
  <2>3. CASE ProcessBlock
    <3>1. PICK m \in NextSizes(subtractor_.main_filter), n \in NextSizes(subtractor_.shadow_filter),
               verdict \in Verdicts :
            subtractor_' = SubtractorProcess(subtractor_, m, n, verdict.misadjusted,
                                             verdict.shadow_is_worse)
      BY <2>3 DEF ProcessBlock
    <3>2. verdict.misadjusted \in BOOLEAN /\ verdict.shadow_is_worse \in BOOLEAN
      BY InputAssumption
    <3>3. suppression_initial' = suppression_initial
      BY <2>3 DEF ProcessBlock
    <3> QED  BY <3>1, <3>2, <3>3, ProcessHeads DEF Direction
  <2>4. CASE UNCHANGED vars
    BY <2>4 DEF vars, Direction
  <2> QED  BY <2>1, <2>2, <2>3, <2>4 DEF Next
<1> QED  BY <1>1, <1>2, PTL DEF Spec

\* Filters, gains and suppressor head for the same parameters, whatever delay
\* changes and ends of the initial state there are, in any order.
THEOREM SameDirection == Spec => []ConfigurationsAgree
<1>1. Direction => ConfigurationsAgree
  BY DEF Direction, HeadedFor, ConfigurationsAgree, Gains
<1> QED  BY <1>1, DirectionInductive, PTL

\* Constrain never indexes a partition that is not in use.
THEOREM ConstrainsInUse == Spec => []ConstrainsPartitionInUse
<1>1. Direction => ConstrainsPartitionInUse
  BY DEF Direction, HeadedFor, Sound, ConstrainsPartitionInUse, Filters
<1> QED  BY <1>1, DirectionInductive, PTL

\* No partition in use holds coefficients from before it went out of use.
THEOREM NothingStale == Spec => []NoStalePartition
<1>1. Direction => NoStalePartition
  BY DEF Direction, HeadedFor, Sound, NoneStale, NoStalePartition, Filters
<1> QED  BY <1>1, DirectionInductive, PTL

-----------------------------------------------------------------------------
(* How a filter grows.                                                     *)

\* The weighted average of two sizes, one block further on: not below the size before,
\* even when a whole number is cut down to the one before it, and the new size in turn
\* is not above the exact average.
LEMMA AverageGrows ==
  ASSUME NEW from \in Nat, NEW to \in Nat, from < to, NEW w \in 0 .. ChangeDuration - 1,
         NEW current \in Nat,
         current * ChangeDuration <= from * (w + 1) + to * (ChangeDuration - (w + 1)),
         NEW f, f.old_target = from, f.target = to, NEW size \in Average(f, w)
  PROVE  /\ size \in Nat /\ current <= size /\ size <= to
         /\ size * ChangeDuration <= from * w + to * (ChangeDuration - w)
         /\ w = 0 => size = to
<1> DEFINE D == ChangeDuration
           sum == from * w + to * (D - w)
           q == sum \div D
<1>1. D \in Nat \ {0} /\ w \in Nat /\ w < D  BY DurationAssumption
<1>2. /\ sum \in Nat
      /\ from * (w + 1) + to * (D - (w + 1)) = sum - (to - from)
      /\ sum = to * D - (to - from) * w
      /\ (to - from) * w \in Nat /\ to * D \in Nat /\ (w = 0 => (to - from) * w = 0)
  BY <1>1, SMTT(30)
<1>3. current * D \in Nat /\ current * D < sum /\ sum <= to * D
  BY <1>1, <1>2
<1>4. size = q \/ (sum % D = 0 /\ size = q - 1 /\ w > 0)
  BY DEF Average
<1> HIDE DEF sum, D
<1>5. q \in Int /\ q * D <= sum /\ sum < (q + 1) * D /\ (sum % D = 0 => sum = q * D)
  BY <1>1, <1>2, SMTT(30)
<1> HIDE DEF q
<1>6. \A a \in Int, b \in Int : a * D < b * D => a < b
  BY <1>1, SMTT(30)
<1>7. \A a \in Int : (a + 1) * D = a * D + D /\ (a - 1) * D = a * D - D /\ a * D \in Int
  BY <1>1, SMTT(30)
<1>8. current <= q
  <2>1. current * D < (q + 1) * D  BY <1>3, <1>5, <1>7, <1>1, <1>2
  <2>2. q + 1 \in Int /\ current \in Int  BY <1>5
  <2>3. current < q + 1  BY <1>6, <2>1, <2>2
  <2> QED  BY <1>5, <2>3
<1>9. sum % D = 0 => current < q
  <2>1. SUFFICES ASSUME sum % D = 0 PROVE current < q  OBVIOUS
  <2>2. current * D < q * D  BY <1>3, <1>5, <2>1
  <2> QED  BY <1>5, <1>6, <2>2
<1>10. q <= to
  <2>1. q * D < (to + 1) * D  BY <1>1, <1>2, <1>3, <1>5, <1>7
  <2>2. to + 1 \in Int  OBVIOUS
  <2>3. q < to + 1  BY <1>5, <1>6, <2>1, <2>2
  <2> QED  BY <1>5, <2>3
<1>11. size \in Nat /\ current <= size /\ size <= to
  BY <1>4, <1>5, <1>8, <1>9, <1>10
<1>12. size * D <= sum
  <2>1. CASE size = q  BY <1>5, <2>1
  <2>2. CASE size = q - 1  BY <1>1, <1>2, <1>5, <1>7, <2>2
  <2> QED  BY <1>4, <2>1, <2>2
<1>13. w = 0 => size = to
  <2> SUFFICES ASSUME w = 0 PROVE size = to  OBVIOUS
  <2>1. sum = to * D  BY <1>2
  <2>2. to * D < (q + 1) * D  BY <1>5, <2>1
  <2>3. to < q + 1  BY <1>5, <1>6, <2>2
  <2> QED  BY <1>4, <1>5, <1>10, <2>3
<1> QED  BY <1>11, <1>12, <1>13 DEF sum, D

\* The average of a size with itself is that size, or one less on the way there.
LEMMA AverageOfSame ==
  ASSUME NEW to \in Nat, NEW w \in 0 .. ChangeDuration - 1,
         NEW f, f.old_target = to, f.target = to, NEW size \in Average(f, w)
  PROVE  size \in {to - 1, to} /\ (w = 0 => size = to)
<1> DEFINE D == ChangeDuration
           sum == to * w + to * (D - w)
           q == sum \div D
<1>1. D \in Nat \ {0} /\ w \in Nat /\ w < D  BY DurationAssumption
<1>2. sum = to * D /\ to * D \in Nat  BY <1>1, SMTT(30)
<1>3. size = q \/ (size = q - 1 /\ w > 0)  BY DEF Average
<1> HIDE DEF sum, D
<1>4. q \in Int /\ q * D <= sum /\ sum < (q + 1) * D  BY <1>1, <1>2, SMTT(30)
<1> HIDE DEF q
<1>5. \A a \in Int, b \in Int : a * D < b * D => a < b  BY <1>1, SMTT(30)
<1>6. \A a \in Int, b \in Int : a * D <= b * D => a <= b  BY <1>1, SMTT(30)
<1>7. q <= to /\ to < q + 1  BY <1>2, <1>4, <1>5, <1>6
<1> QED  BY <1>3, <1>4, <1>7

\* A filter at rest, and one that rests or is on its way from old_target to target.
Settled(f) == f.change_counter = 0 /\ f.current = f.target /\ f.old_target = f.target
Growing(f) ==
  /\ f.old_target <= f.current
  /\ f.current * ChangeDuration <=
       f.old_target * f.change_counter + f.target * (ChangeDuration - f.change_counter)
Moving(f, initial, max) ==
  /\ f.old_target \in initial .. f.target /\ f.current <= f.target
  /\ f.change_counter = 0 => f.current = f.target
  /\ f.change_counter > 0 => f.target = max
  /\ f.change_counter > 0 /\ f.old_target < f.target => Growing(f)

\* What a block does to the sizes of a filter.
LEMMA AdaptMoves ==
  ASSUME NEW max \in Nat \ {0}, NEW f, Sound(f, max), NEW size \in 1 .. max
  PROVE  LET g == Adapt(f, size) IN
         /\ g \in FilterType(max) /\ g.current = size /\ g.target = f.target
         /\ g.change_counter = (IF f.change_counter > 0 THEN f.change_counter - 1 ELSE 0)
         /\ g.old_target = IF f.change_counter > 0 THEN f.old_target ELSE f.target
<1> DEFINE r == Resize(f, size)
           u == UpdateSize(f, size)
           g == Adapt(f, size)
<1>1. f \in FilterType(max) /\ NoneStale(f)  BY DEF Sound
<1>2. /\ r \in FilterType(max) /\ r.current = size /\ r.target = f.target
      /\ r.old_target = f.old_target /\ r.change_counter = f.change_counter
  BY <1>1, ResizeIsSound
<1>3. f.change_counter \in 0 .. ChangeDuration  BY <1>1 DEF FilterType
<1>4. /\ DOMAIN u = DOMAIN r /\ u.current = size
      /\ u.target = f.target
      /\ u.change_counter = (IF f.change_counter > 0 THEN f.change_counter - 1 ELSE 0)
      /\ u.old_target = IF f.change_counter > 0 THEN f.old_target ELSE f.target
  <2>1. CASE f.change_counter > 0
    <3>1. PICK c : u = [r EXCEPT !.change_counter = @ - 1, !.partition_to_constrain = c]
      BY <2>1 DEF UpdateSize
    <3> HIDE DEF r, u
    <3> QED  BY <1>2, <2>1, <3>1 DEF FilterType
  <2>2. CASE ~(f.change_counter > 0)
    <3>1. u = [r EXCEPT !.old_target = f.target]  BY <2>2 DEF UpdateSize
    <3> HIDE DEF r, u
    <3> QED  BY <1>2, <1>3, <2>2, <3>1 DEF FilterType
  <2> QED  BY <2>1, <2>2
<1>5. PICK H, c : g = [u EXCEPT !.H = H, !.partition_to_constrain = c]
  BY Zenon DEF Adapt
<1>6. g \in FilterType(max)  BY AdaptIsSound DEF Sound
<1> HIDE DEF r, u, g
<1>7. /\ g.current = u.current /\ g.target = u.target
      /\ g.change_counter = u.change_counter /\ g.old_target = u.old_target
  BY <1>2, <1>4, <1>5 DEF FilterType
<1> QED  BY <1>4, <1>6, <1>7 DEF g

\* While a filter moves, a block does not make it shorter, other than when it grows
\* to itself; a filter at rest stays at rest; one that has arrived comes to rest.
LEMMA AdaptKeepsMoving ==
  ASSUME NEW max \in Nat \ {0}, NEW initial \in 1 .. max, NEW f, Sound(f, max),
         Moving(f, initial, max), NEW size \in NextSizes(f)
  PROVE  LET g == Adapt(f, size) IN
         /\ Moving(g, initial, max)
         /\ size \in 1 .. max /\ g.current = size
         /\ f.change_counter = 0 => Settled(g)
         /\ f.change_counter > 0 => g.change_counter = f.change_counter - 1
         /\ f.old_target < f.target => size \in f.current .. f.target
         /\ ~GrowsToItself(f) => f.current <= size
         /\ GrowsToItself(f) /\ ~GrowsToItself(g) => size = max
<1> DEFINE g == Adapt(f, size)
<1>0. f \in FilterType(max)  BY DEF Sound
<1>1. /\ f.current \in 1 .. max /\ f.target \in 1 .. max /\ f.old_target \in 1 .. max
      /\ f.change_counter \in 0 .. ChangeDuration
  BY <1>0 DEF FilterType
<1>2. size \in 1 .. max  BY <1>0, NextSizesInRange
<1>3. /\ g \in FilterType(max) /\ g.current = size /\ g.target = f.target
      /\ g.change_counter = (IF f.change_counter > 0 THEN f.change_counter - 1 ELSE 0)
      /\ g.old_target = IF f.change_counter > 0 THEN f.old_target ELSE f.target
  BY <1>2, AdaptMoves
<1> HIDE DEF g
<1>4. CASE f.change_counter = 0
  <2>1. size = f.target  BY <1>4 DEF NextSizes
  <2>2. g.old_target = f.target /\ g.change_counter = 0  BY <1>1, <1>3, <1>4
  <2>3. Settled(g)  BY <1>3, <2>1, <2>2 DEF Settled
  <2>4. f.current = f.target /\ initial <= f.target  BY <1>1, <1>4 DEF Moving
  <2>5. Moving(g, initial, max)  BY <1>1, <1>3, <2>1, <2>2, <2>4 DEF Moving
  <2> QED  BY <1>1, <1>2, <1>3, <1>4, <2>1, <2>3, <2>4, <2>5 DEF GrowsToItself, g
<1>5. CASE f.change_counter > 0
  <2> DEFINE w == f.change_counter - 1
  <2>1. size \in Average(f, w)  BY <1>5 DEF NextSizes
  <2>2. w \in 0 .. ChangeDuration - 1 /\ w + 1 = f.change_counter
    BY <1>1, <1>5, DurationAssumption
  <2>3. g.change_counter = w /\ g.old_target = f.old_target /\ f.target = max
    BY <1>3, <1>5 DEF Moving
  <2> HIDE DEF w
  <2>4. CASE f.old_target < f.target
    <3>1. /\ f.old_target <= f.current
          /\ f.current * ChangeDuration <=
               f.old_target * (w + 1) + f.target * (ChangeDuration - (w + 1))
      BY <1>5, <2>2, <2>4 DEF Moving, Growing
    <3>2. f.current \in Nat /\ f.target \in Nat /\ f.old_target \in Nat  BY <1>1
    <3>3. /\ f.current <= size /\ size <= f.target
          /\ size * ChangeDuration <= f.old_target * w + f.target * (ChangeDuration - w)
          /\ w = 0 => size = f.target
      <4>1. PICK from \in Nat, to \in Nat, current \in Nat :
              from = f.old_target /\ to = f.target /\ current = f.current
        BY <3>2
      <4>2. /\ from < to /\ f.old_target = from /\ f.target = to
            /\ current * ChangeDuration <= from * (w + 1) + to * (ChangeDuration - (w + 1))
        BY <2>4, <3>1, <4>1
      <4>3. /\ size \in Nat /\ current <= size /\ size <= to
            /\ size * ChangeDuration <= from * w + to * (ChangeDuration - w)
            /\ w = 0 => size = to
        BY <2>1, <2>2, <4>2, AverageGrows
      <4> QED  BY <4>1, <4>3
    <3>4. Growing(g)
      <4>1. g.old_target <= g.current  BY <1>1, <1>2, <1>3, <2>3, <3>1, <3>3
      <4> QED  BY <1>3, <2>3, <3>3, <4>1 DEF Growing
    <3>5. f.old_target \in initial .. f.target  BY DEF Moving
    <3>6. Moving(g, initial, max)  BY <1>3, <2>3, <3>3, <3>4, <3>5 DEF Moving
    <3> QED  BY <1>1, <1>2, <1>3, <1>5, <2>4, <3>3, <3>6 DEF GrowsToItself, g
  <2>5. CASE f.old_target = f.target
    <3>1. f.target \in Nat  BY <1>1
    <3>2. size \in {f.target - 1, f.target} /\ (w = 0 => size = f.target)
      BY <2>1, <2>2, <2>5, <3>1, AverageOfSame
    <3>3. f.old_target \in initial .. f.target  BY DEF Moving
    <3>4. Moving(g, initial, max)  BY <1>1, <1>3, <2>2, <2>3, <2>5, <3>2, <3>3 DEF Moving
    <3> QED  BY <1>1, <1>2, <1>3, <1>5, <2>2, <2>3, <2>5, <3>2, <3>4 DEF GrowsToItself, g
  <2>6. f.old_target <= f.target  BY <1>1 DEF Moving
  <2> QED  BY <1>1, <2>4, <2>5, <2>6
<1> QED  BY <1>1, <1>4, <1>5

\* What a new size does to the sizes of a filter: a delay change sets it at once, the
\* end of the initial state begins a change that starts where the last one started.
BeginsChange(f, size, g) ==
  /\ g.target = size /\ g.change_counter = ChangeDuration
  /\ g.current = f.current /\ g.old_target = f.old_target
LEMMA SetSizeAtOnce ==
  ASSUME NEW max \in Nat \ {0}, NEW f, Sound(f, max), NEW size \in 1 .. max,
         NEW g, g = SetSizePartitions(f, size, TRUE)
  PROVE  Settled(g) /\ g.target = size
<1>1. f \in FilterType(max) /\ f.max = max /\ NoneStale(f)  BY DEF FilterType, Sound
<1>2. Min({f.max, size}) = size  BY <1>1, MinOfTwo
<1>3. PICK r : r = Resize(f, size) /\ r \in FilterType(max) /\ r.current = size
  BY <1>1, ResizeIsSound
<1>4. PICK c : g = [r EXCEPT !.target = size, !.old_target = size, !.change_counter = 0,
                             !.partition_to_constrain = c]
  BY <1>2, <1>3 DEF SetSizePartitions
<1>5. g.target = size /\ g.old_target = size /\ g.change_counter = 0 /\ g.current = size
  BY <1>3, <1>4 DEF FilterType
<1> QED  BY <1>5 DEF Settled

LEMMA SetSizeGradually ==
  ASSUME NEW max \in Nat \ {0}, NEW f, Sound(f, max), NEW size \in 1 .. max,
         NEW g, g = SetSizePartitions(f, size, FALSE)
  PROVE  BeginsChange(f, size, g)
<1>1. f \in FilterType(max) /\ f.max = max  BY DEF FilterType, Sound
<1>2. Min({f.max, size}) = size  BY <1>1, MinOfTwo
<1>3. g = [f EXCEPT !.target = size, !.change_counter = ChangeDuration]
  BY <1>2 DEF SetSizePartitions
<1> QED  BY <1>1, <1>3 DEF FilterType, BeginsChange

\* A filter at rest moves as it should, and from rest so does the change to max.
LEMMA RestMoves ==
  ASSUME NEW max \in Nat \ {0}, NEW initial \in 1 .. max, NEW f, Sound(f, max), Settled(f),
         f.target >= initial
  PROVE  Moving(f, initial, max)
<1>1. f.target \in initial .. max /\ f.current = f.target /\ f.old_target = f.target
      /\ f.change_counter = 0
  BY DEF Sound, FilterType, Settled
<1> QED  BY <1>1 DEF Moving

LEMMA MoveFromRest ==
  ASSUME NEW max \in Nat \ {0}, NEW initial \in 1 .. max, NEW f, Sound(f, max), Settled(f),
         f.target >= initial, NEW g, g = SetSizePartitions(f, max, FALSE)
  PROVE  Moving(g, initial, max) /\ g.change_counter = ChangeDuration
<1>1. f.target \in initial .. max /\ f.current = f.target /\ f.old_target = f.target
  BY DEF Sound, FilterType, Settled
<1>2. BeginsChange(f, max, g)
  <2>1. PICK size \in 1 .. max : size = max  OBVIOUS
  <2>2. g = SetSizePartitions(f, size, FALSE)  BY <2>1
  <2>3. BeginsChange(f, size, g)  BY <2>2, SetSizeGradually
  <2> QED  BY <2>1, <2>3
<1>3. /\ g.target = max /\ g.change_counter = ChangeDuration
      /\ g.current = f.target /\ g.old_target = f.target
  BY <1>1, <1>2 DEF BeginsChange
<1>4. ChangeDuration \in Nat /\ ChangeDuration > 0  BY DurationAssumption
<1>5. PICK t \in initial .. max : t = f.target  BY <1>1
<1>6. Growing(g)
  <2>1. t * ChangeDuration <= t * ChangeDuration + max * (ChangeDuration - ChangeDuration)
    <3>1. \A a \in Int : a * 0 = 0  OBVIOUS
    <3>2. ChangeDuration - ChangeDuration = 0 /\ t * ChangeDuration \in Int  BY <1>4
    <3> QED  BY <3>1, <3>2
  <2>2. t <= t  OBVIOUS
  <2>3. g.current = t /\ g.old_target = t  BY <1>3, <1>5
  <2>4. g.change_counter = ChangeDuration /\ g.target = max  BY <1>3
  <2>5. g.old_target <= g.current  BY <2>2, <2>3, Zenon
  <2>6. g.current * ChangeDuration <=
          g.old_target * g.change_counter + g.target * (ChangeDuration - g.change_counter)
    BY <2>1, <2>3, <2>4, Zenon
  <2> QED  BY <2>5, <2>6, Zenon DEF Growing
<1>7. /\ g.old_target \in initial .. g.target /\ g.current <= g.target
      /\ g.change_counter # 0 /\ g.target = max
  <2>1. t \in initial .. max /\ t <= max  BY <1>5
  <2>2. g.old_target = t /\ g.current = t  BY <1>3, <1>5
  <2>3. g.change_counter # 0 /\ g.target = max
    <3>1. ChangeDuration # 0  BY <1>4
    <3> QED  BY <1>3, <3>1, Zenon
  <2> HIDE DEF Growing
  <2>4. initial .. g.target = initial .. max  BY <2>3
  <2>5. g.old_target \in initial .. g.target  BY <2>1, <2>2, <2>4, Zenon
  <2>6. g.current <= g.target  BY <2>1, <2>2, <2>3
  <2> QED  BY <2>3, <2>5, <2>6
<1>8. Moving(g, initial, max)
  <2> HIDE DEF Growing
  <2> QED  BY <1>6, <1>7 DEF Moving
<1> QED  BY <1>3, <1>8

\* The copy of the main filter's coefficients leaves the sizes of the shadow filter.
SameSizes(f, g) ==
  /\ g.current = f.current /\ g.target = f.target
  /\ g.old_target = f.old_target /\ g.change_counter = f.change_counter
LEMMA SetFilterKeepsSizes ==
  ASSUME NEW max, NEW f \in FilterType(max), NEW other
  PROVE  SameSizes(f, SetFilter(f, other))
<1>1. PICK H : SetFilter(f, other) = [f EXCEPT !.H = H]  BY Zenon DEF SetFilter
<1> QED  BY <1>1 DEF FilterType, SameSizes

\* Filters of the same sizes move alike.
LEMMA SameSizesMoveAlike ==
  ASSUME NEW f, NEW g, SameSizes(f, g), NEW initial, NEW max
  PROVE  /\ NextSizes(g) = NextSizes(f) /\ (Settled(f) <=> Settled(g))
         /\ Moving(f, initial, max) => Moving(g, initial, max)
BY DEF SameSizes, NextSizes, Average, Settled, Moving, Growing

-----------------------------------------------------------------------------
(* Growth and the initial state.                                           *)

\* The initial state lasts longer than a change of size.  By default it does, 625
\* blocks to 250; where it does not, a change can begin in the middle of another.
InitialOutlastsChange == InitialStateBlocks > ChangeDuration

\* A change that began with the initial state is over in time: before the strong
\* blocks counted since are as many as the initial state has.
OnTime(f, strong) == Settled(f) \/ strong <= ChangeDuration - f.change_counter

\* A block brings a filter on, and to rest when the initial state ends.
LEMMA BlockOnTime ==
  ASSUME InitialOutlastsChange, NEW max \in Nat \ {0}, NEW initial \in 1 .. max,
         NEW f, Sound(f, max), Moving(f, initial, max), NEW size \in NextSizes(f),
         NEW strong \in Nat, NEW c \in {0, 1}, OnTime(f, strong)
  PROVE  LET g == Adapt(f, size) IN
         OnTime(g, strong + c) /\ (strong + c >= InitialStateBlocks => Settled(g))
<1> DEFINE g == Adapt(f, size)
<1>1. /\ f.change_counter = 0 => Settled(g)
      /\ f.change_counter > 0 => g.change_counter = f.change_counter - 1
  BY AdaptKeepsMoving
<1>2. f.change_counter \in 0 .. ChangeDuration  BY DEF Sound, FilterType
<1> HIDE DEF g
<1>3. CASE f.change_counter = 0
  BY <1>1, <1>3 DEF OnTime, g
<1>4. CASE f.change_counter > 0
  <2>1. strong <= ChangeDuration - f.change_counter
    BY <1>4 DEF OnTime, Settled
  <2>2. g.change_counter = f.change_counter - 1  BY <1>1, <1>4
  <2>3. strong + c <= ChangeDuration - g.change_counter /\ strong + c <= ChangeDuration
    BY <1>2, <1>4, <2>1, <2>2, DurationAssumption
  <2>4. ~(strong + c >= InitialStateBlocks)
    BY <2>3, DurationAssumption, ThresholdAssumption DEF InitialOutlastsChange
  <2> QED  BY <2>3, <2>4 DEF OnTime, g
<1> QED  BY <1>2, <1>3, <1>4

\* One filter, next to the initial state i at a place of the block.
InTime(f, i, place) ==
  /\ i.state => OnTime(f, i.strong)
  /\ place = "adjust" /\ i.transition => Settled(f)

\* What ProcessCapture does to one filter before the block.
Adjusted(f, initial, max, reset, exit) ==
  LET g == IF reset THEN SetSizePartitions(FilterHandleEchoPathChange(f), initial, TRUE) ELSE f
  IN IF exit THEN SetSizePartitions(g, max, FALSE) ELSE g

\* A filter in time stays so through a delay change, the end of the initial state, or
\* both in one block.
LEMMA AdjustInTime ==
  ASSUME NEW max \in Nat \ {0}, NEW initial \in 1 .. max,
         NEW f, Sound(f, max), Moving(f, initial, max),
         NEW reset \in BOOLEAN, NEW exit \in BOOLEAN,
         exit => Settled(f)
  PROVE  LET g == Adjusted(f, initial, max, reset, exit) IN
         /\ Moving(g, initial, max)
         /\ reset => OnTime(g, 0)
         /\ ~reset /\ ~exit => g = f
<1> DEFINE h == SetSizePartitions(FilterHandleEchoPathChange(f), initial, TRUE)
           k == IF reset THEN h ELSE f
           g == Adjusted(f, initial, max, reset, exit)
<1>1. Sound(h, max) /\ Settled(h) /\ h.target = initial
  <2>1. Sound(FilterHandleEchoPathChange(f), max)  BY PathChangeIsSound
  <2>2. Sound(h, max)  BY <2>1, SetSizeIsSound
  <2>3. Settled(h) /\ h.target = initial  BY <2>1, SetSizeAtOnce
  <2> QED  BY <2>2, <2>3
<1>2. g = IF exit THEN SetSizePartitions(k, max, FALSE) ELSE k
  BY DEF Adjusted
<1> HIDE DEF h
<1>3. Sound(k, max) /\ Moving(k, initial, max) /\ (reset => Settled(k))
      /\ (exit => Settled(k) /\ k.target >= initial)
  <2>1. CASE reset
    <3>1. Moving(h, initial, max)
      <4>1. h.target >= initial  BY <1>1
      <4> QED  BY <1>1, <4>1, RestMoves
    <3> QED  BY <1>1, <2>1, <3>1
  <2>2. CASE ~reset
    <3>1. f.old_target \in initial .. f.target  BY DEF Moving
    <3>2. f.target >= initial  BY <3>1 DEF Sound, FilterType
    <3> QED  BY <2>2, <3>2
  <2> QED  BY <2>1, <2>2
<1>4. CASE exit
  <2> HIDE DEF k, g
  <2>1. g = SetSizePartitions(k, max, FALSE)  BY <1>2, <1>4
  <2>2. Moving(g, initial, max) /\ g.change_counter = ChangeDuration
    BY <1>3, <1>4, <2>1, MoveFromRest
  <2>5. 0 <= ChangeDuration - ChangeDuration  BY DurationAssumption
  <2>6. OnTime(g, 0)  BY <2>2, <2>5 DEF OnTime
  <2> QED  BY <1>4, <2>2, <2>6 DEF g
<1>5. CASE ~exit
  <2>1. g = k  BY <1>2, <1>5
  <2>2. reset => OnTime(g, 0)  BY <1>3, <2>1 DEF OnTime
  <2>3. Moving(g, initial, max)  BY <1>3, <2>1
  <2>4. ~reset => g = f  BY <2>1
  <2> HIDE DEF g, k
  <2> QED  BY <2>2, <2>3, <2>4 DEF g
<1> QED  BY <1>4, <1>5

\* What is true of the initial state on its own, and how a block counts on in it.
Counted(i, place) ==
  /\ i.strong \in Nat
  /\ ~i.state => i.strong >= InitialStateBlocks
  /\ place = "adjust" /\ i.transition => ~i.state
CountsOn(i, j) ==
  /\ \E c \in {0, 1} : j.strong = i.strong + c
  /\ j.state => j.strong < InitialStateBlocks
  /\ ~j.state => j.strong >= InitialStateBlocks
  /\ j.transition => ~j.state /\ i.state

\* What a delay change leaves of the initial state.
Restarted(i, reset) == IF reset THEN InitialStateReset(i) ELSE i

\* The invariant of one filter.
Grows(f, initial, max, i, place) == Moving(f, initial, max) /\ InTime(f, i, place)

\* The update of the initial state counts on.
LEMMA InitialCountsOn ==
  ASSUME NEW i, i.strong \in Nat, NEW adapting
  PROVE  CountsOn(i, InitialStateUpdate(i, adapting))
<1> DEFINE j == InitialStateUpdate(i, adapting)
<1>1. PICK c \in {0, 1} : c = Count(adapting)  BY DEF Count
<1>2. /\ j.strong = i.strong + c
      /\ j.state = (i.strong + c < InitialStateBlocks)
      /\ j.transition = (~j.state /\ i.state)
  BY <1>1, Zenon DEF InitialStateUpdate
<1> HIDE DEF j
<1>3. (j.state => i.strong + c < InitialStateBlocks)
      /\ (~j.state => ~(i.strong + c < InitialStateBlocks))
      /\ (j.transition => ~j.state /\ i.state)
  BY <1>2, Zenon
<1>4. ~(i.strong + c < InitialStateBlocks) => i.strong + c >= InitialStateBlocks
  BY <1>1, ThresholdAssumption
<1> QED  BY <1>1, <1>2, <1>3, <1>4, Zenon DEF CountsOn, j

\* Every block: a filter that grows as it should goes on to.
LEMMA BlockGrows ==
  ASSUME InitialOutlastsChange, NEW max \in Nat \ {0}, NEW initial \in 1 .. max,
         NEW f, Sound(f, max), NEW i, NEW j, Counted(i, "subtract"), CountsOn(i, j),
         Grows(f, initial, max, i, "subtract"), NEW size \in NextSizes(f)
  PROVE  Grows(Adapt(f, size), initial, max, j, "adjust")
<1> DEFINE g == Adapt(f, size)
<1>1. Moving(f, initial, max) /\ i.strong \in Nat  BY DEF Grows, Counted
<1>2. Moving(g, initial, max)  BY <1>1, AdaptKeepsMoving
<1>3. PICK c \in {0, 1} : j.strong = i.strong + c  BY DEF CountsOn
<1>4. i.state => OnTime(g, i.strong + c) /\ (i.strong + c >= InitialStateBlocks => Settled(g))
  <2>1. PICK strong \in Nat : strong = i.strong  BY <1>1
  <2>2. SUFFICES ASSUME OnTime(f, strong)
                 PROVE  OnTime(g, strong + c) /\ (strong + c >= InitialStateBlocks => Settled(g))
    BY <2>1 DEF Grows, InTime
  <2> QED  BY <1>1, <2>2, BlockOnTime
<1> HIDE DEF g
<1>5. ASSUME j.state PROVE OnTime(g, j.strong)
  <2>1. j.strong < InitialStateBlocks  BY <1>5 DEF CountsOn
  <2>2. i.state
    <3>1. ~(i.strong >= InitialStateBlocks)
      BY <1>1, <1>3, <2>1, ThresholdAssumption
    <3> QED  BY <3>1 DEF Counted
  <2> QED  BY <1>3, <1>4, <2>2
<1>6. ASSUME j.transition PROVE Settled(g)
  <2>1. ~j.state /\ i.state  BY <1>6 DEF CountsOn
  <2>2. j.strong >= InitialStateBlocks  BY <2>1 DEF CountsOn
  <2> QED  BY <1>3, <1>4, <2>1, <2>2
<1> QED  BY <1>2, <1>5, <1>6 DEF Grows, InTime, g

\* ProcessCapture before the block: the same.
LEMMA AdjustmentGrows ==
  ASSUME NEW max \in Nat \ {0}, NEW initial \in 1 .. max, NEW f, Sound(f, max),
         NEW i, Counted(i, "adjust"), DOMAIN i = {"state", "transition", "strong"},
         Grows(f, initial, max, i, "adjust"), NEW reset \in BOOLEAN,
         NEW exit \in BOOLEAN, exit <=> i.transition
  PROVE  Grows(Adjusted(f, initial, max, reset, exit), initial, max,
               Restarted(i, reset), "subtract")
<1> DEFINE g == Adjusted(f, initial, max, reset, exit)
           j == Restarted(i, reset)
<1>1. Moving(f, initial, max) /\ (exit => Settled(f))  BY DEF Grows, InTime
<1>2. /\ Moving(g, initial, max)
      /\ reset => OnTime(g, 0)
      /\ ~reset /\ ~exit => g = f
  BY <1>1, AdjustInTime
<1>3. (reset => j.strong = 0) /\ (~reset => j = i)
  BY DEF Restarted, InitialStateReset
<1> HIDE DEF g, j
<1>4. ASSUME j.state PROVE OnTime(g, j.strong)
  <2>1. CASE reset  BY <1>2, <1>3, <2>1
  <2>2. CASE ~reset
    <3>1. i.state /\ ~exit  BY <1>3, <1>4, <2>2 DEF Counted
    <3>2. OnTime(f, i.strong)  BY <3>1 DEF Grows, InTime
    <3> QED  BY <1>2, <1>3, <2>2, <3>1, <3>2
  <2> QED  BY <2>1, <2>2
<1> QED  BY <1>2, <1>4 DEF Grows, InTime, g, j

\* A delay change and the end of the initial state, in one block too, leave the
\* filters this way.
LEMMA FiltersAdjusted ==
  ASSUME NEW s, NEW i \in BOOLEAN, HeadedFor(s, i), NEW reset \in BOOLEAN,
         NEW exit \in BOOLEAN, NEW r, r = IF reset THEN SubtractorReset(s) ELSE s,
         NEW t, t = IF exit THEN ExitInitialState(r) ELSE r
  PROVE  /\ t.main_filter = Adjusted(s.main_filter, MainInitialLength, MainLength, reset, exit)
         /\ t.shadow_filter =
              Adjusted(s.shadow_filter, ShadowInitialLength, ShadowLength, reset, exit)
<1>1. HeadedFor(r, reset \/ i)
  <2>1. CASE reset  BY <2>1, ResetHeads
  <2>2. CASE ~reset  BY <2>2
  <2> QED  BY <2>1, <2>2
<1>2. /\ r.main_filter = IF reset THEN SetSizePartitions(FilterHandleEchoPathChange(s.main_filter),
                                                         MainInitialLength, TRUE)
                         ELSE s.main_filter
      /\ r.shadow_filter = IF reset
                           THEN SetSizePartitions(FilterHandleEchoPathChange(s.shadow_filter),
                                                  ShadowInitialLength, TRUE)
                           ELSE s.shadow_filter
  BY DEF HeadedFor, SubtractorReset
<1>3. /\ t.main_filter = IF exit THEN SetSizePartitions(r.main_filter, MainLength, FALSE)
                         ELSE r.main_filter
      /\ t.shadow_filter = IF exit THEN SetSizePartitions(r.shadow_filter, ShadowLength, FALSE)
                           ELSE r.shadow_filter
  <2> QED  BY <1>1 DEF HeadedFor, ExitInitialState
<1> QED  BY <1>2, <1>3, Zenon DEF Adjusted

\* Whether the shadow filter takes the coefficients of the main filter or not, a block
\* adapts it with sizes that are its own.
LEMMA FiltersAdapt ==
  ASSUME NEW s, NEW i \in BOOLEAN, HeadedFor(s, i), NEW misadjusted, NEW worse,
         NEW m \in NextSizes(s.main_filter), NEW n \in NextSizes(s.shadow_filter),
         NEW t, t = SubtractorProcess(s, m, n, misadjusted, worse)
  PROVE  /\ t.main_filter = Adapt(s.main_filter, m)
         /\ \E basis : /\ Sound(basis, ShadowLength) /\ SameSizes(s.shadow_filter, basis)
                       /\ t.shadow_filter = Adapt(basis, n)
<1> DEFINE main == Adapt(s.main_filter, m)
<1>0. /\ Sound(s.main_filter, MainLength) /\ Sound(s.shadow_filter, ShadowLength)
      /\ s.main_filter \in FilterType(MainLength) /\ s.shadow_filter \in FilterType(ShadowLength)
  BY DEF HeadedFor, Sound
<1>1. m \in 1 .. MainLength  BY <1>0, Lengths, NextSizesInRange
<1>2. Sound(main, MainLength)  BY <1>0, <1>1, Lengths, AdaptIsSound
<1>3. PICK basis : /\ basis \in {SetFilter(s.shadow_filter, main), s.shadow_filter}
                   /\ t.main_filter = main /\ t.shadow_filter = Adapt(basis, n)
  <2>1. PICK replaced :
          /\ t.shadow_filter = Adapt(IF replaced THEN SetFilter(s.shadow_filter, main)
                                     ELSE s.shadow_filter, n)
          /\ t.main_filter = main
    BY Zenon DEF SubtractorProcess
  <2> HIDE DEF main
  <2> QED  BY <2>1
<1> HIDE DEF main
<1>4. Sound(basis, ShadowLength) /\ SameSizes(s.shadow_filter, basis)
  <2>1. CASE basis = s.shadow_filter
    BY <1>0, <2>1 DEF SameSizes
  <2>2. CASE basis = SetFilter(s.shadow_filter, main)
    <3>1. SameSizes(s.shadow_filter, SetFilter(s.shadow_filter, main))
      BY <1>0, SetFilterKeepsSizes
    <3>2. Sound(SetFilter(s.shadow_filter, main), ShadowLength)
      <4>1. \A f, g : Sound(f, ShadowLength) /\ Sound(g, MainLength)
                      => Sound(SetFilter(f, g), ShadowLength)
        BY Lengths, SetFilterIsSound
      <4> QED  BY <1>0, <1>2, <4>1, Zenon
    <3> QED  BY <2>2, <3>1, <3>2
  <2> QED  BY <1>3, <2>1, <2>2
<1> QED  BY <1>3, <1>4 DEF main

\* The inductive invariant for GrowsSteadily: filters and initial state keep time.
Growth ==
  /\ Counted(aec_state_.initial, phase)
  /\ Grows(subtractor_.main_filter, MainInitialLength, MainLength, aec_state_.initial, phase)
  /\ Grows(subtractor_.shadow_filter, ShadowInitialLength, ShadowLength,
           aec_state_.initial, phase)

\* AdjustToChange for the initial state and the filters.
LEMMA AdjustToChangeParts ==
  ASSUME Agreement, Direction, NEW delay_change \in BOOLEAN, AdjustToChange(delay_change)
  PROVE  \E exit \in BOOLEAN :
           /\ exit <=> aec_state_.initial.transition
           /\ aec_state_'.initial = Restarted(aec_state_.initial, delay_change)
           /\ aec_state_'.analyzer = (IF delay_change THEN AnalyzerReset
                                      ELSE aec_state_.analyzer)
           /\ subtractor_'.main_filter = Adjusted(subtractor_.main_filter, MainInitialLength,
                                                  MainLength, delay_change, exit)
           /\ subtractor_'.shadow_filter = Adjusted(subtractor_.shadow_filter,
                                                    ShadowInitialLength, ShadowLength,
                                                    delay_change, exit)
<1>1. PICK saturated, aec :
        /\ saturated = UpdateCaptureSaturation(aec_state_, saturation)
        /\ aec = IF delay_change THEN AecReset(saturated) ELSE saturated
        /\ aec_state_' = aec
        /\ subtractor_' = IF aec.initial.transition
                          THEN ExitInitialState(IF delay_change THEN SubtractorReset(subtractor_)
                                                ELSE subtractor_)
                          ELSE IF delay_change THEN SubtractorReset(subtractor_) ELSE subtractor_
  BY Zenon DEF AdjustToChange
<1>2. /\ DOMAIN saturated = DOMAIN aec_state_ /\ saturated.initial = aec_state_.initial
      /\ saturated.analyzer = aec_state_.analyzer
  BY <1>1 DEF UpdateCaptureSaturation, Agreement, AecParts
<1>3. /\ aec.initial = Restarted(aec_state_.initial, delay_change)
      /\ aec.analyzer = IF delay_change THEN AnalyzerReset ELSE aec_state_.analyzer
  <2>1. CASE delay_change
    BY <1>1, <1>2, <2>1 DEF AecReset, Restarted, Agreement, AecParts
  <2>2. CASE ~delay_change
    BY <1>1, <1>2, <2>2 DEF Restarted
  <2> QED  BY <2>1, <2>2
<1>4. aec.initial.transition <=> aec_state_.initial.transition
  BY <1>3 DEF Restarted, InitialStateReset, Agreement, AecParts
<1>5. PICK exit \in BOOLEAN : exit <=> aec.initial.transition
  <2>1. CASE aec.initial.transition  BY <2>1
  <2>2. CASE ~aec.initial.transition  BY <2>2
  <2> QED  BY <2>1, <2>2
<1>6. PICK r : r = IF delay_change THEN SubtractorReset(subtractor_) ELSE subtractor_
  OBVIOUS
<1>7. subtractor_' = IF exit THEN ExitInitialState(r) ELSE r
  BY <1>1, <1>5, <1>6, Zenon
<1>8. HeadedFor(subtractor_, suppression_initial) /\ suppression_initial \in BOOLEAN
  BY DEF Direction
<1>9. /\ subtractor_'.main_filter = Adjusted(subtractor_.main_filter, MainInitialLength,
                                             MainLength, delay_change, exit)
      /\ subtractor_'.shadow_filter = Adjusted(subtractor_.shadow_filter, ShadowInitialLength,
                                               ShadowLength, delay_change, exit)
  BY <1>6, <1>7, <1>8, FiltersAdjusted
<1> QED  BY <1>1, <1>3, <1>4, <1>5, <1>9

\* ProcessBlock for the initial state, the analyzer, the delay and the filters.
LEMMA ProcessBlockParts ==
  ASSUME Agreement, Direction, aec_state_.initial.strong \in Nat, ProcessBlock
  PROVE  \E m, n, basis, in :
           /\ m \in NextSizes(subtractor_.main_filter)
           /\ n \in NextSizes(subtractor_.shadow_filter)
           /\ CountsOn(aec_state_.initial, aec_state_'.initial)
           /\ in.filter_size = BlockSize * m
           /\ in.peak_index \in PeakCandidates(aec_state_.analyzer, in.filter_size)
           /\ aec_state_'.analyzer = AnalyzerUpdate(aec_state_.analyzer, in)
           /\ aec_state_'.delay.min
                \in {DelayGuess, aec_state_'.analyzer.peak_index \div BlockSize}
           /\ subtractor_'.main_filter = Adapt(subtractor_.main_filter, m)
           /\ Sound(basis, ShadowLength) /\ SameSizes(subtractor_.shadow_filter, basis)
           /\ subtractor_'.shadow_filter = Adapt(basis, n)
<1>0. PICK m \in NextSizes(subtractor_.main_filter), n \in NextSizes(subtractor_.shadow_filter),
           verdict \in Verdicts, found \in Analyses :
        /\ subtractor_' = SubtractorProcess(subtractor_, m, n, verdict.misadjusted,
                                            verdict.shadow_is_worse)
        /\ \E peak \in PeakCandidates(aec_state_.analyzer, BlockSize * m) :
             aec_state_' = AecUpdate(aec_state_,
                                     [filter_size |-> BlockSize * m, peak_index |-> peak,
                                      active_render |-> found.active_render,
                                      external_delay |-> found.external_delay,
                                      consistent |-> found.consistent,
                                      converged |-> found.converged,
                                      diverged |-> found.diverged])
  BY Zenon DEF ProcessBlock
<1>1. PICK peak, in :
        /\ peak \in PeakCandidates(aec_state_.analyzer, BlockSize * m)
        /\ in = [filter_size |-> BlockSize * m, peak_index |-> peak,
                 active_render |-> found.active_render, external_delay |-> found.external_delay,
                 consistent |-> found.consistent, converged |-> found.converged,
                 diverged |-> found.diverged]
        /\ aec_state_' = AecUpdate(aec_state_, in)
  BY <1>0, Zenon
<1>2. in.filter_size = BlockSize * m /\ in.peak_index = peak
  BY <1>1
<1>3. PICK adapting, analyzer, delay, strong, transparent, quality, initial :
        /\ analyzer = AnalyzerUpdate(aec_state_.analyzer, in)
        /\ delay = FilterDelayUpdate(aec_state_.delay, in, strong,
                                     analyzer.peak_index \div BlockSize)
        /\ initial = InitialStateUpdate(aec_state_.initial, adapting)
        /\ AecUpdate(aec_state_, in)
             = [aec_state_ EXCEPT !.analyzer = analyzer, !.delay = delay,
                  !.strong = @ + Count(adapting), !.initial = initial,
                  !.transparent = transparent, !.quality = quality]
  BY Zenon DEF AecUpdate
<1>4. /\ aec_state_'.analyzer = analyzer /\ aec_state_'.delay = delay
      /\ aec_state_'.initial = InitialStateUpdate(aec_state_.initial, adapting)
  BY <1>1, <1>3 DEF Agreement, AecParts
<1>5. CountsOn(aec_state_.initial, aec_state_'.initial)
  BY <1>4, InitialCountsOn
<1>6. delay.min \in {DelayGuess, analyzer.peak_index \div BlockSize}
  BY <1>3 DEF FilterDelayUpdate
<1>7. HeadedFor(subtractor_, suppression_initial) /\ suppression_initial \in BOOLEAN
  BY DEF Direction
<1>8. PICK basis :
        /\ subtractor_'.main_filter = Adapt(subtractor_.main_filter, m)
        /\ Sound(basis, ShadowLength) /\ SameSizes(subtractor_.shadow_filter, basis)
        /\ subtractor_'.shadow_filter = Adapt(basis, n)
  BY <1>0, <1>7, FiltersAdapt
<1>9. in.peak_index \in PeakCandidates(aec_state_.analyzer, in.filter_size)
  BY <1>1, <1>2
<1>10. /\ aec_state_'.analyzer = AnalyzerUpdate(aec_state_.analyzer, in)
       /\ aec_state_'.delay.min \in {DelayGuess, aec_state_'.analyzer.peak_index \div BlockSize}
  BY <1>3, <1>4, <1>6
<1> QED  BY <1>2, <1>5, <1>8, <1>9, <1>10, Zenon

\* It holds initially and every step keeps it.
LEMMA GrowthInductive == InitialOutlastsChange /\ Spec => []Growth
<1> SUFFICES ASSUME InitialOutlastsChange PROVE Spec => []Growth
  OBVIOUS
<1>1. Init => Growth
  <2> SUFFICES ASSUME Init PROVE Growth  OBVIOUS
  <2>1. /\ aec_state_.initial.state /\ ~aec_state_.initial.transition
        /\ aec_state_.initial.strong = 0
    BY DEF Init, NewAecState
  <2>2. /\ Settled(subtractor_.main_filter) /\ Settled(subtractor_.shadow_filter)
        /\ subtractor_.main_filter.target = MainInitialLength
        /\ subtractor_.shadow_filter.target = ShadowInitialLength
    BY DEF Init, NewSubtractor, NewFilter, Settled
  <2>3. /\ Sound(subtractor_.main_filter, MainLength)
        /\ Sound(subtractor_.shadow_filter, ShadowLength)
    BY NewHeads DEF Init, HeadedFor
  <2>4. /\ Moving(subtractor_.main_filter, MainInitialLength, MainLength)
        /\ Moving(subtractor_.shadow_filter, ShadowInitialLength, ShadowLength)
    <3>1. MainInitialLength >= MainInitialLength /\ ShadowInitialLength >= ShadowInitialLength
      BY Lengths
    <3> QED  BY <2>2, <2>3, <3>1, Lengths, RestMoves
  <2> QED  BY <2>1, <2>2, <2>4 DEF Growth, Grows, InTime, OnTime, Counted
<1>2. Growth /\ Agreement /\ Direction /\ [Next]_vars => Growth'
  <2> SUFFICES ASSUME Growth, Agreement, Direction, [Next]_vars PROVE Growth'
    OBVIOUS
  <2> DEFINE main == subtractor_.main_filter
             shadow == subtractor_.shadow_filter
             i == aec_state_.initial
  <2>0. Sound(main, MainLength) /\ Sound(shadow, ShadowLength)
    BY DEF Direction, HeadedFor
  <2>1. CASE BeginFrame
    BY <2>1 DEF BeginFrame, Growth
  <2>2. ASSUME NEW delay_change \in BOOLEAN, AdjustToChange(delay_change)
        PROVE  Growth'
    <3>1. PICK exit \in BOOLEAN :
            /\ exit <=> i.transition
            /\ i' = Restarted(i, delay_change)
            /\ main' = Adjusted(main, MainInitialLength, MainLength, delay_change, exit)
            /\ shadow' = Adjusted(shadow, ShadowInitialLength, ShadowLength, delay_change, exit)
      BY <2>2, AdjustToChangeParts
    <3>2. phase = "adjust" /\ phase' = "subtract"
      BY <2>2 DEF AdjustToChange
    <3>3. /\ Counted(i, "adjust") /\ DOMAIN i = {"state", "transition", "strong"}
          /\ Grows(main, MainInitialLength, MainLength, i, "adjust")
          /\ Grows(shadow, ShadowInitialLength, ShadowLength, i, "adjust")
      BY <3>2 DEF Growth, Agreement, AecParts
    <3> HIDE DEF main, shadow, i
    <3>4. Grows(Adjusted(main, MainInitialLength, MainLength, delay_change, exit),
                MainInitialLength, MainLength, Restarted(i, delay_change), "subtract")
      BY <2>0, <3>1, <3>3, Lengths, AdjustmentGrows
    <3>5. Grows(Adjusted(shadow, ShadowInitialLength, ShadowLength, delay_change, exit),
                ShadowInitialLength, ShadowLength, Restarted(i, delay_change), "subtract")
      BY <2>0, <3>1, <3>3, Lengths, AdjustmentGrows
    <3>6. Counted(Restarted(i, delay_change), "subtract")
      BY <3>3 DEF Counted, Restarted, InitialStateReset
    <3> QED  BY <3>1, <3>2, <3>4, <3>5, <3>6 DEF Growth, main, shadow, i
  <2>3. CASE ProcessBlock
    <3>1. phase = "subtract" /\ phase' = "adjust"
      BY <2>3 DEF ProcessBlock
    <3>2. /\ Counted(i, "subtract")
          /\ Grows(main, MainInitialLength, MainLength, i, "subtract")
          /\ Grows(shadow, ShadowInitialLength, ShadowLength, i, "subtract")
      BY <3>1 DEF Growth
    <3>3. i.strong \in Nat  BY <3>2 DEF Counted
    <3>4. PICK m, n, basis :
            /\ m \in NextSizes(main) /\ n \in NextSizes(shadow)
            /\ CountsOn(i, i')
            /\ main' = Adapt(main, m)
            /\ Sound(basis, ShadowLength) /\ SameSizes(shadow, basis)
            /\ shadow' = Adapt(basis, n)
      BY <2>3, <3>3, ProcessBlockParts
    <3> HIDE DEF main, shadow, i
    <3>5. Grows(main', MainInitialLength, MainLength, i', "adjust")
      BY <2>0, <3>2, <3>4, Lengths, BlockGrows
    <3>6. n \in NextSizes(basis) /\ Grows(basis, ShadowInitialLength, ShadowLength, i, "subtract")
      <4>1. /\ NextSizes(basis) = NextSizes(shadow)
            /\ Settled(shadow) => Settled(basis)
            /\ Moving(shadow, ShadowInitialLength, ShadowLength)
                 => Moving(basis, ShadowInitialLength, ShadowLength)
        BY <3>4, SameSizesMoveAlike
      <4>2. basis.change_counter = shadow.change_counter  BY <3>4 DEF SameSizes
      <4> QED  BY <3>2, <3>4, <4>1, <4>2 DEF Grows, InTime, OnTime
    <3>7. Grows(shadow', ShadowInitialLength, ShadowLength, i', "adjust")
      BY <3>2, <3>4, <3>6, Lengths, BlockGrows
    <3>8. Counted(i', "adjust")
      <4>1. PICK c \in {0, 1} : i'.strong = i.strong + c  BY <3>4 DEF CountsOn
      <4>2. i'.strong \in Nat  BY <3>3, <4>1
      <4> QED  BY <3>4, <4>2 DEF Counted, CountsOn
    <3> QED  BY <3>1, <3>5, <3>7, <3>8 DEF Growth, main, shadow, i
  <2>4. CASE UNCHANGED vars
    BY <2>4 DEF vars, Growth
  <2> QED  BY <2>1, <2>2, <2>3, <2>4 DEF Next
<1> QED  BY <1>1, <1>2, AgreementInductive, DirectionInductive, PTL DEF Spec

\* Between the start of a change to the regular size and its end, a filter does not
\* become shorter, nor longer than that, whatever delay changes there are.
THEOREM GrowthIsSteady == InitialOutlastsChange /\ Spec => GrowsSteadily
<1> SUFFICES ASSUME InitialOutlastsChange PROVE Spec => GrowsSteadily
  OBVIOUS
<1> DEFINE main == subtractor_.main_filter
           shadow == subtractor_.shadow_filter
           Step == phase = "subtract" =>
                     \A f \in {"main_filter", "shadow_filter"} :
                       LET before == subtractor_[f] IN
                       before.old_target < before.target
                         => subtractor_'[f].current \in before.current .. before.target
<1>1. Growth /\ Agreement /\ Direction /\ [Next]_vars => [Step]_vars
  <2> SUFFICES ASSUME Growth, Agreement, Direction, Next, phase = "subtract"
               PROVE  /\ main.old_target < main.target => main'.current \in main.current .. main.target
                      /\ shadow.old_target < shadow.target
                           => shadow'.current \in shadow.current .. shadow.target
    BY Zenon
  <2>1. /\ Sound(main, MainLength) /\ Sound(shadow, ShadowLength)
        /\ Moving(main, MainInitialLength, MainLength)
        /\ Moving(shadow, ShadowInitialLength, ShadowLength)
        /\ aec_state_.initial.strong \in Nat
    BY DEF Direction, HeadedFor, Growth, Grows, Counted
  <2>2. CASE BeginFrame
    <3>1. main' = main /\ shadow' = shadow  BY <2>2 DEF BeginFrame
    <3>2. /\ main.current \in Nat /\ main.target \in Nat
          /\ shadow.current \in Nat /\ shadow.target \in Nat
      <4>1. main \in FilterType(MainLength) /\ shadow \in FilterType(ShadowLength)
        BY <2>1 DEF Sound
      <4> HIDE DEF main, shadow
      <4> QED  BY <4>1, Lengths DEF FilterType
    <3>3. main.current <= main.target /\ shadow.current <= shadow.target
      BY <2>1 DEF Moving
    <3> QED  BY <3>1, <3>2, <3>3
  <2>3. CASE ProcessBlock
    <3>1. PICK m, n, basis :
            /\ m \in NextSizes(main) /\ n \in NextSizes(shadow)
            /\ main' = Adapt(main, m)
            /\ Sound(basis, ShadowLength) /\ SameSizes(shadow, basis)
            /\ shadow' = Adapt(basis, n)
      BY <2>1, <2>3, ProcessBlockParts
    <3> HIDE DEF main, shadow
    <3>2. /\ main'.current = m
          /\ main.old_target < main.target => m \in main.current .. main.target
      BY <2>1, <3>1, Lengths, AdaptKeepsMoving
    <3>3. /\ n \in NextSizes(basis) /\ Moving(basis, ShadowInitialLength, ShadowLength)
          /\ basis.old_target = shadow.old_target /\ basis.target = shadow.target
          /\ basis.current = shadow.current
      BY <2>1, <3>1, SameSizesMoveAlike DEF SameSizes
    <3>4. /\ shadow'.current = n
          /\ basis.old_target < basis.target => n \in basis.current .. basis.target
      BY <3>1, <3>3, Lengths, AdaptKeepsMoving
    <3> QED  BY <3>2, <3>3, <3>4
  <2>4. ASSUME NEW delay_change \in BOOLEAN, AdjustToChange(delay_change) PROVE FALSE
    BY <2>4 DEF AdjustToChange
  <2> QED  BY <2>2, <2>3, <2>4 DEF Next
<1> QED  BY <1>1, GrowthInductive, AgreementInductive, DirectionInductive, PTL
         DEF Spec, GrowsSteadily

-----------------------------------------------------------------------------
(* The peak and the delay.                                                 *)

\* A block's region and its peak are in the impulse response.
LEMMA CandidatesInside ==
  ASSUME NEW size \in Nat \ {0}, NEW r \in [start_sample : Nat, end_sample : Nat, peak_index : Nat],
         NEW in, in.filter_size = BlockSize * size,
         in.peak_index \in PeakCandidates(r, in.filter_size)
  PROVE  LET u == AnalyzerUpdate(r, in) IN
         /\ u \in [start_sample : Nat, end_sample : Nat, peak_index : Nat]
         /\ u.peak_index = r.peak_index \/ u.peak_index < BlockSize * size
<1>1. BlockSize \in Nat \ {0}  BY ThresholdAssumption
<1>2. PICK n \in Nat \ {0} : n = BlockSize * size  BY <1>1, SMTT(30)
<1>3. PICK start \in Nat : start = IF r.end_sample >= n - 1 THEN 0 ELSE r.end_sample + 1
  OBVIOUS
<1>4. PICK a \in Nat, b \in Nat : a = start + BlockSize - 1 /\ b = n - 1
  BY <1>1
<1>5. PICK end : end = Min({a, b}) /\ end \in Nat /\ end <= b
  BY MinOfTwo
<1>6. SetRegionToAnalyze(r, n) = [r EXCEPT !.start_sample = start, !.end_sample = end]
  BY <1>3, <1>4, <1>5, Zenon DEF SetRegionToAnalyze
<1>7. in.peak_index = r.peak_index \/ in.peak_index \in start .. end
  BY <1>2, <1>6 DEF PeakCandidates
<1>8. in.peak_index \in Nat /\ (in.peak_index = r.peak_index \/ in.peak_index < n)
  BY <1>3, <1>4, <1>5, <1>7
<1>9. AnalyzerUpdate(r, in) = [start_sample |-> start, end_sample |-> end,
                               peak_index |-> in.peak_index]
  <2>1. AnalyzerUpdate(r, in) = [SetRegionToAnalyze(r, n) EXCEPT !.peak_index = in.peak_index]
    BY <1>2 DEF AnalyzerUpdate
  <2>2. DOMAIN r = {"start_sample", "end_sample", "peak_index"}
    OBVIOUS
  <2>3. PICK k : k = [r EXCEPT !.start_sample = start, !.end_sample = end]
    OBVIOUS
  <2>4. k = [start_sample |-> start, end_sample |-> end, peak_index |-> r.peak_index]
    BY <2>2, <2>3
  <2>5. AnalyzerUpdate(r, in) = [k EXCEPT !.peak_index = in.peak_index]
    BY <1>6, <2>1, <2>3, Zenon
  <2> QED  BY <2>4, <2>5
<1> QED  BY <1>2, <1>3, <1>5, <1>8, <1>9

\* A product with the size of a block: it grows with the size, and a sample below it
\* is in a partition below the size.
LEMMA Samples ==
  /\ \A a \in Nat, b \in Nat : a <= b => BlockSize * a <= BlockSize * b
  /\ \A a \in Nat : BlockSize * a \in Nat
  /\ \A a \in Nat \ {0} : 0 < BlockSize * a
  /\ \A p \in Nat, a \in Nat : p < BlockSize * a => p \div BlockSize < a
<1>1. BlockSize \in Nat \ {0}  BY ThresholdAssumption
<1>2. \A a \in Nat, b \in Nat : a <= b => BlockSize * a <= BlockSize * b
  BY <1>1, SMTT(30)
<1>3. \A a \in Nat : BlockSize * a \in Nat  BY <1>1, SMTT(30)
<1>4. \A a \in Nat \ {0} : 0 < BlockSize * a  BY <1>1, SMTT(30)
<1>5. ASSUME NEW p \in Nat, NEW a \in Nat, p < BlockSize * a PROVE p \div BlockSize < a
  <2>1. PICK q \in Int : q = p \div BlockSize /\ BlockSize * q <= p
    BY <1>1, SMTT(30)
  <2>2. BlockSize * q < BlockSize * a  BY <1>1, <1>3, <1>5, <2>1
  <2>3. q < a  BY <1>1, <2>2, SMTT(30)
  <2> QED  BY <2>1, <2>3
<1> QED  BY <1>2, <1>3, <1>4, <1>5

\* The inductive invariant for the peak: inside the filter in use, and inside the
\* longest filter in any case, which is what a filter that GrowsToItself ends at.
PeakInside ==
  /\ aec_state_.analyzer \in [start_sample : Nat, end_sample : Nat, peak_index : Nat]
  /\ aec_state_.analyzer.peak_index < BlockSize * MainLength
  /\ ~GrowsToItself(subtractor_.main_filter)
       => aec_state_.analyzer.peak_index < BlockSize * subtractor_.main_filter.current

\* What a block adds to it: the peak is inside both the filter before and after.
LEMMA BlockKeepsPeak ==
  ASSUME Growth, Agreement, Direction, PeakInside, ProcessBlock
  PROVE  /\ PeakInside'
         /\ ~GrowsToItself(subtractor_.main_filter)
              => aec_state_.analyzer.peak_index < BlockSize * subtractor_'.main_filter.current
<1> DEFINE f == subtractor_.main_filter
           g == subtractor_'.main_filter
           r == aec_state_.analyzer
           u == aec_state_'.analyzer
<1>1. /\ Sound(f, MainLength) /\ Moving(f, MainInitialLength, MainLength)
      /\ aec_state_.initial.strong \in Nat
  BY DEF Direction, HeadedFor, Growth, Grows, Counted
<1>2. PICK m, in :
        /\ m \in NextSizes(f)
        /\ in.filter_size = BlockSize * m
        /\ in.peak_index \in PeakCandidates(r, in.filter_size)
        /\ u = AnalyzerUpdate(r, in)
        /\ g = Adapt(f, m)
  BY <1>1, ProcessBlockParts
<1>3. r \in [start_sample : Nat, end_sample : Nat, peak_index : Nat]
      /\ r.peak_index < BlockSize * MainLength
      /\ (~GrowsToItself(f) => r.peak_index < BlockSize * f.current)
  BY DEF PeakInside
<1> HIDE DEF f, g, r, u
<1>4. /\ m \in 1 .. MainLength /\ g.current = m
      /\ ~GrowsToItself(f) => f.current <= m
      /\ GrowsToItself(f) /\ ~GrowsToItself(g) => m = MainLength
  BY <1>1, <1>2, Lengths, AdaptKeepsMoving
<1>5. f.current \in 1 .. MainLength  BY <1>1 DEF Sound, FilterType
<1>6. m \in Nat \ {0} /\ MainLength \in Nat /\ f.current \in Nat /\ m <= MainLength
  BY <1>4, <1>5, Lengths
<1>7. /\ u \in [start_sample : Nat, end_sample : Nat, peak_index : Nat]
      /\ u.peak_index = r.peak_index \/ u.peak_index < BlockSize * m
  BY <1>2, <1>3, <1>6, CandidatesInside
<1>8. PICK p \in Nat, v \in Nat, w \in Nat, x \in Nat :
        /\ p = r.peak_index /\ v = BlockSize * m
        /\ w = BlockSize * MainLength /\ x = BlockSize * f.current
        /\ v <= w /\ (f.current <= m => x <= v)
  BY <1>3, <1>6, Samples
<1>9. ~GrowsToItself(f) => p < v
  BY <1>3, <1>4, <1>8
<1>10. u.peak_index < w
  BY <1>3, <1>7, <1>8
<1>11. ~GrowsToItself(g) => u.peak_index < v
  <2>1. CASE GrowsToItself(f)  BY <1>4, <1>8, <1>10, <2>1
  <2>2. CASE ~GrowsToItself(f)  BY <1>7, <1>8, <1>9, <2>2
  <2> QED  BY <2>1, <2>2
<1> QED  BY <1>4, <1>7, <1>8, <1>9, <1>10, <1>11 DEF PeakInside, GrowsToItself, f, g, r, u

\* Before a block, the filter either restarts with the peak, or keeps its size.
LEMMA AdjustmentKeepsSize ==
  ASSUME NEW max \in Nat \ {0}, NEW initial \in 1 .. max, NEW f, Sound(f, max),
         NEW reset \in BOOLEAN, NEW exit \in BOOLEAN
  PROVE  LET g == Adjusted(f, initial, max, reset, exit) IN
         /\ Sound(g, max)
         /\ ~reset => g.current = f.current
         /\ ~reset /\ ~exit => g = f
<1> DEFINE h == SetSizePartitions(FilterHandleEchoPathChange(f), initial, TRUE)
           k == IF reset THEN h ELSE f
           g == Adjusted(f, initial, max, reset, exit)
<1>1. Sound(h, max)
  <2>1. Sound(FilterHandleEchoPathChange(f), max)  BY PathChangeIsSound
  <2> QED  BY <2>1, SetSizeIsSound
<1>2. Sound(k, max) /\ (~reset => k = f)
  <2> HIDE DEF h
  <2> QED  BY <1>1
<1>3. g = IF exit THEN SetSizePartitions(k, max, FALSE) ELSE k
  BY Zenon DEF Adjusted
<1> HIDE DEF k, g
<1>4. PICK size \in 1 .. max : size = max  OBVIOUS
<1>5. CASE exit
  <2>1. g = SetSizePartitions(k, size, FALSE)  BY <1>3, <1>4, <1>5
  <2>2. Sound(g, max)  BY <1>2, <2>1, SetSizeIsSound
  <2>3. BeginsChange(k, size, g)  BY <1>2, <2>1, SetSizeGradually
  <2> QED  BY <1>2, <1>5, <2>2, <2>3 DEF BeginsChange, g
<1>6. CASE ~exit
  BY <1>2, <1>3, <1>6 DEF g
<1> QED  BY <1>5, <1>6

\* It holds initially and every step keeps it.
LEMMA PeakInductive == InitialOutlastsChange /\ Spec => []PeakInside
<1> SUFFICES ASSUME InitialOutlastsChange PROVE Spec => []PeakInside
  OBVIOUS
<1>1. Init => PeakInside
  <2> SUFFICES ASSUME Init PROVE PeakInside  OBVIOUS
  <2>1. /\ aec_state_.analyzer = [start_sample |-> 0, end_sample |-> 0, peak_index |-> 0]
        /\ subtractor_.main_filter.current = MainInitialLength
    BY DEF Init, NewAecState, AnalyzerReset, NewSubtractor, NewFilter
  <2>2. 0 < BlockSize * MainLength /\ 0 < BlockSize * MainInitialLength
    BY Lengths, Samples
  <2> QED  BY <2>1, <2>2 DEF PeakInside
<1>2. PeakInside /\ Growth /\ Agreement /\ Direction /\ [Next]_vars => PeakInside'
  <2> SUFFICES ASSUME PeakInside, Growth, Agreement, Direction, [Next]_vars PROVE PeakInside'
    OBVIOUS
  <2>1. CASE BeginFrame
    BY <2>1 DEF BeginFrame, PeakInside
  <2>2. ASSUME NEW delay_change \in BOOLEAN, AdjustToChange(delay_change)
        PROVE  PeakInside'
    <3> DEFINE main == subtractor_.main_filter
               i == aec_state_.initial
    <3>1. PICK exit \in BOOLEAN :
            /\ exit <=> i.transition
            /\ aec_state_'.analyzer = (IF delay_change THEN AnalyzerReset
                                       ELSE aec_state_.analyzer)
            /\ main' = Adjusted(main, MainInitialLength, MainLength, delay_change, exit)
      BY <2>2, AdjustToChangeParts
    <3>2. /\ Sound(main, MainLength) /\ (exit => Settled(main))
      <4>1. phase = "adjust"  BY <2>2 DEF AdjustToChange
      <4> QED  BY <3>1, <4>1 DEF Direction, HeadedFor, Growth, Grows, InTime
    <3> HIDE DEF main, i
    <3>3. /\ Sound(main', MainLength)
          /\ ~delay_change => main'.current = main.current
          /\ ~delay_change /\ ~exit => main' = main
      BY <3>1, <3>2, Lengths, AdjustmentKeepsSize
    <3>4. CASE delay_change
      <4>1. aec_state_'.analyzer = [start_sample |-> 0, end_sample |-> 0, peak_index |-> 0]
        BY <3>1, <3>4 DEF AnalyzerReset
      <4>2. main'.current \in Nat \ {0}
        <5>1. main' \in FilterType(MainLength)  BY <3>3 DEF Sound
        <5> QED  BY <5>1, Lengths DEF FilterType
      <4>3. 0 < BlockSize * MainLength /\ 0 < BlockSize * main'.current
        BY <4>2, Lengths, Samples
      <4> QED  BY <4>1, <4>3 DEF PeakInside, main
    <3>5. CASE ~delay_change
      <4>1. aec_state_'.analyzer = aec_state_.analyzer  BY <3>1, <3>5
      <4>2. ~GrowsToItself(main') => ~GrowsToItself(main)
        <5>1. CASE exit
          <6>1. main.change_counter = 0  BY <3>2, <5>1 DEF Settled
          <6> QED  BY <6>1 DEF GrowsToItself
        <5>2. CASE ~exit  BY <3>3, <3>5, <5>2
        <5> QED  BY <5>1, <5>2
      <4>3. main'.current = main.current  BY <3>3, <3>5
      <4>4. /\ aec_state_.analyzer \in [start_sample : Nat, end_sample : Nat, peak_index : Nat]
            /\ aec_state_.analyzer.peak_index < BlockSize * MainLength
            /\ ~GrowsToItself(main)
                 => aec_state_.analyzer.peak_index < BlockSize * main.current
        BY DEF PeakInside, main
      <4>5. ~GrowsToItself(main')
              => aec_state_'.analyzer.peak_index < BlockSize * main'.current
        BY <4>1, <4>2, <4>3, <4>4
      <4> QED  BY <4>1, <4>4, <4>5 DEF PeakInside, main
    <3> QED  BY <3>4, <3>5
  <2>3. CASE ProcessBlock
    BY <2>3, BlockKeepsPeak
  <2>4. CASE UNCHANGED vars
    BY <2>4 DEF vars, PeakInside
  <2> QED  BY <2>1, <2>2, <2>3, <2>4 DEF Next
<1> QED  BY <1>1, <1>2, GrowthInductive, AgreementInductive, DirectionInductive, PTL DEF Spec

\* The peak the analyzer remembers is inside the impulse response it looks at next,
\* although filters shrink when the delay changes.
THEOREM PeakAlwaysInside == InitialOutlastsChange /\ Spec => PeakInsideFilter
<1> SUFFICES ASSUME InitialOutlastsChange PROVE Spec => PeakInsideFilter
  OBVIOUS
<1> DEFINE Step == phase = "subtract" /\ ~GrowsToItself(subtractor_.main_filter)
                     => aec_state_.analyzer.peak_index
                          < BlockSize * subtractor_'.main_filter.current
<1>1. PeakInside /\ Growth /\ Agreement /\ Direction /\ [Next]_vars => [Step]_vars
  <2> SUFFICES ASSUME PeakInside, Growth, Agreement, Direction, Next, phase = "subtract",
                      ~GrowsToItself(subtractor_.main_filter)
               PROVE  aec_state_.analyzer.peak_index
                        < BlockSize * subtractor_'.main_filter.current
    OBVIOUS
  <2>1. CASE BeginFrame
    BY <2>1 DEF BeginFrame, PeakInside
  <2>2. CASE ProcessBlock
    BY <2>2, BlockKeepsPeak
  <2>3. ASSUME NEW delay_change \in BOOLEAN, AdjustToChange(delay_change) PROVE FALSE
    BY <2>3 DEF AdjustToChange
  <2> QED  BY <2>1, <2>2, <2>3 DEF Next
<1> QED  BY <1>1, PeakInductive, GrowthInductive, AgreementInductive, DirectionInductive, PTL
         DEF Spec, PeakInsideFilter

\* The guess for the delay is in the shortest filter, as the default's is (0 of 12).
GuessFits == DelayGuess < MainInitialLength

\* After every block the filter delay is inside the filter in use, whether it is
\* guessed or found.
THEOREM DelayAlwaysInside ==
  InitialOutlastsChange /\ GuessFits /\ Spec => []DelayInsideFilter
<1> SUFFICES ASSUME InitialOutlastsChange, GuessFits PROVE Spec => []DelayInsideFilter
  OBVIOUS
<1>1. Init => DelayInsideFilter
  <2> SUFFICES ASSUME Init PROVE DelayInsideFilter  OBVIOUS
  <2>1. /\ aec_state_.delay.min = 0
        /\ subtractor_.main_filter.current = MainInitialLength
    BY DEF Init, NewAecState, NewSubtractor, NewFilter
  <2> QED  BY <2>1, Lengths DEF DelayInsideFilter
<1>2. DelayInsideFilter /\ PeakInside /\ PeakInside' /\ Growth /\ Growth'
        /\ Agreement /\ Direction /\ Direction' /\ [Next]_vars => DelayInsideFilter'
  <2> SUFFICES ASSUME DelayInsideFilter, PeakInside, PeakInside', Growth, Growth',
                      Agreement, Direction, Direction', [Next]_vars
               PROVE  DelayInsideFilter'
    OBVIOUS
  <2>1. CASE BeginFrame
    BY <2>1 DEF BeginFrame, DelayInsideFilter
  <2>2. ASSUME NEW delay_change \in BOOLEAN, AdjustToChange(delay_change)
        PROVE  DelayInsideFilter'
    BY <2>2 DEF AdjustToChange, DelayInsideFilter
  <2>3. CASE ProcessBlock
    <3> DEFINE g == subtractor_'.main_filter
    <3> SUFFICES ASSUME ~GrowsToItself(g) PROVE aec_state_'.delay.min < g.current
      BY DEF DelayInsideFilter
    <3>1. aec_state_'.delay.min \in {DelayGuess, aec_state_'.analyzer.peak_index \div BlockSize}
      <4>1. aec_state_.initial.strong \in Nat  BY DEF Growth, Counted
      <4> QED  BY <2>3, <4>1, ProcessBlockParts
    <3>2. /\ aec_state_'.analyzer.peak_index \in Nat
          /\ aec_state_'.analyzer.peak_index < BlockSize * g.current
      BY DEF PeakInside
    <3>3. Moving(g, MainInitialLength, MainLength) /\ Sound(g, MainLength)
      BY DEF Growth, Grows, Direction, HeadedFor
    <3> HIDE DEF g
    <3>4. /\ g.current \in Nat /\ g.old_target \in Nat /\ g.target \in Nat
          /\ g.change_counter \in Nat
      <4>1. g \in FilterType(MainLength)  BY <3>3 DEF Sound
      <4> QED  BY <4>1, Lengths, DurationAssumption DEF FilterType
    <3>5. MainInitialLength <= g.current
      <4>1. MainInitialLength <= g.old_target /\ g.old_target <= g.target
        BY <3>3 DEF Moving
      <4>2. CASE g.change_counter = 0
        <5>1. g.current = g.target  BY <3>3, <4>2 DEF Moving
        <5> QED  BY <3>4, <4>1, <5>1, Lengths
      <4>3. CASE g.change_counter > 0
        <5>1. g.old_target < g.target  BY <3>4, <4>1, <4>3 DEF GrowsToItself
        <5>2. g.old_target <= g.current  BY <3>3, <4>3, <5>1 DEF Moving, Growing
        <5> QED  BY <3>4, <4>1, <5>2, Lengths
      <4> QED  BY <3>4, <4>2, <4>3
    <3>6. aec_state_'.analyzer.peak_index \div BlockSize < g.current
      BY <3>2, <3>4, Samples
    <3>7. DelayGuess < g.current
      BY <3>4, <3>5, Lengths, ThresholdAssumption DEF GuessFits
    <3> QED  BY <3>1, <3>6, <3>7
  <2>4. CASE UNCHANGED vars
    BY <2>4 DEF vars, DelayInsideFilter
  <2> QED  BY <2>1, <2>2, <2>3, <2>4 DEF Next
<1> QED  BY <1>1, <1>2, PeakInductive, GrowthInductive, AgreementInductive, DirectionInductive,
            PTL DEF Spec

-----------------------------------------------------------------------------
(* Types.                                                                  *)

\* The gains, with their fields.
GainType == [current : Config, target : Config, old_target : Config,
             change_counter : 0 .. ChangeDuration]
GainsTyped(s) ==
  /\ s.main_gain \in GainType /\ s.shadow_gain \in GainType
  /\ s.poor_shadow_filter_counter \in 0 .. PoorShadowLimit - 1

\* Both ways to set a gain, and a block, leave it one.
LEMMA GainsStayTyped ==
  ASSUME NEW g \in GainType
  PROVE  /\ \A config \in {"initial", "regular"} :
              SetConfig(g, config, TRUE) \in GainType /\ SetConfig(g, config, FALSE) \in GainType
         /\ UpdateCurrentConfig(g) \in GainType
<1>1. ChangeDuration \in Nat \ {0}  BY DurationAssumption
<1>2. PICK c \in Config, t \in Config, o \in Config, n \in 0 .. ChangeDuration :
        g = [current |-> c, target |-> t, old_target |-> o, change_counter |-> n]
  BY DEF GainType
<1>3. "initial" \in Config /\ "regular" \in Config /\ "between" \in Config
  BY DEF Config
<1>4. ASSUME NEW config \in Config
      PROVE  SetConfig(g, config, TRUE) \in GainType /\ SetConfig(g, config, FALSE) \in GainType
  <2>1. SetConfig(g, config, TRUE) = [current |-> config, target |-> config,
                                      old_target |-> config, change_counter |-> 0]
    BY DEF SetConfig
  <2>2. SetConfig(g, config, FALSE) = [current |-> c, target |-> config, old_target |-> c,
                                       change_counter |-> ChangeDuration]
    BY <1>2 DEF SetConfig
  <2>3. 0 \in 0 .. ChangeDuration /\ ChangeDuration \in 0 .. ChangeDuration  BY <1>1
  <2>4. [current |-> config, target |-> config, old_target |-> config, change_counter |-> 0]
          \in GainType
    BY <1>4, <2>3 DEF GainType
  <2>5. [current |-> c, target |-> config, old_target |-> c, change_counter |-> ChangeDuration]
          \in GainType
    BY <1>4, <2>3 DEF GainType
  <2> QED  BY <2>1, <2>2, <2>4, <2>5, Zenon
<1>5. UpdateCurrentConfig(g) \in GainType
  <2>1. CASE n = 0
    BY <1>2, <2>1 DEF UpdateCurrentConfig
  <2>2. CASE n = 1
    <3>1. UpdateCurrentConfig(g) = [current |-> t, target |-> t, old_target |-> t,
                                    change_counter |-> 0]
      BY <1>2, <2>2 DEF UpdateCurrentConfig
    <3> QED  BY <1>1, <3>1 DEF GainType
  <2>3. CASE n # 0 /\ n # 1
    <3>1. PICK k \in Config : k = IF o = t THEN t ELSE "between"
      BY <1>3
    <3>2. UpdateCurrentConfig(g) = [current |-> k, target |-> t, old_target |-> o,
                                    change_counter |-> n - 1]
      BY <1>2, <2>3, <3>1 DEF UpdateCurrentConfig
    <3>3. n - 1 \in 0 .. ChangeDuration  BY <1>1, <2>3
    <3> QED  BY <3>2, <3>3 DEF GainType
  <2> QED  BY <2>1, <2>2, <2>3
<1> QED  BY <1>3, <1>4, <1>5

\* So do the operations of the subtractor; its count of blocks with a poor shadow
\* filter starts over when it reaches the limit.
LEMMA OperationsKeepGains ==
  ASSUME NEW s, NEW i \in BOOLEAN, HeadedFor(s, i), GainsTyped(s)
  PROVE  /\ GainsTyped(SubtractorReset(s)) /\ GainsTyped(ExitInitialState(s))
         /\ \A m, n, misadjusted, worse : GainsTyped(SubtractorProcess(s, m, n, misadjusted, worse))
<1>1. /\ DOMAIN s = {"main_filter", "shadow_filter", "main_gain", "shadow_gain",
                     "poor_shadow_filter_counter"}
      /\ s.main_gain \in GainType /\ s.shadow_gain \in GainType
      /\ s.poor_shadow_filter_counter \in 0 .. PoorShadowLimit - 1
  BY DEF HeadedFor, GainsTyped
<1>2. GainsTyped(SubtractorReset(s))
  <2>1. PICK r : r = SubtractorReset(s)  OBVIOUS
  <2>2. /\ r.main_gain = SetConfig(s.main_gain, "initial", TRUE)
        /\ r.shadow_gain = SetConfig(s.shadow_gain, "initial", TRUE)
        /\ r.poor_shadow_filter_counter = s.poor_shadow_filter_counter
    BY <1>1, <2>1 DEF SubtractorReset
  <2> QED  BY <1>1, <2>1, <2>2, GainsStayTyped DEF GainsTyped
<1>3. GainsTyped(ExitInitialState(s))
  <2>1. PICK r : r = ExitInitialState(s)  OBVIOUS
  <2>2. /\ r.main_gain = SetConfig(s.main_gain, "regular", FALSE)
        /\ r.shadow_gain = SetConfig(s.shadow_gain, "regular", FALSE)
        /\ r.poor_shadow_filter_counter = s.poor_shadow_filter_counter
    BY <1>1, <2>1 DEF ExitInitialState
  <2> QED  BY <1>1, <2>1, <2>2, GainsStayTyped DEF GainsTyped
<1>4. ASSUME NEW m, NEW n, NEW misadjusted, NEW worse
      PROVE  GainsTyped(SubtractorProcess(s, m, n, misadjusted, worse))
  <2>0. PICK counter : counter = IF worse THEN s.poor_shadow_filter_counter + 1 ELSE 0
    OBVIOUS
  <2>1. PICK r :
          /\ r = SubtractorProcess(s, m, n, misadjusted, worse)
          /\ r.main_gain = IF misadjusted THEN s.main_gain ELSE UpdateCurrentConfig(s.main_gain)
          /\ r.shadow_gain = UpdateCurrentConfig(s.shadow_gain)
          /\ r.poor_shadow_filter_counter = IF counter >= PoorShadowLimit THEN 0 ELSE counter
    <3>1. PICK main, shadow :
            SubtractorProcess(s, m, n, misadjusted, worse)
              = [main_filter   |-> main, shadow_filter |-> shadow,
                 main_gain     |-> IF misadjusted THEN s.main_gain
                                   ELSE UpdateCurrentConfig(s.main_gain),
                 shadow_gain   |-> UpdateCurrentConfig(s.shadow_gain),
                 poor_shadow_filter_counter |-> IF counter >= PoorShadowLimit THEN 0
                                                ELSE counter]
      BY <2>0, Zenon DEF SubtractorProcess
    <3> QED  BY <3>1
  <2>2. r.main_gain \in {s.main_gain, UpdateCurrentConfig(s.main_gain)}
    BY <2>1
  <2>3. counter \in Nat  BY <1>1, <2>0
  <2>4. r.poor_shadow_filter_counter \in 0 .. PoorShadowLimit - 1
    BY <2>1, <2>3, LengthAssumption
  <2> QED  BY <1>1, <2>1, <2>2, <2>4, GainsStayTyped DEF GainsTyped
<1> QED  BY <1>2, <1>3, <1>4

\* The guess for the delay is in the longest filter.
GuessInside == DelayGuess <= MainLength

\* The inductive invariant for the types that no other invariant has: gains, the peak
\* in the longest filter, which takes no assumption on the initial state, and the
\* delay that comes from it.
Types ==
  /\ GainsTyped(subtractor_)
  /\ aec_state_.analyzer \in [start_sample : Nat, end_sample : Nat, peak_index : Nat]
  /\ aec_state_.analyzer.peak_index < BlockSize * MainLength
  /\ aec_state_.delay.min \in 0 .. MainLength
  /\ aec_state_.initial.strong \in Nat
  /\ level_change \in BOOLEAN /\ saturation \in BOOLEAN

\* It holds initially and every step keeps it.
LEMMA TypesInductive == GuessInside /\ Spec => []Types
<1> SUFFICES ASSUME GuessInside PROVE Spec => []Types
  OBVIOUS
<1>1. Init => Types
  <2> SUFFICES ASSUME Init PROVE Types  OBVIOUS
  <2>1. /\ aec_state_.analyzer = [start_sample |-> 0, end_sample |-> 0, peak_index |-> 0]
        /\ aec_state_.delay.min = 0 /\ aec_state_.initial.strong = 0
    BY DEF Init, NewAecState, AnalyzerReset
  <2>2. GainsTyped(subtractor_)
    BY DurationAssumption, LengthAssumption
       DEF Init, NewSubtractor, NewGain, GainsTyped, GainType, Config
  <2>3. 0 < BlockSize * MainLength /\ 0 \in 0 .. MainLength  BY Lengths, Samples
  <2>4. level_change \in BOOLEAN /\ saturation \in BOOLEAN  BY DEF Init
  <2> QED  BY <2>1, <2>2, <2>3, <2>4 DEF Types
<1>2. Types /\ Agreement /\ Direction /\ [Next]_vars => Types'
  <2> SUFFICES ASSUME Types, Agreement, Direction, [Next]_vars PROVE Types'
    OBVIOUS
  <2>0. /\ HeadedFor(subtractor_, suppression_initial) /\ suppression_initial \in BOOLEAN
        /\ GainsTyped(subtractor_)
    BY DEF Direction, Types
  <2>1. CASE BeginFrame
    BY <2>1, InputAssumption DEF BeginFrame, Types
  <2>2. ASSUME NEW delay_change \in BOOLEAN, AdjustToChange(delay_change)
        PROVE  Types'
    <3>1. /\ aec_state_'.initial = Restarted(aec_state_.initial, delay_change)
          /\ aec_state_'.analyzer = IF delay_change THEN AnalyzerReset ELSE aec_state_.analyzer
      BY <2>2, AdjustToChangeParts
    <3>2. aec_state_'.delay = aec_state_.delay
      <4>1. PICK saturated :
              /\ saturated = UpdateCaptureSaturation(aec_state_, saturation)
              /\ aec_state_' = IF delay_change THEN AecReset(saturated) ELSE saturated
        BY <2>2, Zenon DEF AdjustToChange
      <4>2. DOMAIN saturated = DOMAIN aec_state_ /\ saturated.delay = aec_state_.delay
        BY <4>1 DEF UpdateCaptureSaturation, Agreement, AecParts
      <4>3. AecReset(saturated).delay = saturated.delay
        BY <4>2 DEF AecReset, Agreement, AecParts
      <4> QED  BY <4>1, <4>2, <4>3
    <3>3. GainsTyped(subtractor_')
      <4>1. PICK r, exit :
              /\ r = IF delay_change THEN SubtractorReset(subtractor_) ELSE subtractor_
              /\ subtractor_' = IF exit THEN ExitInitialState(r) ELSE r
        BY <2>2, Zenon DEF AdjustToChange
      <4>2. /\ GainsTyped(r)
            /\ HeadedFor(r, delay_change \/ suppression_initial)
            /\ (delay_change \/ suppression_initial) \in BOOLEAN
        <5>1. CASE delay_change
          BY <2>0, <4>1, <5>1, ResetHeads, OperationsKeepGains
        <5>2. CASE ~delay_change
          BY <2>0, <4>1, <5>2
        <5> QED  BY <5>1, <5>2
      <4>3. GainsTyped(ExitInitialState(r))
        BY <4>2, OperationsKeepGains
      <4> QED  BY <4>1, <4>2, <4>3
    <3>4. level_change' = level_change /\ saturation' = saturation
      BY <2>2 DEF AdjustToChange, frameVars
    <3>5. /\ aec_state_'.analyzer \in [start_sample : Nat, end_sample : Nat, peak_index : Nat]
          /\ aec_state_'.analyzer.peak_index < BlockSize * MainLength
      <4>1. CASE delay_change
        <5>1. 0 < BlockSize * MainLength  BY Lengths, Samples
        <5> QED  BY <3>1, <4>1, <5>1 DEF AnalyzerReset
      <4>2. CASE ~delay_change
        BY <3>1, <4>2 DEF Types
      <4> QED  BY <4>1, <4>2
    <3>6. aec_state_'.initial.strong \in Nat
      BY <3>1 DEF Types, Restarted, InitialStateReset, Agreement, AecParts
    <3> QED  BY <3>2, <3>3, <3>4, <3>5, <3>6 DEF Types
  <2>3. CASE ProcessBlock
    <3> DEFINE r == aec_state_.analyzer
               u == aec_state_'.analyzer
    <3>0. aec_state_.initial.strong \in Nat  BY DEF Types
    <3>1. PICK m, in :
            /\ m \in NextSizes(subtractor_.main_filter)
            /\ CountsOn(aec_state_.initial, aec_state_'.initial)
            /\ in.filter_size = BlockSize * m
            /\ in.peak_index \in PeakCandidates(r, in.filter_size)
            /\ u = AnalyzerUpdate(r, in)
            /\ aec_state_'.delay.min \in {DelayGuess, u.peak_index \div BlockSize}
      BY <2>3, <3>0, ProcessBlockParts
    <3>2. m \in 1 .. MainLength
      <4>1. subtractor_.main_filter \in FilterType(MainLength)  BY <2>0 DEF HeadedFor, Sound
      <4> QED  BY <3>1, <4>1, Lengths, NextSizesInRange
    <3>3. /\ r \in [start_sample : Nat, end_sample : Nat, peak_index : Nat]
          /\ r.peak_index < BlockSize * MainLength
      BY DEF Types
    <3> HIDE DEF r, u
    <3>4. /\ u \in [start_sample : Nat, end_sample : Nat, peak_index : Nat]
          /\ u.peak_index = r.peak_index \/ u.peak_index < BlockSize * m
      <4>1. m \in Nat \ {0}  BY <3>2, Lengths
      <4> QED  BY <3>1, <3>3, <4>1, CandidatesInside
    <3>5. PICK v \in Nat, w \in Nat : v = BlockSize * m /\ w = BlockSize * MainLength /\ v <= w
      <4>1. m \in Nat /\ MainLength \in Nat /\ m <= MainLength  BY <3>2, Lengths
      <4> QED  BY <4>1, Samples
    <3>6. u.peak_index \in Nat /\ u.peak_index < BlockSize * MainLength
      BY <3>3, <3>4, <3>5
    <3>7. u.peak_index \div BlockSize \in 0 .. MainLength
      <4>1. u.peak_index \div BlockSize < MainLength
        BY <3>6, Lengths, Samples
      <4>2. u.peak_index \div BlockSize \in Nat
        BY <3>6, ThresholdAssumption, SMTT(30)
      <4> QED  BY <4>1, <4>2, Lengths
    <3>8. DelayGuess \in 0 .. MainLength
      BY ThresholdAssumption, Lengths DEF GuessInside
    <3>9. aec_state_'.delay.min \in 0 .. MainLength
      BY <3>1, <3>7, <3>8
    <3>10. aec_state_'.initial.strong \in Nat
      BY <3>0, <3>1 DEF CountsOn
    <3>11. GainsTyped(subtractor_')
      <4>1. \E k, n, misadjusted, worse :
              subtractor_' = SubtractorProcess(subtractor_, k, n, misadjusted, worse)
        BY <2>3, Zenon DEF ProcessBlock
      <4> QED  BY <2>0, <4>1, OperationsKeepGains
    <3>12. level_change' = level_change /\ saturation' = saturation
      BY <2>3 DEF ProcessBlock
    <3> QED  BY <3>4, <3>6, <3>9, <3>10, <3>11, <3>12 DEF Types, u
  <2>4. CASE UNCHANGED vars
    BY <2>4 DEF vars, frameVars, Types
  <2> QED  BY <2>1, <2>2, <2>3, <2>4 DEF Next
<1> QED  BY <1>1, <1>2, AgreementInductive, DirectionInductive, PTL DEF Spec

\* Type correctness: sizes, changes of size and of gains, and the delay stay in
\* their ranges.
THEOREM TypeCorrect == GuessInside /\ Spec => []TypeOK
<1> SUFFICES ASSUME GuessInside PROVE Spec => []TypeOK
  OBVIOUS
<1>1. Types /\ Direction /\ HangoverLasts => TypeOK
  <2> SUFFICES ASSUME Types, Direction, HangoverLasts PROVE TypeOK
    OBVIOUS
  <2>1. /\ subtractor_.main_filter \in FilterType(MainLength)
        /\ subtractor_.shadow_filter \in FilterType(ShadowLength)
        /\ suppression_initial \in BOOLEAN
    BY DEF Direction, HeadedFor, Sound
  <2>2. /\ Gains \subseteq GainType
        /\ subtractor_.poor_shadow_filter_counter \in 0 .. PoorShadowLimit - 1
        /\ aec_state_.delay.min \in 0 .. MainLength
        /\ level_change \in BOOLEAN /\ saturation \in BOOLEAN
    BY DEF Types, GainsTyped, Gains
  <2>3. /\ gain_change_hangover_ \in 0 .. MaxBlocksPerFrame
        /\ phase \in {"adjust", "subtract"}
        /\ frame_size \in {2, 3} /\ left \in 0 .. 3 /\ acted \in 0 .. 3
    BY DEF HangoverLasts
  <2> QED  BY <2>1, <2>2, <2>3, Zenon DEF TypeOK, GainType
<1> QED  BY <1>1, TypesInductive, DirectionInductive, HangoverInductive, PTL
=============================================================================
