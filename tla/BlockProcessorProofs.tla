------------------------- MODULE BlockProcessorProofs -------------------------
(***************************************************************************)
(* Theorems about BlockProcessor, for every size of the rings and every    *)
(* configuration.  The processor drives the render delay buffer, so every  *)
(* theorem about the buffer holds of it (DrivesTheBuffer); what the echo   *)
(* remover is called with takes invariants of its own, one clause for each *)
(* place a ProcessCapture call can be at.                                  *)
(***************************************************************************)
EXTENDS BlockProcessor, RenderDelayBufferProofs

-----------------------------------------------------------------------------
(* The processor drives the buffer.                                        *)

\* Where the call is, and what the controller can have answered.
CallsOK ==
  /\ pc \in {"idle", "prepare", "align", "remove"}
  /\ controllerDelay \in Estimates \cup {None}

\* Every step keeps it.
LEMMA CallsNext == CallsOK /\ [BlockNext]_allVars => CallsOK'
<1> SUFFICES ASSUME CallsOK, [BlockNext]_allVars PROVE CallsOK'
  OBVIOUS
<1>1. ASSUME NEW active \in BOOLEAN, BufferRender(active) PROVE CallsOK'
  BY <1>1 DEF BufferRender, CallsOK
<1>2. CASE ProcessCapture
  BY <1>2 DEF ProcessCapture, CallsOK
<1>3. CASE PrepareBuffers
  BY <1>3 DEF PrepareBuffers, CallsOK
<1>4. CASE Align
  BY <1>4 DEF Align, CallsOK
<1>5. CASE AlignExternally
  BY <1>5 DEF AlignExternally, CallsOK
<1>6. CASE RemoveEcho
  BY <1>6 DEF RemoveEcho, CallsOK
<1>7. ASSUME NEW ms \in AudioDelaysMs, ReportAudioBufferDelay(ms) PROVE CallsOK'
  BY <1>7 DEF ReportAudioBufferDelay, processorVars, CallsOK
<1>8. CASE UNCHANGED allVars
  BY <1>8 DEF allVars, processorVars, CallsOK
<1> QED  BY <1>1, <1>2, <1>3, <1>4, <1>5, <1>6, <1>7, <1>8 DEF BlockNext

\* The calls are always in order.
LEMMA CallsAlways == BlockSpec => []CallsOK
<1>1. BlockInit => CallsOK  BY DEF BlockInit, CallsOK
<1>2. CallsOK /\ [BlockNext]_allVars => CallsOK'  BY CallsNext
<1> QED  BY <1>1, <1>2, PTL DEF BlockSpec

\* A step of the processor is an operation of the buffer or leaves it alone.
LEMMA StepsOfTheBuffer == CallsOK /\ [BlockNext]_allVars => [Next]_vars
<1> SUFFICES ASSUME CallsOK, [BlockNext]_allVars PROVE [Next]_vars
  OBVIOUS
<1>1. ASSUME NEW active \in BOOLEAN, BufferRender(active) PROVE Next
  BY <1>1 DEF BufferRender, Next
<1>2. CASE ProcessCapture
  <2>1. Reset \/ UNCHANGED vars  BY <1>2 DEF ProcessCapture
  <2> QED  BY <2>1 DEF Next
<1>3. CASE PrepareBuffers
  BY <1>3 DEF PrepareBuffers, Next
<1>4. CASE Align
  <2>1. PICK estimate \in Estimates \cup {controllerDelay} :
          IF estimate = None \/ delay_ = estimate
          THEN UNCHANGED <<vars, delay_change>>
          ELSE AlignFromDelay(estimate) /\ delay_change' = "new_delay"
    BY <1>4 DEF Align
  <2>2. CASE estimate = None \/ delay_ = estimate
    <3>1. UNCHANGED <<vars, delay_change>>  BY <2>1, <2>2
    <3>2. UNCHANGED vars  BY <3>1
    <3> QED  BY <3>2
  <2>3. CASE ~(estimate = None \/ delay_ = estimate)
    <3>1. estimate \in Estimates /\ AlignFromDelay(estimate)  BY <2>1, <2>3 DEF CallsOK
    <3> QED  BY <3>1 DEF Next
  <2> QED  BY <2>2, <2>3
<1>5. CASE AlignExternally
  <2>1. AlignFromExternalDelay \/ UNCHANGED vars  BY <1>5 DEF AlignExternally
  <2> QED  BY <2>1 DEF Next
<1>6. CASE RemoveEcho
  <2>1. UNCHANGED vars  BY <1>6 DEF RemoveEcho
  <2> QED  BY <2>1
<1>7. ASSUME NEW ms \in AudioDelaysMs, ReportAudioBufferDelay(ms) PROVE Next
  BY <1>7 DEF ReportAudioBufferDelay, Next
<1>8. CASE UNCHANGED allVars
  <2>1. UNCHANGED vars  BY <1>8 DEF allVars
  <2> QED  BY <2>1
<1> QED  BY <1>1, <1>2, <1>3, <1>4, <1>5, <1>6, <1>7, <1>8 DEF BlockNext

\* What the block processor does to the render delay buffer is what the buffer's
\* specification allows: its theorems hold of the processor.
THEOREM DrivesTheBuffer == BlockSpec => Spec
<1>1. BlockInit => Init  BY DEF BlockInit
<1>2. CallsOK /\ [BlockNext]_allVars => [Next]_vars  BY StepsOfTheBuffer
<1> QED  BY <1>1, <1>2, CallsAlways, PTL DEF BlockSpec, Spec

-----------------------------------------------------------------------------
(* The delay the remover reads at.                                         *)

\* Once Align is over the buffer has the controller's delay; nothing but the echo
\* remover runs before the call ends.
EstimateApplied ==
  pc = "remove" /\ ~use_external_delay_estimator /\ controllerDelay # None =>
    delay_ = controllerDelay /\ ~aborted

\* Every step keeps it.
LEMMA EstimateAppliedNext ==
  CallsOK /\ RingInv /\ EstimateApplied /\ [BlockNext]_allVars => EstimateApplied'
<1> SUFFICES ASSUME CallsOK, RingInv, EstimateApplied, [BlockNext]_allVars
             PROVE  EstimateApplied'
  OBVIOUS
<1>1. ASSUME NEW active \in BOOLEAN, BufferRender(active) PROVE EstimateApplied'
  BY <1>1 DEF BufferRender, EstimateApplied
<1>2. CASE ProcessCapture
  BY <1>2 DEF ProcessCapture, EstimateApplied
<1>3. CASE PrepareBuffers
  BY <1>3 DEF PrepareBuffers, EstimateApplied
<1>4. CASE Align
  <2>1. PICK estimate \in Estimates \cup {controllerDelay} :
          /\ controllerDelay' = estimate
          /\ IF estimate = None \/ delay_ = estimate
             THEN UNCHANGED <<vars, delay_change>>
             ELSE AlignFromDelay(estimate) /\ delay_change' = "new_delay"
    BY <1>4 DEF Align
  <2>2. ~aborted  BY <1>4 DEF Align
  <2>3. CASE estimate = None
    BY <2>1, <2>3 DEF EstimateApplied
  <2>4. CASE estimate # None /\ delay_ = estimate
    <3>1. UNCHANGED <<vars, delay_change>>  BY <2>1, <2>4
    <3>2. delay_' = delay_ /\ aborted' = aborted  BY <3>1 DEF vars
    <3> QED  BY <2>1, <2>2, <2>4, <3>2 DEF EstimateApplied
  <2>5. CASE estimate # None /\ delay_ # estimate
    <3>1. AlignFromDelay(estimate) /\ estimate \in Estimates  BY <2>1, <2>5 DEF CallsOK
    <3>2. delay_' = estimate /\ ~aborted'  BY <3>1, AlignmentPasses
    <3> QED  BY <2>1, <3>2 DEF EstimateApplied
  <2> QED  BY <2>3, <2>4, <2>5
<1>5. CASE AlignExternally
  <2>1. use_external_delay_estimator' = use_external_delay_estimator
        /\ use_external_delay_estimator
    BY <1>5 DEF AlignExternally, AlignFromExternalDelay, vars, externalVars
  <2> QED  BY <2>1 DEF EstimateApplied
<1>6. CASE RemoveEcho
  BY <1>6 DEF RemoveEcho, EstimateApplied
<1>7. ASSUME NEW ms \in AudioDelaysMs, ReportAudioBufferDelay(ms) PROVE EstimateApplied'
  BY <1>7 DEF ReportAudioBufferDelay, processorVars, EstimateApplied
<1>8. CASE UNCHANGED allVars
  BY <1>8 DEF allVars, vars, externalVars, processorVars, EstimateApplied
<1> QED  BY <1>1, <1>2, <1>3, <1>4, <1>5, <1>6, <1>7, <1>8 DEF BlockNext

\* Every render block the remover is given is aligned to the controller's estimate,
\* whatever resets, overruns and underruns lie between the estimate and its use.
THEOREM EstimateAlwaysUsed == RingsFit /\ BlockSpec => []RemoverUsesEstimate
<1> SUFFICES ASSUME RingsFit PROVE BlockSpec => []RemoverUsesEstimate
  OBVIOUS
<1>1. BlockInit => EstimateApplied  BY DEF BlockInit, EstimateApplied
<1>2. CallsOK /\ RingInv /\ EstimateApplied /\ [BlockNext]_allVars => EstimateApplied'
  BY EstimateAppliedNext
<1>3. BlockSpec => []RingInv  BY DrivesTheBuffer, RingInvAlways
<1>4. BlockSpec => []DelayKept  BY DrivesTheBuffer, DelayAlwaysKept
<1>5. RingInv /\ DelayKept /\ EstimateApplied => RemoverUsesEstimate
  <2> SUFFICES ASSUME RingInv, DelayKept, EstimateApplied, pc = "remove",
                      ~use_external_delay_estimator, controllerDelay # None
               PROVE  /\ delay_ = controllerDelay
                      /\ cut = 0 => ComputeDelay = controllerDelay
    BY DEF RemoverUsesEstimate
  <2>1. delay_ = controllerDelay /\ ~aborted  BY DEF EstimateApplied
  <2>2. ComputeDelay = Larger(delay_ - cut, 0) /\ delay_ >= 0  BY <2>1 DEF DelayKept
  <2>3. delay_ \in Int  BY <2>1 DEF RingInv, DelaysOK
  <2> QED  BY <2>1, <2>2, <2>3 DEF Larger
<1> QED  BY <1>1, <1>2, <1>3, <1>4, <1>5, CallsAlways, PTL DEF BlockSpec

-----------------------------------------------------------------------------
(* The external delay.                                                     *)

\* The block the remover reads once an external delay was applied, if it is in the
\* history.
Followed ==
  LET wanted == capture_call_counter_ - external_audio_buffer_delay_ IN
  wanted \in render_call_counter_ - (BufferSize - 1) .. render_call_counter_ => ReadBlock = wanted
ExternalApplied == pc = "remove" /\ use_external_delay_estimator => Followed

\* Applying the external delay leads there, wherever the read positions were.
LEMMA ExternalDelayApplied ==
  ASSUME RingInv, AlignFromExternalDelay
  PROVE  Followed'
<1> DEFINE total == ExternalTotalDelay
           wanted == capture_call_counter_ - external_audio_buffer_delay_
<1>0. /\ blocks \in Ring(Slot) /\ spectra \in Ring(Slot) /\ ffts = spectra
      /\ MirroredRings(blocks, spectra)
      /\ external_audio_buffer_delay_ \in Int
      /\ render_call_counter_ \in Int /\ capture_call_counter_ \in Int
  BY DEF RingInv, PositionsOK, DelaysOK, CountersOK, Count, AlignFromExternalDelay
<1>1. total \in Int /\ wanted \in Int /\ wanted = render_call_counter_ - total
  BY <1>0 DEF ExternalTotalDelay
<1>2. /\ ApplyTotalDelay(blocks, spectra, spectra, total)
      /\ render_call_counter_' = render_call_counter_
      /\ capture_call_counter_' = capture_call_counter_
      /\ external_audio_buffer_delay_' = external_audio_buffer_delay_
  BY <1>0 DEF AlignFromExternalDelay, externalVars
<1> HIDE DEF total, wanted
<1>3. ASSUME wanted \in render_call_counter_ - (BufferSize - 1) .. render_call_counter_
      PROVE  render_call_counter_ - DistanceOf(spectra') = wanted
  <2>1. total \in Slot  BY <1>0, <1>1, <1>3, Sizes DEF Slot
  <2>2. DistanceOf(spectra') = total  BY <1>0, <1>1, <1>2, <2>1, ApplyEffect
  <2> QED  BY <1>1, <2>2
<1>4. /\ ReadBlock' = render_call_counter_ - DistanceOf(spectra')
      /\ (capture_call_counter_ - external_audio_buffer_delay_)' = wanted
  BY <1>2 DEF ReadBlock, InternalDelay, wanted
<1> QED  BY <1>2, <1>3, <1>4 DEF Followed

\* Every step keeps it.
LEMMA ExternalAppliedNext ==
  RingInv /\ ExternalApplied /\ [BlockNext]_allVars => ExternalApplied'
<1> SUFFICES ASSUME RingInv, ExternalApplied, [BlockNext]_allVars PROVE ExternalApplied'
  OBVIOUS
<1>1. ASSUME NEW active \in BOOLEAN, BufferRender(active) PROVE ExternalApplied'
  BY <1>1 DEF BufferRender, ExternalApplied
<1>2. CASE ProcessCapture
  BY <1>2 DEF ProcessCapture, ExternalApplied
<1>3. CASE PrepareBuffers
  BY <1>3 DEF PrepareBuffers, ExternalApplied
<1>4. CASE Align
  <2>1. PICK estimate : UNCHANGED <<vars, delay_change>> \/ AlignFromDelay(estimate)
    BY <1>4 DEF Align
  <2>2. use_external_delay_estimator' = use_external_delay_estimator
    BY <2>1 DEF AlignFromDelay, vars, externalVars
  <2>3. ~use_external_delay_estimator  BY <1>4 DEF Align
  <2> QED  BY <2>2, <2>3 DEF ExternalApplied
<1>5. CASE AlignExternally
  <2>1. CASE AlignFromExternalDelay
    BY <2>1, ExternalDelayApplied DEF ExternalApplied
  <2>2. CASE pc' = "idle"
    BY <2>2 DEF ExternalApplied
  <2> QED  BY <1>5, <2>1, <2>2 DEF AlignExternally
<1>6. CASE RemoveEcho
  BY <1>6 DEF RemoveEcho, ExternalApplied
<1>7. ASSUME NEW ms \in AudioDelaysMs, ReportAudioBufferDelay(ms) PROVE ExternalApplied'
  BY <1>7 DEF ReportAudioBufferDelay, processorVars, ExternalApplied
<1>8. CASE UNCHANGED allVars
  BY <1>8 DEF allVars, vars, positionVars, externalVars, processorVars, ExternalApplied,
              Followed, ReadBlock, InternalDelay
<1> QED  BY <1>1, <1>2, <1>3, <1>4, <1>5, <1>6, <1>7, <1>8 DEF BlockNext

\* With an external delay the echo remover reads the block rendered that many blocks
\* before the capture block, by the call counters, after any overruns, underruns and
\* resets, as long as the history holds it.
THEOREM ExternalDelayAlwaysFollowed == BlockSpec => []ExternalDelayFollowed
<1>1. BlockInit => ExternalApplied  BY DEF BlockInit, ExternalApplied
<1>2. RingInv /\ ExternalApplied /\ [BlockNext]_allVars => ExternalApplied'
  BY ExternalAppliedNext
<1>3. BlockSpec => []RingInv  BY DrivesTheBuffer, RingInvAlways
<1>4. ExternalApplied => ExternalDelayFollowed
  BY DEF ExternalApplied, Followed, ExternalDelayFollowed
<1> QED  BY <1>1, <1>2, <1>3, <1>4, PTL DEF BlockSpec

-----------------------------------------------------------------------------
(* Continuous render data.                                                 *)

\* What a render call does to the block that will be read: nothing, unless it
\* overruns.
LEMMA InsertKeepsReadBlock ==
  ASSUME RingInv, NEW active \in BOOLEAN, Insert(active), event' # "overrun"
  PROVE  ReadBlock' = ReadBlock
<1> DEFINE b == [blocks EXCEPT !.write = IncIndex(@)]
           s == [spectra EXCEPT !.write = DecIndex(@)]
           l == [low_rate EXCEPT !.write = OffsetIndex(DownsampledSize, @, -1)]
<1>0. blocks \in Ring(Slot) /\ spectra \in Ring(Slot) /\ render_call_counter_ \in Int
  BY DEF RingInv, PositionsOK, CountersOK, Count
<1>1. b \in Ring(Slot) /\ s \in Ring(Slot) /\ MirroredRings(b, s)
  BY WritePositionsMove DEF RingInv
<1>2. ~RenderOverrun(l, b) /\ spectra' = s /\ render_call_counter_' = render_call_counter_ + 1
  BY DEF Insert
<1>3. s.read # s.write => DistanceOf(s) = InternalDelay + 1
  BY <1>0, DistanceSteps DEF InternalDelay
<1>4. InternalDelay \in Nat  BY DelayTypes
<1> HIDE DEF b, s, l
<1>5. b.read # b.write /\ b.read \in Slot /\ b.write \in Slot
  BY <1>1, <1>2 DEF RenderOverrun, Ring
<1>6. s.read # s.write  BY <1>1, <1>5, MirrorInjective DEF MirroredRings
<1>7. InternalDelay' = InternalDelay + 1  BY <1>2, <1>3, <1>6 DEF InternalDelay
<1> QED  BY <1>0, <1>2, <1>4, <1>7 DEF ReadBlock

\* A capture call moves on by one block, or stays with the newest one, unless it
\* finds excess render data.
LEMMA CaptureReadsOn ==
  ASSUME RingInv, PrepareCaptureProcessing, event' # "overrun"
  PROVE  ReadBlock' \in {ReadBlock, ReadBlock + 1}
<1>0. render_call_counter_ \in Int  BY DEF RingInv, CountersOK, Count
<1>1. IncrementReadIndices /\ render_call_counter_' = render_call_counter_
  BY DEF PrepareCaptureProcessing
<1>2. InternalDelay' = IF InternalDelay = 0 THEN 0 ELSE InternalDelay - 1
  BY <1>1, ReadPositionsMove DEF RingInv, InternalDelay
<1>3. InternalDelay \in Nat  BY DelayTypes
<1> QED  BY <1>0, <1>1, <1>2, <1>3 DEF ReadBlock

\* Nothing the remover could compare with, or a reset it was not told of.
NothingToContinue == removed = None \/ swallowed
Same == ReadBlock = removed
ReadInv ==
  /\ pc # "idle" => capture_properly_started_
  /\ ~capture_properly_started_ => removed = None
  /\ use_external_delay_estimator
     \/ NothingToContinue
     \/ /\ pc = "idle" => Same \/ render_event_ = "overrun"
        /\ pc = "prepare" => Same \/ delay_change # "none"
        /\ pc \in {"align", "remove"} => Continuous \/ delay_change # "none"

\* Every step keeps it.
LEMMA ReadInvNext ==
  CallsOK /\ RingInv /\ ReadInv /\ [BlockNext]_allVars => ReadInv'
<1> SUFFICES ASSUME CallsOK, RingInv, ReadInv, [BlockNext]_allVars PROVE ReadInv'
  OBVIOUS
<1>0. use_external_delay_estimator' = use_external_delay_estimator
  BY StepsOfTheBuffer, ModeKept
<1>1. ASSUME NEW active \in BOOLEAN, BufferRender(active) PROVE ReadInv'
  <2>1. /\ pc = "idle" /\ pc' = "idle" /\ render_event_' = event' /\ removed' = removed
        /\ capture_properly_started_' = capture_properly_started_
        /\ swallowed' = (swallowed \/ render_event_ = "overrun")
        /\ Insert(active)
    BY <1>1 DEF BufferRender
  <2>2. event' = "overrun" \/ ReadBlock' = ReadBlock  BY <2>1, InsertKeepsReadBlock
  <2> QED  BY <1>0, <2>1, <2>2 DEF ReadInv, NothingToContinue, Same
<1>2. CASE ProcessCapture
  <2>1. /\ pc = "idle" /\ pc' = "prepare" /\ removed' = removed /\ swallowed' = swallowed
        /\ capture_properly_started_'
        /\ delay_change' = IF render_event_ = "overrun" THEN "flush" ELSE "none"
    BY <1>2 DEF ProcessCapture
  <2>2. CASE ~capture_properly_started_
    BY <2>1, <2>2 DEF ReadInv, NothingToContinue
  <2>3. CASE capture_properly_started_
    <3>1. UNCHANGED vars  BY <1>2, <2>3 DEF ProcessCapture
    <3>2. ReadBlock' = ReadBlock
      BY <3>1 DEF vars, positionVars, ReadBlock, InternalDelay
    <3> QED  BY <1>0, <2>1, <3>2 DEF ReadInv, NothingToContinue, Same
  <2> QED  BY <2>2, <2>3
<1>3. CASE PrepareBuffers
  <2>1. /\ pc = "prepare" /\ pc' = "align" /\ removed' = removed
        /\ swallowed' = (swallowed \/ event' = "overrun") /\ delay_change' = delay_change
        /\ capture_properly_started_' = capture_properly_started_
        /\ PrepareCaptureProcessing
    BY <1>3 DEF PrepareBuffers
  <2>2. event' = "overrun" \/ ReadBlock' \in {ReadBlock, ReadBlock + 1}
    BY <2>1, CaptureReadsOn
  <2> QED  BY <1>0, <2>1, <2>2 DEF ReadInv, NothingToContinue, Same, Continuous
<1>4. CASE Align
  <2>1. /\ pc = "align" /\ pc' = "remove" /\ removed' = removed /\ swallowed' = swallowed
        /\ capture_properly_started_' = capture_properly_started_
    BY <1>4 DEF Align
  <2>2. UNCHANGED <<vars, delay_change>> \/ delay_change' = "new_delay"
    BY <1>4 DEF Align
  <2>3. CASE delay_change' = "new_delay"
    BY <2>1, <2>3 DEF ReadInv
  <2>4. CASE UNCHANGED <<vars, delay_change>>
    <3>1. delay_change' = delay_change /\ ReadBlock' = ReadBlock
      BY <2>4 DEF vars, positionVars, ReadBlock, InternalDelay
    <3> QED  BY <1>0, <2>1, <3>1 DEF ReadInv, NothingToContinue, Continuous
  <2> QED  BY <2>2, <2>3, <2>4
<1>5. CASE AlignExternally
  BY <1>0, <1>5 DEF AlignExternally, ReadInv
<1>6. CASE RemoveEcho
  <2>1. /\ pc = "remove" /\ pc' = "idle" /\ removed' = ReadBlock
        /\ capture_properly_started_' = capture_properly_started_
        /\ UNCHANGED vars
    BY <1>6 DEF RemoveEcho
  <2>2. ReadBlock' = ReadBlock
    BY <2>1 DEF vars, positionVars, ReadBlock, InternalDelay
  <2> QED  BY <2>1, <2>2 DEF ReadInv, Same
<1>7. ASSUME NEW ms \in AudioDelaysMs, ReportAudioBufferDelay(ms) PROVE ReadInv'
  <2>1. UNCHANGED processorVars /\ SetAudioBufferDelay(ms) /\ pc = "idle"
    BY <1>7 DEF ReportAudioBufferDelay
  <2>2. ReadBlock' = ReadBlock
    BY <2>1 DEF SetAudioBufferDelay, positionVars, ReadBlock, InternalDelay
  <2>3. /\ pc' = pc /\ removed' = removed /\ swallowed' = swallowed
        /\ capture_properly_started_' = capture_properly_started_
        /\ render_event_' = render_event_ /\ delay_change' = delay_change
    BY <2>1 DEF processorVars
  <2> QED  BY <1>0, <2>1, <2>2, <2>3 DEF ReadInv, NothingToContinue, Same, Continuous
<1>8. CASE UNCHANGED allVars
  <2>1. UNCHANGED vars /\ UNCHANGED processorVars  BY <1>8 DEF allVars
  <2>2. ReadBlock' = ReadBlock  BY <2>1 DEF vars, positionVars, ReadBlock, InternalDelay
  <2>3. /\ pc' = pc /\ removed' = removed /\ swallowed' = swallowed
        /\ capture_properly_started_' = capture_properly_started_
        /\ render_event_' = render_event_ /\ delay_change' = delay_change
    BY <2>1 DEF processorVars
  <2> QED  BY <1>0, <2>2, <2>3 DEF ReadInv, NothingToContinue, Same, Continuous
<1> QED  BY <1>1, <1>2, <1>3, <1>4, <1>5, <1>6, <1>7, <1>8 DEF BlockNext

\* Between two calls of the echo remover the render data moves on by a block at most
\* and never back, unless the remover is told of it or a reset went unnoticed.
THEOREM RenderAlwaysContinuous == BlockSpec => []RemoverSeesContinuousRender
<1>1. BlockInit => ReadInv  BY DEF BlockInit, ReadInv, NothingToContinue
<1>2. CallsOK /\ RingInv /\ ReadInv /\ [BlockNext]_allVars => ReadInv'  BY ReadInvNext
<1>3. BlockSpec => []RingInv  BY DrivesTheBuffer, RingInvAlways
<1>4. ReadInv => RemoverSeesContinuousRender
  BY DEF ReadInv, NothingToContinue, Continuous, RemoverSeesContinuousRender
<1> QED  BY <1>1, <1>2, <1>3, <1>4, CallsAlways, PTL DEF BlockSpec
=============================================================================
