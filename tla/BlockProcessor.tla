---------------------------- MODULE BlockProcessor ----------------------------
(***************************************************************************)
(* BlockProcessor (src/audio_processing/aec3/block_processor.cc): the      *)
(* render delay buffer, the delay controller and the echo remover, wired   *)
(* together for one block at a time.  BufferRender and ProcessCapture run  *)
(* on the capture thread; a ProcessCapture call is three steps, one per    *)
(* component it calls in turn, and nothing runs between them.              *)
(*                                                                         *)
(* The delay controller is what its callers can rely on: it has no         *)
(* estimate after a Reset, and then keeps the last one.  The echo remover  *)
(* is what it is told and which render block it reads.                     *)
(***************************************************************************)
EXTENDS RenderDelayBuffer

VARIABLES
  capture_properly_started_, render_properly_started_, render_event_,
  controllerDelay,  \* The controller's delay_, None after Reset.
  pc,               \* Where ProcessCapture is.
  delay_change,     \* echo_path_variability.delay_change of this call.
  removed,          \* The block the echo remover read last, None before it ran.
  swallowed         \* History: a reset of the render buffer since the last
                    \* call of the echo remover went unnoticed.

processorVars == <<capture_properly_started_, render_properly_started_, render_event_,
                   controllerDelay, pc, delay_change, removed, swallowed>>
allVars == <<vars, processorVars>>

BlockInit ==
  /\ Init
  /\ capture_properly_started_ = FALSE /\ render_properly_started_ = FALSE
  /\ render_event_ = "none"
  /\ controllerDelay = None
  /\ pc = "idle"
  /\ delay_change = "none"
  /\ removed = None
  /\ swallowed = FALSE

\* The event of this Insert replaces that of the one before, even if no capture
\* call has seen it.
BufferRender(active) ==
  /\ pc = "idle"
  /\ Insert(active)
  /\ render_event_' = event'
  /\ render_properly_started_' = TRUE
  /\ swallowed' = (swallowed \/ render_event_ = "overrun")
  /\ UNCHANGED <<capture_properly_started_, controllerDelay, pc, delay_change, removed>>

\* Variant with a mistake: the flush is not reported.
ProcessCaptureFlushUnreported ==
  /\ pc = "idle"
  /\ render_properly_started_
  /\ IF capture_properly_started_ THEN ~aborted /\ UNCHANGED vars ELSE Reset
  /\ capture_properly_started_' = TRUE
  /\ controllerDelay' = IF ~capture_properly_started_ \/ render_event_ = "overrun"
                        THEN None ELSE controllerDelay
  /\ delay_change' = "none"
  /\ render_event_' = "none"
  /\ pc' = "prepare"
  /\ UNCHANGED <<render_properly_started_, removed, swallowed>>

\* Up to PrepareCaptureProcessing.  Without render data so far the call returns
\* at once; the first call that has some resets buffer and controller.  A render
\* overrun seen in the last BufferRender resets the controller.
ProcessCapture ==
  /\ pc = "idle"
  /\ render_properly_started_
  /\ IF capture_properly_started_ THEN ~aborted /\ UNCHANGED vars ELSE Reset
  /\ capture_properly_started_' = TRUE
  /\ controllerDelay' = IF ~capture_properly_started_ \/ render_event_ = "overrun"
                        THEN None ELSE controllerDelay
  /\ delay_change' = IF render_event_ = "overrun" THEN "flush" ELSE "none"
  /\ render_event_' = "none"
  /\ pc' = "prepare"
  /\ UNCHANGED <<render_properly_started_, removed, swallowed>>

\* An underrun resets the controller; the kRenderOverrun of excess render data
\* is not looked at.
PrepareBuffers ==
  /\ pc = "prepare"
  /\ PrepareCaptureProcessing
  /\ controllerDelay' = IF event' = "underrun" THEN None ELSE controllerDelay
  /\ swallowed' = (swallowed \/ event' = "overrun")
  /\ pc' = "align"
  /\ UNCHANGED <<capture_properly_started_, render_properly_started_, render_event_,
                 delay_change, removed>>

\* Variant with a mistake: an estimate is only applied when it is new.
AlignNewEstimateOnly ==
  /\ pc = "align"
  /\ ~aborted /\ ~use_external_delay_estimator
  /\ \E estimate \in Estimates \cup {controllerDelay} :
       /\ controllerDelay' = estimate
       /\ IF estimate = controllerDelay \/ delay_ = estimate
          THEN UNCHANGED <<vars, delay_change>>
          ELSE AlignFromDelay(estimate) /\ delay_change' = "new_delay"
  /\ pc' = "remove"
  /\ UNCHANGED <<capture_properly_started_, render_properly_started_, render_event_,
                 removed, swallowed>>

\* GetDelay returns a new estimate or the old one, if any, and the buffer is
\* aligned to it; AlignFromDelay changes nothing when that is its delay already.
Align ==
  /\ pc = "align"
  /\ ~aborted /\ ~use_external_delay_estimator
  /\ \E estimate \in Estimates \cup {controllerDelay} :
       /\ controllerDelay' = estimate
       /\ IF estimate = None \/ delay_ = estimate
          THEN UNCHANGED <<vars, delay_change>>
          ELSE AlignFromDelay(estimate) /\ delay_change' = "new_delay"
  /\ pc' = "remove"
  /\ UNCHANGED <<capture_properly_started_, render_properly_started_, render_event_,
                 removed, swallowed>>

\* With an external delay the echo remover only runs once one was received.
AlignExternally ==
  /\ pc = "align"
  /\ ~aborted /\ use_external_delay_estimator
  /\ IF external_audio_buffer_delay_ = None
     THEN pc' = "idle" /\ UNCHANGED vars
     ELSE pc' = "remove" /\ AlignFromExternalDelay
  /\ UNCHANGED <<capture_properly_started_, render_properly_started_, render_event_,
                 controllerDelay, delay_change, removed, swallowed>>

RemoveEcho ==
  /\ pc = "remove"
  /\ ~aborted
  /\ removed' = ReadBlock
  /\ swallowed' = FALSE
  /\ pc' = "idle"
  /\ UNCHANGED <<vars, capture_properly_started_, render_properly_started_, render_event_,
                 controllerDelay, delay_change>>

ReportAudioBufferDelay(ms) ==
  /\ pc = "idle"
  /\ SetAudioBufferDelay(ms)
  /\ UNCHANGED processorVars

BlockNext == \/ \E active \in BOOLEAN : BufferRender(active)
             \/ ProcessCapture \/ PrepareBuffers \/ Align \/ AlignExternally \/ RemoveEcho
             \/ \E ms \in AudioDelaysMs : ReportAudioBufferDelay(ms)

BlockSpec == BlockInit /\ [][BlockNext]_allVars

-----------------------------------------------------------------------------
(* Properties.                                                             *)

\* When the echo is removed, what the remover reads is aligned to the controller's
\* estimate, whatever resets, overruns and underruns lie between estimate and use.
RemoverUsesEstimate ==
  pc = "remove" /\ ~use_external_delay_estimator /\ controllerDelay # None =>
    /\ delay_ = controllerDelay
    /\ cut = 0 => ComputeDelay = controllerDelay

\* The echo remover is called with the next render block after the one it read
\* last, or once more with the newest one, unless it is told that the delay
\* changed or a reset of the render buffer went unnoticed.
Continuous == removed = None \/ ReadBlock \in {removed, removed + 1}
RemoverSeesContinuousRender ==
  pc = "remove" /\ ~use_external_delay_estimator /\ delay_change = "none" /\ ~swallowed => Continuous

\* With an external delay the echo remover reads the block that was rendered that
\* many blocks before the capture block, by the call counters, whatever overruns,
\* underruns and resets happened, as long as that block is in the history.
ExternalDelayFollowed ==
  pc = "remove" /\ use_external_delay_estimator =>
    LET wanted == capture_call_counter_ - external_audio_buffer_delay_ IN
    wanted \in render_call_counter_ - (BufferSize - 1) .. render_call_counter_ => ReadBlock = wanted
=============================================================================
