---------------------------- MODULE EchoCanceller3 ----------------------------
(***************************************************************************)
(* EchoCanceller3 (src/audio_processing/aec3/echo_canceller3.cc): 10 ms    *)
(* frames in and out, 64-sample blocks to and from the block processor.    *)
(* The render thread analyses render frames at any time; the capture       *)
(* thread runs ProcessCapture, which first empties the render queue.  The  *)
(* queue is BoundedFifo, which SwapQueue implements.                       *)
(*                                                                         *)
(* Frame k of a stream holds the chunks FrameChunks * (k - 1) + 1 ..       *)
(* FrameChunks * k.  The block processor hands every chunk back in its     *)
(* place (what it does to the samples is not modelled); its linear output  *)
(* block carries the same chunks.  A failed RTC_DCHECK on a buffer size    *)
(* ends the program: aborted.                                              *)
(*                                                                         *)
(* A frame is analysed for saturation, delayed by BlockDelayBuffer and     *)
(* counted by ApiCallJitterMetrics on its way in.  Whether it is saturated *)
(* is up to the environment, which analyses each frame before it is        *)
(* processed, as aec3_process_frame (src/api/aec3_api.cc) does.            *)
(***************************************************************************)
EXTENDS BlockDelayBuffer, ApiCallJitterMetrics, SequencesExt

CONSTANTS
  QueueSize,       \* kRenderTransferQueueSizeFrames, 100.
  MaxRender,       \* Bound on the number of render frames.
  MaxCapture,      \* Bound on the number of capture frames.
  FixedDelays,     \* Values of config.delay.fixed_capture_delay_samples, in chunks.
  LinearRequests   \* Whether callers pass a linear_output buffer when that output
                   \* is exported: subset of BOOLEAN.

ASSUME BoundsAssumption == QueueSize \in Nat \ {0} /\ MaxRender \in Nat /\ MaxCapture \in Nat
ASSUME OptionsAssumption == FixedDelays \subseteq Nat /\ LinearRequests \subseteq BOOLEAN

VARIABLES
  render_transfer_queue_,       \* Render frame numbers, oldest first.
  rendered,                     \* Number of render frames analysed so far.
  sinceEmpty,                   \* History: those analysed since the queue was last emptied.
  render_blocker_,
  buffered,                     \* History: all chunks the block processor got to buffer.
  capture_blocker_, output_framer_, linear_output_framer_,
  captured,                     \* Number of ProcessCapture calls so far.
  fixed_delay,                  \* config.delay.fixed_capture_delay_samples.
  block_delay_buffer_,
  frame,                        \* The capture frame in process, delayed.
  analyzed,                     \* Number of capture frames analysed for saturation.
  saturated_microphone_signal_,
  saturated,                    \* History: the frames that were saturated.
  unflagged,                    \* History: their chunks processed without the flag.
  api_call_metrics_,
  lastCall, callsInARow,        \* History: kind and number of the latest equal calls.
  pc,                           \* Where the capture thread is in ProcessCapture.
  export_linear,                \* config.filter.export_linear_aec_output.
  linear_output,                \* Whether this call passed a linear_output buffer.
  output, linearOutput,         \* The last sub-frame written back, and its linear twin.
  aborted

renderVars == <<render_blocker_, buffered>>
captureVars == <<capture_blocker_, output_framer_, linear_output_framer_,
                 output, linearOutput>>
linearVars == <<linear_output, export_linear>>
frameVars == <<captured, fixed_delay, block_delay_buffer_, frame>>
saturationVars == <<analyzed, saturated_microphone_signal_, saturated>>
callVars == <<api_call_metrics_, lastCall, callsInARow>>
vars == <<render_transfer_queue_, rendered, sinceEmpty, renderVars, captureVars, frameVars, pc,
          linearVars, saturationVars, unflagged, callVars, aborted>>

\* The chunks of frame k, and sub-frame i (0 or 1) of a frame.
Frame(k) == [c \in 1 .. FrameChunks |-> FrameChunks * (k - 1) + c]
SubFrame(f, i) == SubSeq(f, SubFrameChunks * i + 1, SubFrameChunks * (i + 1))
FrameOf(chunk) == (chunk - 1) \div FrameChunks + 1

Init ==
  /\ render_transfer_queue_ = <<>> /\ rendered = 0 /\ sinceEmpty = 0
  /\ render_blocker_ = <<>> /\ buffered = <<>>
  /\ export_linear \in BOOLEAN
  /\ capture_blocker_ = <<>>
  /\ output_framer_ = SilentBlock
  /\ linear_output_framer_ = IF export_linear THEN SilentBlock ELSE <<>>
  /\ captured = 0 /\ frame = <<>>
  /\ fixed_delay \in FixedDelays /\ block_delay_buffer_ = NewDelayBuffer(fixed_delay)
  /\ analyzed = 0 /\ saturated_microphone_signal_ = FALSE /\ saturated = {} /\ unflagged = {}
  /\ api_call_metrics_ = NewMetrics /\ lastCall = "none" /\ callsInARow = 0
  /\ pc = "idle" /\ linear_output = FALSE
  /\ output = <<>> /\ linearOutput = <<>>
  /\ aborted = FALSE

-----------------------------------------------------------------------------
(* The render thread.                                                      *)

\* Variant with a mistake: the last slot of the queue is never used.
AnalyzeRenderTooStrict ==
  /\ ~aborted
  /\ rendered < MaxRender
  /\ rendered' = rendered + 1
  /\ sinceEmpty' = sinceEmpty + 1
  /\ render_transfer_queue_' = IF Len(render_transfer_queue_) < QueueSize - 1
                               THEN Append(render_transfer_queue_, rendered + 1)
                               ELSE render_transfer_queue_
  /\ UNCHANGED <<renderVars, captureVars, frameVars, pc, linearVars, saturationVars, unflagged,
                 callVars, aborted>>

\* RenderWriter::Insert: the return value of the queue's Insert is ignored, a
\* frame that meets a full queue is lost.
AnalyzeRender ==
  /\ ~aborted
  /\ rendered < MaxRender
  /\ rendered' = rendered + 1
  /\ sinceEmpty' = sinceEmpty + 1
  /\ render_transfer_queue_' = IF Len(render_transfer_queue_) < QueueSize
                               THEN Append(render_transfer_queue_, rendered + 1)
                               ELSE render_transfer_queue_
  /\ UNCHANGED <<renderVars, captureVars, frameVars, pc, linearVars, saturationVars, unflagged,
                 callVars, aborted>>

-----------------------------------------------------------------------------
(* The capture thread.                                                     *)

CountCall(kind) ==
  /\ lastCall' = kind
  /\ callsInARow' = IF lastCall = kind THEN callsInARow + 1 ELSE 1

\* AnalyzeCapture, of the frame that is processed next.
AnalyzeCapture(saturation) ==
  /\ ~aborted
  /\ pc = "idle"
  /\ analyzed = captured /\ captured < MaxCapture
  /\ analyzed' = analyzed + 1
  /\ saturated_microphone_signal_' = saturation
  /\ saturated' = IF saturation THEN saturated \cup {analyzed + 1} ELSE saturated
  /\ UNCHANGED <<render_transfer_queue_, rendered, sinceEmpty, renderVars, captureVars, frameVars,
                 pc, linearVars, unflagged, callVars, aborted>>

\* Up to EmptyRenderQueue: the call is counted, the frame delayed.  Asking for a
\* linear output that is not exported is RTC_NOTREACHED.
ProcessCapture(linear) ==
  /\ ~aborted
  /\ linear => export_linear
  /\ pc = "idle"
  /\ analyzed = captured + 1
  /\ captured' = captured + 1
  /\ CountCall("capture")
  /\ api_call_metrics_' = ReportCaptureCall(api_call_metrics_)
  /\ LET delayed == DelaySignal(block_delay_buffer_, Frame(captured + 1)) IN
     IF fixed_delay > 0
     THEN frame' = delayed.frame /\ block_delay_buffer_' = delayed.buffer
     ELSE frame' = Frame(captured + 1) /\ UNCHANGED block_delay_buffer_
  /\ linear_output' = linear
  /\ pc' = "empty_queue"
  /\ UNCHANGED <<render_transfer_queue_, rendered, sinceEmpty, renderVars, captureVars,
                 fixed_delay, export_linear, saturationVars, unflagged, aborted>>

\* The loop body of EmptyRenderQueue: both sub-frames of the removed frame, and
\* the block that is left when they fill one more.
BufferRenderFrame ==
  /\ ~aborted
  /\ pc = "empty_queue"
  /\ render_transfer_queue_ # <<>>
  /\ render_transfer_queue_' = Tail(render_transfer_queue_)
  /\ CountCall("render")
  /\ api_call_metrics_' = ReportRenderCall(api_call_metrics_)
  /\ LET removed == Frame(Head(render_transfer_queue_))
         first  == InsertSubFrameAndExtractBlock(render_blocker_, SubFrame(removed, 0))
         second == InsertSubFrameAndExtractBlock(first.buffer, SubFrame(removed, 1))
         rest   == IF IsBlockAvailable(second.buffer) THEN second.buffer ELSE <<>>
         fits   == SubFrameFits(render_blocker_) /\ SubFrameFits(first.buffer)
     IN /\ aborted' = ~fits
        /\ IF fits
           THEN /\ buffered' = buffered \o first.block \o second.block \o rest
                /\ render_blocker_' = IF rest = <<>> THEN second.buffer ELSE <<>>
           ELSE UNCHANGED renderVars
  /\ UNCHANGED <<rendered, sinceEmpty, captureVars, frameVars, pc, linearVars, saturationVars,
                 unflagged>>

\* Variant with a mistake: the saturation flag does not outlive the render queue.
QueueEmptiedFlagLost ==
  /\ ~aborted
  /\ pc = "empty_queue"
  /\ render_transfer_queue_ = <<>>
  /\ pc' = "sub_frame_0"
  /\ sinceEmpty' = 0
  /\ saturated_microphone_signal_' = FALSE
  /\ UNCHANGED <<render_transfer_queue_, rendered, renderVars, captureVars, frameVars,
                 linearVars, analyzed, saturated, unflagged, callVars, aborted>>

QueueEmptied ==
  /\ ~aborted
  /\ pc = "empty_queue"
  /\ render_transfer_queue_ = <<>>
  /\ pc' = "sub_frame_0"
  /\ sinceEmpty' = 0
  /\ UNCHANGED <<render_transfer_queue_, rendered, renderVars, captureVars, frameVars,
                 linearVars, saturationVars, unflagged, callVars, aborted>>

\* What a processed block adds to the history of unflagged chunks.
WithoutFlag(block) ==
  IF saturated_microphone_signal_ THEN {}
  ELSE {chunk \in ToSet(block) : chunk > 0 /\ FrameOf(chunk) \in saturated}

\* ProcessCaptureFrameContent for sub-frame i.
ProcessCaptureFrameContent(i, at, next) ==
  LET in     == InsertSubFrameAndExtractBlock(capture_blocker_, SubFrame(frame, i))
      out    == InsertBlockAndExtractSubFrame(output_framer_, in.block)
      linear == InsertBlockAndExtractSubFrame(linear_output_framer_, in.block)
      fits   == /\ SubFrameFits(capture_blocker_)
                /\ BlockCompletesSubFrame(output_framer_)
                /\ linear_output => BlockCompletesSubFrame(linear_output_framer_)
  IN
  /\ ~aborted
  /\ pc = at
  /\ pc' = next
  /\ aborted' = ~fits
  /\ IF fits
     THEN /\ capture_blocker_' = in.buffer
          /\ output_framer_' = out.buffer
          /\ output' = out.subFrame
          /\ unflagged' = unflagged \cup WithoutFlag(in.block)
          /\ IF linear_output
             THEN /\ linear_output_framer_' = linear.buffer
                  /\ linearOutput' = linear.subFrame
             ELSE UNCHANGED <<linear_output_framer_, linearOutput>>
     ELSE UNCHANGED <<captureVars, unflagged>>
  /\ UNCHANGED <<render_transfer_queue_, rendered, sinceEmpty, renderVars, frameVars, linearVars,
                 saturationVars, callVars>>

ProcessFirstSubFrame == ProcessCaptureFrameContent(0, "sub_frame_0", "sub_frame_1")
ProcessSecondSubFrame == ProcessCaptureFrameContent(1, "sub_frame_1", "remaining")

\* Variant with a mistake: a block that fills up stays in the blocker.
RemainingLeftInBlocker ==
  /\ ~aborted
  /\ pc = "remaining"
  /\ pc' = "idle"
  /\ UNCHANGED <<render_transfer_queue_, rendered, sinceEmpty, renderVars, captureVars, frameVars,
                 linearVars, saturationVars, unflagged, callVars, aborted>>

\* ProcessRemainingCaptureFrameContent: the linear output framer gets the block
\* whenever it exists, whether or not this call asked for the linear output.
ProcessRemainingCaptureFrameContent ==
  LET fits == /\ BlockFits(output_framer_)
              /\ export_linear => BlockFits(linear_output_framer_)
  IN
  /\ ~aborted
  /\ pc = "remaining"
  /\ pc' = "idle"
  /\ IF IsBlockAvailable(capture_blocker_)
     THEN /\ capture_blocker_' = <<>>
          /\ output_framer_' = InsertBlock(output_framer_, capture_blocker_)
          /\ linear_output_framer_' =
               IF export_linear THEN InsertBlock(linear_output_framer_, capture_blocker_)
               ELSE linear_output_framer_
          /\ aborted' = ~fits
          /\ unflagged' = unflagged \cup WithoutFlag(capture_blocker_)
     ELSE UNCHANGED <<capture_blocker_, output_framer_, linear_output_framer_, unflagged, aborted>>
  /\ UNCHANGED <<render_transfer_queue_, rendered, sinceEmpty, renderVars, output, linearOutput,
                 frameVars, linearVars, saturationVars, callVars>>

CaptureStep == \/ BufferRenderFrame \/ QueueEmptied \/ ProcessFirstSubFrame
               \/ ProcessSecondSubFrame \/ ProcessRemainingCaptureFrameContent

Next == \/ AnalyzeRender
        \/ \E saturation \in BOOLEAN : AnalyzeCapture(saturation)
        \/ \E linear \in IF export_linear THEN LinearRequests ELSE {FALSE} : ProcessCapture(linear)
        \/ CaptureStep

Spec == Init /\ [][Next]_vars

-----------------------------------------------------------------------------
(* Properties.                                                             *)

\* The block sizes fit: no framer or blocker is ever asked for samples it lacks,
\* nor given a block it has no room for ("the buffer is either empty or has enough
\* samples", block_framer.cc).
NoFailedCheck == ~aborted

\* The processed capture signal leaves one block (64 samples) and the fixed delay
\* late and otherwise untouched by the repackaging: no sample is lost, repeated or
\* reordered, whatever the phase of blocks and frames and of frames and the delay
\* line.  The linear output, where exported, is in step with it.
Late(n) == IF n > BlockChunks + fixed_delay THEN n - BlockChunks - fixed_delay ELSE 0
SubFrameIndex == IF pc = "sub_frame_1" THEN 0 ELSE 1
OutputIsDelayedInput ==
  pc \in {"sub_frame_1", "remaining"} /\ ~aborted =>
    /\ output = [c \in 1 .. SubFrameChunks |-> Late(SubFrame(Frame(captured), SubFrameIndex)[c])]
    /\ linear_output => linearOutput = output

\* The render signal reaches the block processor in order and gap-free within each
\* frame: only whole frames are missing.
RenderInOrder ==
  LET stream == buffered \o render_blocker_ IN
  \A i \in 1 .. Len(stream) - 1 :
    \/ stream[i + 1] = stream[i] + 1
    \/ /\ FrameOf(stream[i + 1]) > FrameOf(stream[i])
       /\ stream[i] % FrameChunks = 0 /\ stream[i + 1] % FrameChunks = 1

\* Render frames are lost only when the capture thread lets a whole queue of them
\* pile up: QueueSize or more since it last found the queue empty.  An analysed
\* frame that is neither queued nor buffered was lost.
LostFrames == rendered - Len(render_transfer_queue_)
                - (Len(buffered) + Len(render_blocker_)) \div FrameChunks
LostOnlyToAFullQueue == [][LostFrames' > LostFrames => sinceEmpty >= QueueSize]_vars

\* The saturation flag belongs to a frame, but the blocks of a frame begin before
\* it: of a saturated frame, everything is processed under its flag except for what
\* is left in the blocker, less than a block at its end.  (With a fixed delay the
\* flag is ahead of the samples by that delay.)
SaturatedFrameIsFlagged ==
  fixed_delay = 0 =>
    \A chunk \in unflagged : FrameChunks * FrameOf(chunk) - chunk < BlockChunks - 1

\* The jitter metrics only count whole runs of calls: each number that goes into
\* them is how many render, or capture, calls really came in a row, also when a
\* report starts the counting afresh in the middle of a run.
JitterCountsWholeRuns ==
  [][LET m == api_call_metrics_ IN
     /\ m'.render \notin {m.render, NoJitter} =>
          lastCall = "render" /\ m'.render = UpdateJitter(m.render, callsInARow)
     /\ m'.capture \notin {m.capture, NoJitter} =>
          lastCall = "capture" /\ m'.capture = UpdateJitter(m.capture, callsInARow)]_vars
=============================================================================
