------------------------- MODULE ApiCallJitterMetrics -------------------------
(***************************************************************************)
(* ApiCallJitterMetrics (src/audio_processing/aec3/                        *)
(* api_call_jitter_metrics.cc): how many render and how many capture calls *)
(* come in a row, reported and started afresh once per interval.  The      *)
(* metrics are a record, an operation maps it to the new one.              *)
(***************************************************************************)
EXTENDS Integers

CONSTANT ReportingInterval   \* kReportingIntervalFrames, 1000.
ASSUME ReportingAssumption == ReportingInterval \in Nat \ {0}

IntMax == 2147483647
NoJitter == [min |-> IntMax, max |-> 0]

\* Jitter::Update.
UpdateJitter(jitter, n) == [min |-> IF n < jitter.min THEN n ELSE jitter.min,
                            max |-> IF n > jitter.max THEN n ELSE jitter.max]

NewMetrics == [render |-> NoJitter, capture |-> NoJitter, num_api_calls_in_a_row |-> 0,
               frames_since_last_report |-> 0, last_call_was_render |-> FALSE,
               proper_call_observed |-> FALSE]

\* Variant with a mistake: after a report the calls in a row are counted from there.
ResetProperKept(m) == [NewMetrics EXCEPT !.proper_call_observed = m.proper_call_observed]

ResetMetrics(m) == NewMetrics

ReportRenderCall(m) ==
  LET turn == ~m.last_call_was_render IN
  [m EXCEPT !.capture = IF turn /\ m.proper_call_observed
                        THEN UpdateJitter(@, m.num_api_calls_in_a_row) ELSE @,
            !.num_api_calls_in_a_row = IF turn THEN 1 ELSE @ + 1,
            !.last_call_was_render = TRUE]

\* Calls are proper once a render call was followed by a capture call.  The report
\* can come in the middle of a run of capture calls, whose rest is not counted.
ReportCaptureCall(m) ==
  LET turn     == m.last_call_was_render
      proper   == m.proper_call_observed \/ turn
      sinceNow == m.frames_since_last_report + (IF proper THEN 1 ELSE 0)
      counted  == [m EXCEPT !.render = IF turn /\ m.proper_call_observed
                                       THEN UpdateJitter(@, m.num_api_calls_in_a_row) ELSE @,
                            !.num_api_calls_in_a_row = IF turn THEN 1 ELSE @ + 1,
                            !.last_call_was_render = FALSE,
                            !.proper_call_observed = proper,
                            !.frames_since_last_report = sinceNow]
  IN IF proper /\ sinceNow = ReportingInterval THEN ResetMetrics(m) ELSE counted
=============================================================================
