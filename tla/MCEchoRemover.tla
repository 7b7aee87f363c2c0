---------------------------- MODULE MCEchoRemover ----------------------------
(* Constants for the runs of EchoRemover. *)
EXTENDS EchoRemover

Analysis(active, external, consistent, converged, diverged) ==
  [active_render |-> active, external_delay |-> external, consistent |-> consistent,
   converged |-> converged, diverged |-> diverged]

Silence == Analysis(FALSE, FALSE, FALSE, FALSE, FALSE)
Converged == Analysis(TRUE, TRUE, TRUE, TRUE, FALSE)

\* Silence, and render with a filter that converges, does nothing, or diverges.
AllAnalyses == {Silence, Converged, Analysis(TRUE, TRUE, FALSE, FALSE, FALSE),
                Analysis(TRUE, FALSE, FALSE, FALSE, TRUE)}
TwoAnalyses == {Silence, Converged}

Verdict(misadjusted, worse) == [misadjusted |-> misadjusted, shadow_is_worse |-> worse]
AllVerdicts == {Verdict(FALSE, FALSE), Verdict(TRUE, FALSE), Verdict(FALSE, TRUE)}
NoVerdict == {Verdict(FALSE, FALSE)}
=============================================================================
