------------------------- MODULE MCEchoAudibility -------------------------
(* The render path on small rings. *)
EXTENDS EchoAudibility

\* One block, and one beyond the limit, for the long ones that meet a long latency.
MCEstimates == {1, 6}

\* One and four blocks.
MCAudioDelays == {4, 16}
===========================================================================
