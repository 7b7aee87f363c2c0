------------------------- MODULE MCBlockProcessor -------------------------
(* BlockProcessor on small rings. *)
EXTENDS BlockProcessor

MCEstimates == {1, 4}

\* One and four blocks.
MCAudioDelays == {4, 16}
===========================================================================
