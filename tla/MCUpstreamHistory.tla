------------------------- MODULE MCUpstreamHistory --------------------------
(* Three tasks, so that one lookup can be admitted, one in flight and one   *)
(* failing at the same time.                                                *)
EXTENDS UpstreamHistory
=============================================================================
