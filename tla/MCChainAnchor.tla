--------------------------- MODULE MCChainAnchor ---------------------------
(* Up to two anchoring processes, a daemon and a few records.                *)
EXTENDS ChainAnchor
=============================================================================
