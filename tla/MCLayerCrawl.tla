--------------------------- MODULE MCLayerCrawl ---------------------------
(* A channel whose video v1 leads to the others, and each of them back.     *)
EXTENDS LayerCrawl, TLC

CONSTANTS j1, j2, v1, v2

MCFeed == [v \in Videos |-> IF v = v1 THEN Videos \ {v1} ELSE {v1}]
=============================================================================
