----------------------------- MODULE MCPaneLanes -----------------------------
(* PaneLanes with automation (r) and a human command (h) for one pane, and a   *)
(* takeover (t) and a delegation (d) of its lane.                              *)
EXTENDS PaneLanes, TLC

CONSTANTS r, h, t, d

=============================================================================
