----------------------------- MODULE MCPaneSlugs -----------------------------
(* PaneSlugs with a creation and two pollers of one session, in two projects.  *)
EXTENDS PaneSlugs, TLC

CONSTANTS c1, a1, a2, p1, p2

\* One of the pollers shares the target project of the creation.
TwoProjects == c1 :> p1 @@ a1 :> p2 @@ a2 :> p1

=============================================================================
