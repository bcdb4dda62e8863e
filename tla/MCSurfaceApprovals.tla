------------------------- MODULE MCSurfaceApprovals -------------------------
(* SurfaceApprovals with an action that needs an approval (x) and one that does not (y). *)
EXTENDS SurfaceApprovals, TLC

CONSTANTS x, y, r1, r2, g1, g2

\* Commands of one kind are interchangeable.
Twins == Permutations({r1, r2}) \cup Permutations({g1, g2})

=============================================================================
