-------------------------- MODULE MCDurableApprovals --------------------------
(* DurableApprovals with two calls for a key that needs an approval and one for *)
(* another.                                                                     *)
EXTENDS DurableApprovals, TLC

CONSTANTS k1, k2, a1, a2, a3

ThreeAttempts == a1 :> k1 @@ a2 :> k1 @@ a3 :> k2

===============================================================================
