--------------------------- MODULE MCDurableOutcomes ---------------------------
(* DurableOutcomes with two calls for one key and one for another.            *)
EXTENDS DurableOutcomes, TLC

CONSTANTS k1, k2, a1, a2, a3

ThreeAttempts == a1 :> k1 @@ a2 :> k1 @@ a3 :> k2
NoKey == {}

\* The two calls for one key are interchangeable.
Twins == Permutations({a1, a2})

=============================================================================
