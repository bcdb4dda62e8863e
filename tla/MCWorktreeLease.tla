--------------------------- MODULE MCWorktreeLease ---------------------------
(* WorktreeLease with a client that has a Git command and others that only wait. *)
EXTENDS WorktreeLease, TLC

CONSTANTS a, b, h

\* The clients without a Git command may be exchanged.
Twins == Permutations(Client \ Mutator)

=============================================================================
