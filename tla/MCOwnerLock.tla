----------------------------- MODULE MCOwnerLock -----------------------------
(* OwnerLock with three contenders: one to die holding the lock and two to   *)
(* race for its replacement.                                                 *)
EXTENDS OwnerLock, TLC

=============================================================================
