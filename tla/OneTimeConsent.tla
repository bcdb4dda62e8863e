--------------------------- MODULE OneTimeConsent ---------------------------
(***************************************************************************)
(* What an operator may rely on about an agent's actions, without leases,  *)
(* queues, timers or restarts: a guarded action is performed at most once, *)
(* after consent, and what was refused or has been invalidated stays so.   *)
(* SurfaceApprovals implements it.                                         *)
(***************************************************************************)
CONSTANTS Action,   \* actions of the agent
          Guarded   \* ... that need the operator's consent

VARIABLE stage      \* of each action: "open", "consented", "refused" or "performed"

Init == stage = [a \in Action |-> IF a \in Guarded THEN "open" ELSE "consented"]

Consent(a) ==
    /\ stage[a] = "open"
    /\ stage' = [stage EXCEPT ![a] = "consented"]

Perform(a) ==
    /\ stage[a] = "consented"
    /\ stage' = [stage EXCEPT ![a] = "performed"]

\* By the operator, or because what the consent was given for is no more; a lease or
\* a credential may stand for several actions.
Refuse ==
    /\ DOMAIN stage' = Action
    /\ \A a \in Action :
         \/ stage'[a] = stage[a]
         \/ stage[a] \in {"open", "consented"} /\ stage'[a] = "refused"

Next ==
    \/ Refuse
    \/ \E a \in Action : Consent(a) \/ Perform(a)

Spec == Init /\ [][Next]_stage

=============================================================================
