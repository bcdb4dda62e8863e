--------------------------- MODULE CommandContract ---------------------------
(***************************************************************************)
(* What a client of the control runtime may rely on when it retries a      *)
(* command under its idempotency key, without journal, sidecars or crashes:*)
(* the effect happens at most once and never after an answer, and all the  *)
(* answers agree.  The exception is a key whose effect the journal could   *)
(* not record (excused).  DurableOutcomes implements it.                   *)
(***************************************************************************)
EXTENDS Naturals

CONSTANTS Key,          \* idempotency keys
          Attempt,      \* calls under them
          KeyOf         \* the key of each call

VARIABLES effects,      \* how often each key's effect has happened
          excused,      \* keys whose effect went unrecorded
          answers       \* what callers have been told of each key

Init ==
    /\ effects = [k \in Key |-> 0]
    /\ excused = {}
    /\ answers = [k \in Key |-> {}]

\* The effect of a key nobody has had an answer for, for the first time.
Perform(k) ==
    /\ k \in excused \/ (effects[k] = 0 /\ answers[k] = {})
    /\ effects' = [effects EXCEPT ![k] = @ + 1]
    /\ UNCHANGED <<excused, answers>>

Excuse(k) ==
    /\ effects[k] > 0
    /\ excused' = excused \cup {k}
    /\ UNCHANGED <<effects, answers>>

\* The outcome of an execution is told after its effect; "compacted" stands for an
\* outcome that is known to exist and no longer kept.
Answer(k, o) ==
    /\ o \in Attempt => KeyOf[o] = k /\ effects[k] > 0
    /\ k \in excused \/ answers[k] \ {"compacted"} \subseteq {o} \/ o = "compacted"
    /\ answers' = [answers EXCEPT ![k] = @ \cup {o}]
    /\ UNCHANGED <<effects, excused>>

Next ==
    \E k \in Key :
        \/ Perform(k) \/ Excuse(k)
        \/ \E o \in Attempt \cup {"unknown", "compacted"} : Answer(k, o)

Spec == Init /\ [][Next]_<<effects, excused, answers>>

=============================================================================
