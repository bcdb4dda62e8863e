--------------------------- MODULE DurableApprovals ---------------------------
(***************************************************************************)
(* DurableOutcomes with surface actions that need an operator's approval.  *)
(*                                                                         *)
(* The execution of such a command asks for the approval and ends with a   *)
(* terminal event that says so.  When the approval is denied, used up,     *)
(* expired or revoked, the runtime publishes a second terminal event of    *)
(* the same command (src/src/control/runtime.ts, resolveApproval and       *)
(* finalizeApproval).  Nothing was reserved for that one: its key becomes  *)
(* dirty beside those the budget counts, or finds the dirty map full.      *)
(*                                                                         *)
(* Who decides, and what becomes of the action, is in SurfaceApprovals;    *)
(* here a pending approval may be decided at any step.  Left out: a second *)
(* event that falls into a lookup of its key or into the publication of the*)
(* first one's sidecar, each of which is one step here, and the events     *)
(* recoverRestartedApprovalReceipts writes at a restart.                   *)
(***************************************************************************)
EXTENDS DurableOutcomes

CONSTANTS Gated,    \* keys of surface commands that need an approval
          Verdict   \* the second outcome of such a command

ASSUME GatedAssumption ==
    /\ Gated \subseteq SurfaceKey
    /\ Verdict \notin Outcome \cup {None}

VARIABLES
    approvals,   \* executions with an entry in pendingApprovals
    deciding     \* sequence of the second event whose sidecar is being written, or 0

all == <<vars, approvals, deciding>>

ApprovalInit ==
    /\ Init
    /\ approvals = {}
    /\ deciding = [a \in Attempt |-> 0]

\* requestCurrent, when the execution of a gated command comes to its effect; a
\* process that stops forgets the approvals.
RequestsApprovals ==
    /\ approvals' = IF mode' # "up" THEN {}
                    ELSE approvals \cup {a \in Attempt : /\ KeyOf[a] \in Gated
                                                         /\ pc[a] = "effect" /\ pc'[a] = "terminal"}
    /\ deciding' = IF mode' # "up" THEN [a \in Attempt |-> 0] ELSE deciding

\* markDirtyTerminalOutcome, for a key that may hold no reservation.
MarksDirty(k, entry) ==
    /\ compaction' = Invalidated
    /\ dirty' = IF DirtyFull(k) THEN dirty ELSE [dirty EXCEPT ![k] = entry]

\* The second appendTerminal of a command up to its sidecar.  A refused append, or a
\* full dirty map, goes to whoever decided; the approval is gone in any case.
AppendDecision(a) ==
    LET k == KeyOf[a]
        event == Terminal(a, Verdict)
    IN  /\ mode = "up" /\ a \in approvals
        /\ \A b \in Attempt : KeyOf[b] = k => pc[b] \notin {"lookup", "persist"}
        /\ approvals' = approvals \ {a}
        /\ \/ /\ AppendSucceeds(event)
              /\ hot' = [hot EXCEPT ![k] = Verdict]
              /\ MarksDirty(k, [seq |-> LastSequence + 1, out |-> Verdict])
              /\ deciding' = IF DirtyFull(k) THEN deciding
                             ELSE [deciding EXCEPT ![a] = LastSequence + 1]
           \/ /\ AppendFails(event)
              /\ UNCHANGED <<hot, dirty, compaction, deciding>>
        /\ UNCHANGED <<dropped, baseline, cut, snapshot, sidecar, mode, pc, pending, blocked,
                       recovered, history, crashes>>

\* persistTerminalOutcomeOrLeaveDirty of the second outcome, and maybeCompact.
PersistDecision(a) ==
    LET k == KeyOf[a]
        put == [sidecar EXCEPT ![k] = Verdict]
    IN  /\ mode = "up" /\ deciding[a] # 0
        /\ deciding' = [deciding EXCEPT ![a] = 0]
        /\ \/ /\ NoFault
              /\ sidecar' = put
              /\ dirty' = IF dirty[k] # None /\ dirty[k].seq <= deciding[a]
                          THEN [dirty EXCEPT ![k] = None] ELSE dirty
           \/ /\ Fault
              /\ sidecar' \in {sidecar, put}
              /\ UNCHANGED dirty
        /\ IF Len(journal) > Trigger
           THEN BeginCompaction ELSE UNCHANGED <<compaction, blocked>>
        /\ UNCHANGED <<journal, cut, dropped, baseline, torn, snapshot, mode, pc, pending, hot,
                       recovered, history, crashes, approvals>>

ApprovalNext ==
    \/ Next /\ RequestsApprovals
    \/ \E a \in Attempt : AppendDecision(a) \/ PersistDecision(a)

ApprovalSpec == ApprovalInit /\ [][ApprovalNext]_all

\* The event loop runs what is ready.  Clients need not submit, nobody has to decide,
\* to crash the process or to start it again.
FairApprovalSpec ==
    /\ ApprovalSpec
    /\ WF_vars(Compact)
    /\ \A a \in Attempt : WF_vars(Step(a))

-----------------------------------------------------------------------------
(* Properties. *)

\* The keys whose dirty entry is a second outcome, or stands for one that had no room
\* and that a lookup could not find.
Unreserved == {k \in DirtyKeys : dirty[k].out \in {Verdict, None}}

\* The shared budget (tryReserveFreshExecution): a running execution has room left in
\* the dirty map, so its terminal outcome stays replayable if its sidecar cannot be
\* written.  Second outcomes, for which nothing is reserved, come on top of it.
DurabilityBudget ==
    mode = "up" =>
        Cardinality((DirtyKeys \ Unreserved) \cup {KeyOf[a] : a \in Active}) <= Budget

\* Every call of submit() settles: lookups, callers that wait for a compaction at
\* the durability gate, and callers that joined another's execution.  A call is made
\* once and stays settled, so it is enough that no call is open again and again.
SubmitsSettle == []<>(\A a \in Attempt : pc[a] \in {"idle"} \cup Answered)

===============================================================================
