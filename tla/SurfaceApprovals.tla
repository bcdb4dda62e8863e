-------------------------- MODULE SurfaceApprovals --------------------------
(***************************************************************************)
(* What an agent may do to a browser tab.                                  *)
(*                                                                         *)
(* ControlRuntime (src/src/control/runtime.ts) performs an action on a tab *)
(* if the agent's task credential is active, its capability lease          *)
(* (capabilityLeases.ts) covers the tab at its present generation          *)
(* (surfaces.ts) and, for some actions, an operator has approved this one  *)
(* action once (approvals.ts).  Each check awaits the credential file, so  *)
(* leases, approvals and the tab change between its two halves; an action  *)
(* is checked again when its turn in the tab's queue comes.  An effect that*)
(* takes too long is reported unknown and its queue is quarantined.        *)
(*                                                                         *)
(* One tab, one task subject and one lease request for each owner process  *)
(* are modelled.  Left out: a command's own deadline, lease.release (to    *)
(* others it is lease.revoke), several credentials, and the pruning of     *)
(* records past their limits.                                              *)
(***************************************************************************)
EXTENDS Naturals, Sequences

CONSTANTS
    Action,        \* surface actions of the agent
    Guarded,       \* ... that are classified as needing an approval
    Resolver,      \* approval.resolve commands
    Granter,       \* lease.grant commands
    None,          \* no value
    QueueDepth,    \* AGENT_CONTROL_LIMITS.resourceQueueDepth
    MaxGeneration, \* bound of the model: generations of the tab, one fewer after each restart
    MaxRestarts,   \* bound of the model: owner processes after the first
    MaxFaults      \* bound of the model: refused appends and unreadable credentials

Process == Action \cup Resolver \cup Granter

ASSUME ActionsAssumption ==
    /\ Guarded \subseteq Action
    /\ Action \cap (Resolver \cup Granter) = {} /\ Resolver \cap Granter = {}
    /\ None \notin Guarded

ASSUME BoundsAssumption ==
    /\ QueueDepth \in Nat \ {0} /\ MaxGeneration \in Nat \ {0}
    /\ MaxRestarts \in Nat /\ MaxFaults \in Nat

VARIABLES
    tab,         \* SurfaceRegistry: is the tab there, and its last generation
    credential,  \* the task's credential file names the subject
    request,     \* leaseRequests
    lease,       \* CapabilityLeaseStore.leases
    expired,     \* the lease is past its expiresAt
    nextId,      \* randomUUID of leases
    approval,    \* ApprovalStore.approvals: the status of each action's approval
    overdue,     \* approvals past their expiresAt
    context,     \* pendingApprovals
    receipt,     \* receipts
    durable,     \* the receipts the journal can tell
    queue,       \* the resource queue of each generation: actions counted by pendingEffects
    quarantined, \* generations whose queue is quarantined
    pc,          \* progress of each command
    reading,     \* commands that were reading the file when the subject left it
    token,       \* the lease an action presents
    about,       \* the approval a resolver names
    restarts, faults,
    \* what happened
    told,        \* leases the agent has been told of
    ended,       \* leases that were revoked, renewed or have expired
    runs,        \* how often the effect of each action started
    consented,   \* actions whose approval an operator's approve was accepted for
    denied,      \* ... or an operator's deny
    stuck,       \* generations on which an effect has timed out
    late,        \* actions that were queued after an effect on the same tab had timed out
    doubtful,    \* actions reported not run while their approval was, or stayed, usable
    cut          \* actions whose effect had started when recovery reported them not run

tabs == <<tab, credential, request>>
leases == <<lease, expired, nextId, told, ended>>
approvals == <<approval, context>>
receipts == <<receipt, durable, faults>>
queues == <<queue, quarantined, stuck, late>>
judgements == <<consented, denied, doubtful, cut>>
vars == <<tabs, leases, approvals, overdue, receipts, queues, pc, reading, token, about,
          restarts, runs, judgements>>

Generation == 1..MaxGeneration

Lease == [id : Nat, revision : Nat, target : Generation]

ApprovalStatus == {"none", "pending", "approved", "denied", "consumed", "expired", "revoked"}

\* "done" stands for a settled effect, "invalid" for action_invalidated,
\* approval_expired, validation failures and queue_full: the effect did not run.
Receipt == {"none", "required", "invalid", "denied", "done", "unknown"}

Stage == {"new", "checking", "asking", "waiting", "queued", "rechecking", "running",
          "asserting", "withdrawing", "aborting", "failing", "revoking", "done", "lost"}

TypeOK ==
    /\ tab \in [present : BOOLEAN, generation : 0..MaxGeneration]
    /\ credential \in BOOLEAN
    /\ request \in [state : {"none", "pending", "gone"}, target : 0..MaxGeneration]
    /\ lease \in Lease \cup {None} /\ expired \in BOOLEAN /\ nextId \in Nat
    /\ approval \in [Guarded -> ApprovalStatus]
    /\ overdue \subseteq Guarded /\ context \subseteq Guarded
    /\ receipt \in [Action -> Receipt] /\ durable \in [Action -> Receipt]
    /\ queue \in [Generation -> Seq(Action)] /\ quarantined \subseteq Generation
    /\ pc \in [Process -> Stage] /\ reading \subseteq Process
    /\ token \in [Action -> Lease \cup {None}]
    /\ about \in [Resolver -> Guarded \cup {None}]
    /\ restarts \in 0..MaxRestarts /\ faults \in 0..MaxFaults
    /\ told \subseteq Lease /\ ended \subseteq told
    /\ runs \in [Action -> Nat]
    /\ consented \subseteq Guarded /\ denied \subseteq Guarded
    /\ stuck \subseteq Generation /\ late \subseteq Action /\ doubtful \subseteq Guarded /\ cut \subseteq Guarded

Init ==
    /\ tab = [present |-> FALSE, generation |-> 0]
    /\ credential = TRUE
    /\ request = [state |-> "none", target |-> 0]
    /\ lease = None /\ expired = FALSE /\ nextId = 1
    /\ approval = [a \in Guarded |-> "none"] /\ overdue = {} /\ context = {}
    /\ receipt = [a \in Action |-> "none"] /\ durable = receipt
    /\ queue = [g \in Generation |-> <<>>] /\ quarantined = {}
    /\ pc = [p \in Process |-> "new"] /\ reading = {}
    /\ token = [a \in Action |-> None] /\ about = [r \in Resolver |-> None]
    /\ restarts = 0 /\ faults = 0
    /\ told = {} /\ ended = {}
    /\ runs = [a \in Action |-> 0]
    /\ consented = {} /\ denied = {} /\ stuck = {} /\ late = {} /\ doubtful = {} /\ cut = {}

Fault == faults < MaxFaults /\ faults' = faults + 1
NoFault == UNCHANGED faults

\* A command goes on; a read of the credential file that it awaited is over.
Goto(p, stage) ==
    /\ pc' = [pc EXCEPT ![p] = stage]
    /\ reading' = reading \ {p}

-----------------------------------------------------------------------------
(* Receipts and approvals. *)

\* rememberReceipt and appendTerminal for a set of actions; the journal may refuse.
Report(reported, state) ==
    /\ receipt' = [a \in Action |-> IF a \in reported THEN state ELSE receipt[a]]
    /\ \/ NoFault
          /\ durable' = [a \in Action |-> IF a \in reported THEN state ELSE durable[a]]
       \/ reported # {} /\ Fault /\ UNCHANGED durable

\* isLiveApproval
Live(a) == approval[a] \in {"pending", "approved"}

\* approvalAlreadyTerminalized
Open(a) == receipt[a] \in {"none", "required"}

\* approvalLeaseCurrent, under the lease l that is left.
UnderLease(a, l) ==
    l # None /\ l.id = token[a].id /\ l.revision = token[a].revision

\* The approvals that revokeApprovalsForLease ends: those past their time, those
\* whose lease is not current, and those of the lease named.
Doomed(l, id) ==
    {a \in Guarded : Live(a) /\ (a \in overdue \/ ~UnderLease(a, l) \/ token[a].id = id)}

\* expire, revokeForApprovalIds and revokeForLease.
Closed(gone) ==
    [a \in Guarded |-> IF a \notin gone THEN approval[a]
                       ELSE IF a \in overdue THEN "expired" ELSE "revoked"]

\* finalizeApproval of each, then prunePendingApprovals.
EndApprovals(gone) ==
    /\ approval' = Closed(gone)
    /\ context' = {a \in context \ gone : Live(a)}
    /\ Report({a \in gone \cap context : Open(a)}, "invalid")

\* No lease has this id.
NoLease == 0

\* A lease leaves the store.
Drop ==
    /\ lease' = None /\ expired' = FALSE
    /\ ended' = ended \cup {lease}
    /\ UNCHANGED <<nextId, told>>

\* CapabilityLeaseStore.snapshot: a lease past its time leaves.
Purge == IF expired THEN Drop ELSE UNCHANGED leases

\* revokeApprovalsForLease, and with no lease named refreshApprovalState.
Refresh(id) ==
    /\ Purge
    /\ EndApprovals(Doomed(IF expired THEN None ELSE lease, id))

\* A lease is revoked, and the approvals given under it.
Revoke ==
    /\ Drop
    /\ EndApprovals(Doomed(None, NoLease))

-----------------------------------------------------------------------------
(* Checks. *)

\* Mutant: a lease is recognised by its id alone.
AuthorizesAnyRevision(a) == lease # None /\ lease.id = token[a].id /\ ~expired

\* CapabilityLeaseStore.assert; an action names the tab its lease is for.
Authorizes(a) == lease # None /\ lease = token[a] /\ ~expired

\* assert drops the lease it finds expired.
Refused(a) == IF lease # None /\ lease = token[a] THEN Purge ELSE UNCHANGED leases

\* surfaces.require
OnTab(g) == tab.present /\ tab.generation = g

\* A command is between the two halves of a check, the read of the credential file.
Checking(p) == pc[p] \in {"checking", "rechecking", "asserting"}

\* What it gets is what the file held at some moment since it began to read.
Active(p) == credential \/ p \in reading
Inactive == ~credential

\* assertSurfaceAndLease up to the read of the credential.
CheckTab(p, a, stage) ==
    Goto(p, IF OnTab(token'[a].target) THEN stage ELSE "failing")

\* Where a command goes whose check has failed: an action reports, a resolver
\* past the approval revokes it, others just fail.
Failed(p) == IF p \in Action \/ pc[p] \in {"asserting", "aborting"} THEN "failing" ELSE "done"

\* invalidateTaskSubjectAuthority up to its last await: the request and the live
\* approvals go.  An approval past its time expires without being finalized.
WithdrawApprovals(p) ==
    LET live == {a \in Guarded : Live(a)}
    IN  /\ request' = [request EXCEPT !.state = IF @ = "pending" THEN "gone" ELSE @]
        /\ approval' = Closed(live)
        /\ context' = context \ (live \ overdue)
        /\ Report({a \in (live \ overdue) \cap context : Open(a)}, "invalid")
        /\ Goto(p, IF faults' # faults THEN Failed(p)
                   ELSE IF pc[p] = "asserting" THEN "aborting" ELSE "withdrawing")

\* assertTaskSubjectActive throws: the subject is inactive, or its file unreadable.
Deny(p) ==
    /\ Checking(p)
    /\ \/ Inactive /\ WithdrawApprovals(p)
       \/ Fault /\ Goto(p, Failed(p)) /\ UNCHANGED <<request, approvals, receipt, durable>>
    /\ UNCHANGED <<tab, credential, leases, overdue, queues, token, about, restarts,
                   runs, judgements>>

\* The rest of invalidateTaskSubjectAuthority: revokeActorTask.
WithdrawLease(p) ==
    /\ pc[p] \in {"withdrawing", "aborting"}
    /\ IF lease # None THEN Revoke ELSE UNCHANGED <<leases, approvals, receipts>>
    /\ Goto(p, Failed(p))
    /\ UNCHANGED <<tabs, overdue, queues, token, about, restarts, runs, judgements>>

-----------------------------------------------------------------------------
(* The queue of the tab. *)

\* Mutant: a quarantined queue is dropped as soon as it is empty.
PrunedIdle == {g \in quarantined : queue[g] # <<>>}

\* pruneInactiveResourceQueues, which every submit() begins with.
Pruned == {g \in quarantined : queue[g] # <<>> \/ OnTab(g)}

\* Mutant: an item that fails leaves its tail unresolved.
LeftAfterEffect(a) ==
    [g \in Generation |-> IF queue[g] # <<>> /\ Head(queue[g]) = a /\ pc[a] = "running"
                          THEN Tail(queue[g]) ELSE queue[g]]

\* release() of an item whose turn has come.
Left(a) ==
    [g \in Generation |-> IF queue[g] # <<>> /\ Head(queue[g]) = a
                          THEN Tail(queue[g]) ELSE queue[g]]

\* A receipt for a and the end of its command, or of its execution by p.  If the
\* journal refuses it, what is left of the approval's lease is revoked next.
Settle(p, a, state) ==
    /\ receipt' = [receipt EXCEPT ![a] = state]
    /\ queue' = Left(a)
    /\ reading' = reading \ {p}
    /\ \/ NoFault /\ durable' = [durable EXCEPT ![a] = state]
          /\ pc' = [pc EXCEPT ![p] = "done", ![a] = "done"]
       \/ Fault /\ UNCHANGED durable
          /\ pc' = [pc EXCEPT ![p] = "done",
                    ![a] = IF p # a \/ (a \in Guarded /\ approval[a] = "consumed") THEN "revoking" ELSE "done"]

\* enqueueSurfaceEffect up to the wait for the tail.
Enqueue(p, a) ==
    LET g == token[a].target
    IN  \/ g \in quarantined /\ Settle(p, a, "unknown") /\ UNCHANGED <<quarantined, late, stuck>>
        \/ /\ g \notin quarantined /\ Len(queue[g]) >= QueueDepth
           /\ Settle(p, a, "invalid") /\ UNCHANGED <<quarantined, late, stuck>>
        \/ /\ g \notin quarantined /\ Len(queue[g]) < QueueDepth
           /\ queue' = [queue EXCEPT ![g] = Append(@, a)]
           /\ pc' = [pc EXCEPT ![p] = "done", ![a] = "queued"]
           /\ reading' = reading \ {p}
           /\ late' = IF g \in stuck THEN late \cup {a} ELSE late
           /\ UNCHANGED <<quarantined, stuck, receipts>>

-----------------------------------------------------------------------------
(* Surface actions. *)

\* executeSurfaceControlCommand and prepareSurfaceAction.
Submit(a) ==
    /\ pc[a] = "new"
    /\ \E t \in told : token' = [token EXCEPT ![a] = t]
    /\ CheckTab(a, a, "checking")
    /\ quarantined' = Pruned
    /\ UNCHANGED <<tabs, leases, approvals, overdue, receipts, queue, late, stuck, about,
                   restarts, runs, judgements>>

\* The lease does not hold, at submission or when the turn has come.
Refuse(a) ==
    /\ pc[a] \in {"checking", "rechecking"} /\ Active(a) /\ ~Authorizes(a)
    /\ Refused(a)
    /\ Goto(a, "failing")
    /\ UNCHANGED <<tabs, approvals, overdue, receipts, queues, token, about, restarts,
                   runs, judgements>>

\* requestCurrent, after a refresh of the other approvals.
RequestApproval(a) ==
    LET gone == Doomed(lease, NoLease)
    IN  /\ pc[a] = "checking" /\ a \in Guarded /\ Active(a) /\ Authorizes(a)
        /\ approval' = [Closed(gone) EXCEPT ![a] = "pending"]
        /\ context' = {b \in context \ gone : Live(b)} \cup {a}
        /\ Report({b \in gone \cap context : Open(b)}, "invalid")
        /\ Goto(a, "asking")
        /\ UNCHANGED <<tabs, leases, overdue, queues, token, about, restarts, runs, judgements>>

\* The journal has taken approval.requested, or not; the terminal event follows.
AnswerRequest(a) ==
    /\ pc[a] = "asking"
    /\ \/ receipt' = [receipt EXCEPT ![a] = "required"] /\ UNCHANGED doubtful
          /\ \/ NoFault /\ durable' = [durable EXCEPT ![a] = "required"]
             \/ Fault /\ UNCHANGED durable
       \/ receipt' = [receipt EXCEPT ![a] = "invalid"] /\ Fault
          /\ durable' = [durable EXCEPT ![a] = "invalid"]
          /\ doubtful' = IF Live(a) THEN doubtful \cup {a} ELSE doubtful
    /\ Goto(a, "waiting")
    /\ UNCHANGED <<tabs, leases, approvals, overdue, queues, token, about, restarts, runs,
                   consented, denied, cut>>

\* An action that needs no approval.
EnqueueAction(a) ==
    /\ pc[a] = "checking" /\ a \notin Guarded /\ Active(a) /\ Authorizes(a)
    /\ Enqueue(a, a)
    /\ UNCHANGED <<tabs, leases, approvals, overdue, token, about, restarts, runs, judgements>>

\* The tail has settled: everything is checked again.
TakeTurn(a) ==
    /\ pc[a] = "queued" /\ Head(queue[token[a].target]) = a
    /\ UNCHANGED token
    /\ CheckTab(a, a, "rechecking")
    /\ UNCHANGED <<tabs, leases, approvals, overdue, receipts, queues, about, restarts, runs, judgements>>

\* The handler is called.
StartEffect(a) ==
    /\ pc[a] = "rechecking" /\ Active(a) /\ Authorizes(a)
    /\ Goto(a, "running")
    /\ runs' = [runs EXCEPT ![a] = @ + 1]
    /\ UNCHANGED <<tabs, leases, approvals, overdue, receipts, queues, token, about,
                   restarts, judgements>>

\* The handler settles, or fails without knowing what it did.
EndEffect(a) ==
    /\ pc[a] = "running"
    /\ \E state \in {"done", "unknown"} : Settle(a, a, state)
    /\ UNCHANGED <<tabs, leases, approvals, overdue, quarantined, late, stuck, token, about,
                   restarts, runs, judgements>>

\* withTimeout; the effect itself goes on.
Timeout(a) ==
    /\ pc[a] = "running"
    /\ Settle(a, a, "unknown")
    /\ quarantined' = quarantined \cup {token[a].target}
    /\ stuck' = stuck \cup {token[a].target}
    /\ UNCHANGED <<tabs, leases, approvals, overdue, late, token, about, restarts, runs, judgements>>

\* terminalizeValidationFailure, and the receipt of a failed revalidation.
Fail(a) ==
    /\ pc[a] = "failing"
    /\ Settle(a, a, "invalid")
    /\ UNCHANGED <<tabs, leases, approvals, overdue, quarantined, late, stuck, token, about,
                   restarts, runs, judgements>>

\* The catch of resolveApproval after a refused terminal event.
RevokeAfterFault(a) ==
    /\ pc[a] = "revoking"
    /\ Refresh(token[a].id)
    /\ Goto(a, "done")
    /\ UNCHANGED <<tabs, overdue, queues, token, about, restarts, runs, judgements>>

-----------------------------------------------------------------------------
(* Operators: approvals. *)

\* resolveApproval; the operator knows the approval from its journalled request.
\* A command that finds no pending context changes nothing.
StartResolve(r) ==
    /\ pc[r] = "new"
    /\ \E a \in context :
         /\ pc[a] # "asking"
         /\ about' = [about EXCEPT ![r] = a]
    /\ Goto(r, "checking")
    /\ quarantined' = Pruned
    /\ UNCHANGED <<tabs, leases, approvals, overdue, receipts, queue, late, stuck, token,
                   restarts, runs, judgements>>

\* Mutant: whatever was decided may be decided again.
ResolvableAgain(a) == approval[a] # "none" /\ a \notin overdue

\* ApprovalStore.resolve
Resolvable(a) == approval[a] = "pending" /\ a \notin overdue

DenyAction(r) ==
    LET a == about[r]
    IN  /\ pc[r] = "checking" /\ r \in Resolver /\ Active(r) /\ Resolvable(a)
        /\ approval' = [approval EXCEPT ![a] = "denied"]
        /\ context' = context \ {a}
        /\ Report({a}, "denied")
        /\ denied' = denied \cup {a}
        /\ Goto(r, "done")
        /\ UNCHANGED <<tabs, leases, overdue, queues, token, about, restarts, runs,
                       consented, doubtful, cut>>

ApproveAction(r) ==
    LET a == about[r]
    IN  /\ pc[r] = "checking" /\ Active(r) /\ Resolvable(a)
        /\ approval' = [approval EXCEPT ![a] = "approved"]
        /\ consented' = consented \cup {a}
        /\ UNCHANGED token
        /\ CheckTab(r, a, "asserting")
        /\ UNCHANGED <<tabs, leases, context, overdue, receipts, queues, about, restarts, runs,
                       denied, doubtful, cut>>

\* The approval has been decided or has ended: finalizeApproval with the context
\* the resolver holds.
ResolveTooLate(r) ==
    LET a == about[r]
        reported == IF Open(a) THEN {a} ELSE {}
    IN  /\ pc[r] = "checking" /\ Active(r) /\ ~Resolvable(a)
        /\ approval' = [approval EXCEPT ![a] = IF Live(a) /\ a \in overdue THEN "expired" ELSE @]
        /\ context' = context \ {a}
        /\ Report(reported, "invalid")
        /\ doubtful' = IF approval'[a] \in {"approved", "consumed"} THEN doubtful \cup reported ELSE doubtful
        /\ Goto(r, "done")
        /\ UNCHANGED <<tabs, leases, overdue, queues, token, about, restarts, runs,
                       consented, denied, cut>>

\* ApprovalStore.consume; the resolver's command ends with the action's effect.
Consume(r) ==
    LET a == about[r]
    IN  /\ pc[r] = "asserting" /\ Active(r) /\ Authorizes(a)
        /\ approval[a] = "approved" /\ a \notin overdue
        /\ approval' = [approval EXCEPT ![a] = "consumed"]
        /\ context' = context \ {a}
        /\ Enqueue(r, a)
        /\ UNCHANGED <<tabs, leases, overdue, token, about, restarts, runs, judgements>>

\* The lease does not hold, or the approval is no longer approved.
ConsumeFails(r) ==
    LET a == about[r]
    IN  /\ pc[r] = "asserting" /\ Active(r)
        /\ \/ ~Authorizes(a) /\ Refused(a) /\ UNCHANGED approval
           \/ /\ Authorizes(a) /\ (approval[a] # "approved" \/ a \in overdue)
              /\ approval' = [approval EXCEPT ![a] = IF Live(a) /\ a \in overdue THEN "expired" ELSE @]
              /\ UNCHANGED leases
        /\ Goto(r, "failing")
        /\ UNCHANGED <<tabs, context, overdue, receipts, queues, token, about, restarts,
                       runs, judgements>>

\* The catch of resolveApproval.
RevokeApproved(r) ==
    LET a == about[r]
    IN  /\ pc[r] = "failing"
        /\ Refresh(token[a].id)
        /\ Goto(r, "done")
        /\ UNCHANGED <<tabs, overdue, queues, token, about, restarts, runs, judgements>>

-----------------------------------------------------------------------------
(* Leases and the tab. *)

\* lease.request; its own check of the credential may have begun at any time.
Ask ==
    /\ request.state = "none" /\ tab.present
    /\ request' = [state |-> "pending", target |-> tab.generation]
    /\ quarantined' = Pruned
    /\ UNCHANGED <<tab, credential, leases, approvals, overdue, receipts, queue, late, stuck, pc,
                   reading, token, about, restarts, runs, judgements>>

StartGrant(g) ==
    /\ pc[g] = "new" /\ request.state = "pending"
    /\ Goto(g, "checking")
    /\ quarantined' = Pruned
    /\ UNCHANGED <<tabs, leases, approvals, overdue, receipts, queue, late, stuck, token, about,
                   restarts, runs, judgements>>

\* CapabilityLeaseStore.grant, for the request that was pending before the check:
\* a second grant renews the lease of the first.
Grant(g) ==
    LET renewed == lease # None /\ ~expired
        next == IF renewed THEN [lease EXCEPT !.revision = @ + 1]
                ELSE [id |-> nextId, revision |-> 1, target |-> request.target]
    IN  /\ pc[g] = "checking" /\ Active(g) /\ OnTab(request.target)
        /\ lease' = next /\ expired' = FALSE
        /\ nextId' = IF renewed THEN nextId ELSE nextId + 1
        /\ told' = told \cup {next}
        /\ ended' = IF lease # None THEN ended \cup {lease} ELSE ended
        /\ request' = [request EXCEPT !.state = "gone"]
        /\ Goto(g, "done")
        /\ UNCHANGED <<tab, credential, approvals, overdue, receipts, queues, token, about,
                       restarts, runs, judgements>>

\* The tab is gone, or the lease is another operator's.
GrantFails(g) ==
    /\ pc[g] = "checking" /\ Active(g)
    /\ ~OnTab(request.target) \/ (lease # None /\ ~expired)
    /\ Goto(g, "done")
    /\ UNCHANGED <<tabs, leases, approvals, overdue, receipts, queues, token, about,
                   restarts, runs, judgements>>

\* lease.revoke, and lease.release.
RevokeLease ==
    /\ lease # None
    /\ Revoke
    /\ quarantined' = Pruned
    /\ UNCHANGED <<tabs, overdue, queue, late, stuck, pc, reading, token, about, restarts, runs, judgements>>

\* Mutant: a lease is revoked, there or not.
RevokeAlways == IF tab.present THEN Revoke ELSE UNCHANGED <<leases, approvals, receipts>>

\* revokeTarget for the tab that is replaced or removed.
RevokeTarget ==
    IF tab.present /\ lease # None /\ lease.target = tab.generation
    THEN Revoke ELSE UNCHANGED <<leases, approvals, receipts>>

\* provider.resource.upsert of a new tab or a new binding, provider.resource.remove.
ChangeTab ==
    /\ \/ /\ tab.generation + restarts < MaxGeneration
          /\ tab' = [present |-> TRUE, generation |-> tab.generation + 1]
       \/ tab.present /\ tab' = [tab EXCEPT !.present = FALSE]
    /\ RevokeTarget
    /\ quarantined' = Pruned
    /\ UNCHANGED <<credential, request, overdue, queue, late, stuck, pc, reading, token, about,
                   restarts, runs, judgements>>

\* A client asks for the runtime's snapshot.
Poll ==
    /\ Refresh(NoLease)
    /\ UNCHANGED <<tabs, overdue, queues, pc, reading, token, about, restarts, runs, judgements>>

\* Time passes for the lease or for an approval.
Expire ==
    /\ \/ /\ lease # None /\ ~expired
          /\ expired' = TRUE /\ ended' = ended \cup {lease} /\ UNCHANGED overdue
       \/ /\ \E a \in Guarded \ overdue : Live(a) /\ overdue' = overdue \cup {a}
          /\ UNCHANGED <<expired, ended>>
    /\ UNCHANGED <<tabs, lease, nextId, told, approvals, receipts, queues, pc, reading, token,
                   about, restarts, runs, judgements>>

\* The task's credential is revoked or given to another subject.
Deactivate ==
    /\ credential /\ credential' = FALSE
    /\ reading' = {p \in Process : Checking(p)}
    /\ UNCHANGED <<tab, request, leases, approvals, overdue, receipts, queues, pc, token,
                   about, restarts, runs, judgements>>

\* The owner process ends; the next one starts from the journal's receipts and
\* recoverRestartedApprovalReceipts.
Restart ==
    /\ restarts < MaxRestarts /\ restarts' = restarts + 1
    /\ tab' = [present |-> FALSE, generation |-> 0]
    /\ request' = [state |-> "none", target |-> 0]
    /\ lease' = None /\ expired' = FALSE
    /\ told' = {} /\ ended' = {}
    /\ approval' = [a \in Guarded |-> "none"] /\ context' = {} /\ overdue' = {}
    /\ durable' = [a \in Action |-> IF durable[a] = "required" THEN "invalid" ELSE durable[a]]
    /\ receipt' = durable'
    /\ queue' = [g \in Generation |-> <<>>]
    /\ quarantined' = {} /\ stuck' = {} /\ reading' = {}
    /\ pc' = [p \in Process |-> IF pc[p] \in {"new", "done"} THEN pc[p] ELSE "lost"]
    /\ cut' = cut \cup {a \in Guarded : durable[a] = "required" /\ runs[a] > 0}
    /\ token' = [a \in Action |-> None] /\ about' = [r \in Resolver |-> None]
    /\ UNCHANGED <<credential, nextId, faults, runs, consented, denied, late, doubtful>>

-----------------------------------------------------------------------------

\* Steps the event loop takes by itself, the timer of a running effect among them.
Step ==
    \/ \E a \in Action :
         \/ Refuse(a) \/ RequestApproval(a) \/ AnswerRequest(a) \/ EnqueueAction(a)
         \/ TakeTurn(a) \/ StartEffect(a) \/ Timeout(a) \/ Fail(a) \/ RevokeAfterFault(a)
    \/ \E r \in Resolver :
         \/ ApproveAction(r) \/ DenyAction(r) \/ ResolveTooLate(r)
         \/ Consume(r) \/ ConsumeFails(r) \/ RevokeApproved(r)
    \/ \E g \in Granter : Grant(g) \/ GrantFails(g)
    \/ \E p \in Process : Deny(p) \/ WithdrawLease(p)

Next ==
    \/ Step
    \/ \E a \in Action : Submit(a) \/ EndEffect(a)
    \/ \E r \in Resolver : StartResolve(r)
    \/ \E g \in Granter : StartGrant(g)
    \/ Ask \/ RevokeLease \/ ChangeTab \/ Poll \/ Expire \/ Deactivate \/ Restart

Spec == Init /\ [][Next]_vars

-----------------------------------------------------------------------------
(* Properties. *)

Started(a) == runs[a] > 0

\* An operator's approval lets an action run once and a denial never, whatever
\* resolvers do at the same time (resolveApproval, ApprovalStore.resolve, consume).
ConsentedOnce ==
    \A a \in Action :
        /\ runs[a] <= 1
        /\ a \in Guarded /\ Started(a) => a \in consented \ denied

\* What an action has come to for its operator.  An action that has got beyond its
\* first check without an approval, or has lost it, will not be approved any more.
Phase(a) ==
    IF runs[a] > 0 THEN "performed"
    ELSE IF a \notin Guarded \/ approval[a] \in {"approved", "consumed"} THEN "consented"
    ELSE IF approval[a] = "pending" \/ pc[a] \in {"new", "checking"} THEN "open"
    ELSE "refused"

Consents == INSTANCE OneTimeConsent WITH stage <- [a \in Action |-> Phase(a)]

\* The runtime keeps the contract of OneTimeConsent: approvals that were denied, have
\* expired or were revoked with their lease, tab, subject or owner never come back.
KeepsConsent == Consents!Spec

\* An action whose receipt says it was not run does not run any more.  Excepted are
\* those the runtime reported so while their approval was usable, and those whose
\* effect had started when the owner died.
NotRunStays ==
    \A a \in Action :
        receipt[a] \in {"invalid", "denied"} /\ a \notin doubtful \cup cut => ~Started(a)

\* docs/AGENT-SURFACE-CONTROL.md says so of owner recovery too: what may have been
\* delivered is reported effect_unknown.
RecoveryReportsUnknown ==
    \A a \in Action : receipt[a] \in {"invalid", "denied"} => ~Started(a)

\* No effect starts under a lease that was revoked, renewed or has expired since it
\* was checked first, queued and approved actions included; and none starts on
\* another generation of the tab than its lease names, although the tab is looked at
\* only before the credential is read.
Authorized ==
    [][\A a \in Action : runs'[a] # runs[a] =>
          token[a] \in told \ ended /\ OnTab(token[a].target)]_vars

\* Of the effects on one tab that have not timed out, at most one is running; and what
\* enters the queue after a timeout never starts, although quarantined queues are
\* dropped when the tab has changed.  What had been queued before it does start, and
\* then the effect that timed out may be running beside it.
OneAtATime ==
    /\ \A a, b \in Action :
         pc[a] = "running" /\ pc[b] = "running" /\ token[a].target = token[b].target => a = b
    /\ \A a \in late : ~Started(a)

\* A command has a step of its own: an awaited file or timer, or its turn.
Ready(p) ==
    \/ p \in Action /\ pc[p] \in {"checking", "asking", "rechecking", "running", "failing", "revoking"}
    \/ p \in Action /\ pc[p] = "queued" /\ Head(queue[token[p].target]) = p
    \/ p \in Resolver /\ pc[p] \in {"checking", "asserting", "failing"}
    \/ p \in Granter /\ pc[p] = "checking"
    \/ pc[p] \in {"withdrawing", "aborting"}

\* Nothing waits for ever: when the event loop and its timers have nothing left to do,
\* every command is settled, effects that are running do not matter, and handlers
\* that never return and events the journal refuses do not either.  No command takes
\* more than a few steps, so under weak fairness of Step each one does settle.
IdleMeansSettled ==
    IF \E p \in Process : Ready(p) THEN ENABLED Step
    ELSE \A p \in Process : pc[p] \in {"new", "waiting", "done", "lost"}

=============================================================================
