----------------------- MODULE SurfaceApprovals_proofs -----------------------
(***************************************************************************)
(* Proofs about SurfaceApprovals, for any actions, resolvers, grants and   *)
(* bounds.                                                                 *)
(*                                                                         *)
(* ConsentedOnce: an approval is consumed before its action is queued and  *)
(* never becomes usable again, so the one start that a consumed approval   *)
(* allows is the only one.  Authorized: a lease that is in the store and   *)
(* not past its time is one that was handed out and has not ended, and it  *)
(* is dropped in the step that changes the tab.                            *)
(***************************************************************************)
EXTENDS SurfaceApprovals, TLAPS, SequenceTheorems

Idle == {"new", "done", "lost"}

\* What a command that is under way is about.
StageInv ==
    /\ \A a \in Action : /\ pc[a] \notin Idle => token[a] \in Lease
                         /\ pc[a] = "asking" => a \in Guarded
    /\ \A a \in Guarded : Live(a) => token[a] \in Lease
    /\ \A r \in Resolver : pc[r] \notin Idle => about[r] \in Guarded
    /\ tab.present => tab.generation >= 1
    /\ expired => lease # None

\* The lease in the store is the newest of its id and fits the tab.
LeaseInv ==
    /\ \A t \in told : t.id < nextId
    /\ lease # None =>
         /\ lease \in told /\ OnTab(lease.target)
         /\ \A t \in told : t.id = lease.id => t.revision <= lease.revision
         /\ ~expired => lease \notin ended

\* Stages in which the effect may have started.
Begun == {"running", "revoking", "done", "lost"}

\* What approvals and progress say of consent and of effects.
ConsentInv ==
    /\ \A a \in Action : runs[a] <= 1 /\ (pc[a] \notin Begun => runs[a] = 0)
    /\ \A a \in Guarded :
         /\ pc[a] \in {"new", "checking"} => approval[a] = "none" /\ a \notin consented \cup denied
         /\ approval[a] = "pending" => a \notin denied
         /\ Live(a) => runs[a] = 0
         /\ approval[a] \in {"approved", "consumed"} => a \in consented \ denied
         /\ pc[a] \in {"queued", "rechecking"} => approval[a] = "consumed"
         /\ runs[a] > 0 => a \in consented \ denied

IInv == TypeOK /\ StageInv /\ LeaseInv /\ ConsentInv

USE DEF Process, Generation, Fault, NoFault

-----------------------------------------------------------------------------
(* Types. *)

LEMMA InitInv == Init => IInv
<1>1. Init => TypeOK
  <2> SUFFICES ASSUME Init PROVE TypeOK
    OBVIOUS
  <2>1. tab \in [present : BOOLEAN, generation : 0..MaxGeneration]
    BY BoundsAssumption DEF Init
  <2>2. request \in [state : {"none", "pending", "gone"}, target : 0..MaxGeneration]
    BY BoundsAssumption DEF Init
  <2>3. /\ approval \in [Guarded -> ApprovalStatus]
        /\ receipt \in [Action -> Receipt] /\ durable \in [Action -> Receipt]
        /\ pc \in [Process -> Stage]
    BY DEF Init, ApprovalStatus, Receipt, Stage
  <2>4. queue \in [Generation -> Seq(Action)]
    BY EmptySeq DEF Init
  <2>5. restarts \in 0..MaxRestarts /\ faults \in 0..MaxFaults
    BY BoundsAssumption DEF Init
  <2>6. QED
    BY <2>1, <2>2, <2>3, <2>4, <2>5 DEF Init, TypeOK
<1>2. Init => StageInv /\ LeaseInv
  BY DEF Init, StageInv, LeaseInv, Live, Idle
<1>3. Init => ConsentInv
  BY ActionsAssumption DEF Init, ConsentInv, Live, Begun
<1>4. QED
  BY <1>1, <1>2, <1>3 DEF IInv

LEMMA GotoType ==
  ASSUME TypeOK, NEW p \in Process, NEW s \in Stage, Goto(p, s)
  PROVE  pc' \in [Process -> Stage] /\ reading' \subseteq Process
BY DEF TypeOK, Goto

LEMMA ReportType ==
  ASSUME TypeOK, NEW reported, NEW state \in Receipt, Report(reported, state)
  PROVE  receipt' \in [Action -> Receipt] /\ durable' \in [Action -> Receipt] /\ faults' \in 0..MaxFaults
<1>1. receipt' \in [Action -> Receipt]
  BY DEF TypeOK, Report
<1>2. durable' \in [Action -> Receipt]
  BY DEF TypeOK, Report
<1>3. faults' \in 0..MaxFaults
  BY BoundsAssumption DEF TypeOK, Report
<1>4. QED
  BY <1>1, <1>2, <1>3

LEMMA ClosedType ==
  ASSUME TypeOK, NEW gone
  PROVE  Closed(gone) \in [Guarded -> ApprovalStatus]
BY DEF TypeOK, Closed, ApprovalStatus

LEMMA EndApprovalsType ==
  ASSUME TypeOK, NEW gone, EndApprovals(gone)
  PROVE  /\ approval' \in [Guarded -> ApprovalStatus] /\ context' \subseteq Guarded
         /\ receipt' \in [Action -> Receipt] /\ durable' \in [Action -> Receipt]
         /\ faults' \in 0..MaxFaults
<1>1. Report({a \in gone \cap context : Open(a)}, "invalid") /\ "invalid" \in Receipt
  BY DEF EndApprovals, Receipt
<1>2. QED
  BY <1>1, ReportType, ClosedType DEF TypeOK, EndApprovals

\* The types of the variables of the lease store.
LeasesOK ==
    /\ lease \in Lease \cup {None} /\ expired \in BOOLEAN /\ nextId \in Nat
    /\ told \subseteq Lease /\ ended \subseteq told

LEMMA DropType ==
  ASSUME TypeOK, LeaseInv, lease # None, Drop
  PROVE  LeasesOK'
BY DEF TypeOK, LeaseInv, Drop, LeasesOK

LEMMA PurgeType ==
  ASSUME TypeOK, StageInv, LeaseInv, Purge
  PROVE  LeasesOK'
BY DropType DEF TypeOK, StageInv, Purge, LeasesOK, leases

\* The types of the variables that ending approvals changes.
EndingOK ==
    /\ approval \in [Guarded -> ApprovalStatus] /\ context \subseteq Guarded
    /\ receipt \in [Action -> Receipt] /\ durable \in [Action -> Receipt]
    /\ faults \in 0..MaxFaults

LEMMA RefreshType ==
  ASSUME TypeOK, StageInv, LeaseInv, NEW id, Refresh(id)
  PROVE  LeasesOK' /\ EndingOK'
BY PurgeType, EndApprovalsType DEF Refresh, EndingOK

LEMMA RevokeType ==
  ASSUME TypeOK, LeaseInv, lease # None, Revoke
  PROVE  LeasesOK' /\ EndingOK'
BY DropType, EndApprovalsType DEF Revoke, EndingOK

LEMMA RevokeTargetType ==
  ASSUME TypeOK, LeaseInv, RevokeTarget
  PROVE  LeasesOK' /\ EndingOK'
<1>1. CASE lease # None /\ Revoke
  BY <1>1, RevokeType
<1>2. CASE UNCHANGED <<leases, approvals, receipts>>
  BY <1>2 DEF TypeOK, LeasesOK, EndingOK, leases, approvals, receipts
<1>3. QED
  BY <1>1, <1>2 DEF RevokeTarget

LEMMA LeftType ==
  ASSUME TypeOK, NEW a
  PROVE  Left(a) \in [Generation -> Seq(Action)]
<1>1. \A g \in Generation : queue[g] # <<>> => Tail(queue[g]) \in Seq(Action)
  BY HeadTailProperties DEF TypeOK
<1>2. QED
  BY <1>1 DEF TypeOK, Left

\* The types of the variables that the end of a command changes.
SettledOK ==
    /\ receipt \in [Action -> Receipt] /\ durable \in [Action -> Receipt]
    /\ faults \in 0..MaxFaults
    /\ queue \in [Generation -> Seq(Action)]
    /\ pc \in [Process -> Stage] /\ reading \subseteq Process

LEMMA SettleType ==
  ASSUME TypeOK, NEW p \in Process, NEW a \in Action, NEW state \in Receipt, Settle(p, a, state)
  PROVE  SettledOK'
<1>1. queue' \in [Generation -> Seq(Action)]
  BY LeftType DEF Settle
<1>2. pc' \in [Process -> Stage] /\ reading' \subseteq Process
  <2>1. PICK s \in {"done", "revoking"} : pc' = [pc EXCEPT ![p] = "done", ![a] = s]
    BY DEF Settle
  <2>2. QED
    BY <2>1 DEF TypeOK, Settle, Stage
<1>3. faults' \in 0..MaxFaults
  BY BoundsAssumption DEF TypeOK, Settle
<1>4. receipt' \in [Action -> Receipt] /\ durable' \in [Action -> Receipt]
  <2>1. durable' = durable \/ durable' = [durable EXCEPT ![a] = state]
    BY DEF Settle
  <2>2. receipt' = [receipt EXCEPT ![a] = state]
    BY DEF Settle
  <2>3. QED
    BY <2>1, <2>2 DEF TypeOK
<1>5. QED
  BY <1>1, <1>2, <1>3, <1>4 DEF SettledOK

LEMMA EnqueueType ==
  ASSUME TypeOK, NEW p \in Process, NEW a \in Action, token[a] \in Lease, Enqueue(p, a)
  PROVE  /\ SettledOK'
         /\ quarantined' = quarantined /\ stuck' = stuck /\ late' \subseteq Action
<1> DEFINE g == token[a].target
<1>1. CASE \E state \in {"unknown", "invalid"} :
             Settle(p, a, state) /\ UNCHANGED <<quarantined, late, stuck>>
  BY <1>1, SettleType DEF TypeOK, Receipt
<1>2. CASE /\ queue' = [queue EXCEPT ![g] = Append(@, a)]
           /\ pc' = [pc EXCEPT ![p] = "done", ![a] = "queued"]
           /\ reading' = reading \ {p}
           /\ late' = IF g \in stuck THEN late \cup {a} ELSE late
           /\ UNCHANGED <<quarantined, stuck, receipts>>
  <2>1. g \in Generation
    BY DEF Lease
  <2>2. Append(queue[g], a) \in Seq(Action)
    BY <2>1, AppendProperties DEF TypeOK
  <2>3. queue' \in [Generation -> Seq(Action)]
    BY <1>2, <2>1, <2>2 DEF TypeOK
  <2>4. pc' \in [Process -> Stage]
    BY <1>2 DEF TypeOK, Stage
  <2>5. QED
    BY <1>2, <2>3, <2>4 DEF TypeOK, SettledOK, receipts
<1>3. QED
  BY <1>1, <1>2 DEF Enqueue

LEMMA PrunedType == TypeOK => Pruned \subseteq Generation
BY DEF TypeOK, Pruned

LEMMA CheckTabType ==
  ASSUME TypeOK, NEW p \in Process, NEW a \in Action, NEW s \in Stage, CheckTab(p, a, s)
  PROVE  pc' \in [Process -> Stage] /\ reading' \subseteq Process
<1>1. PICK t \in Stage : Goto(p, t)
  BY DEF CheckTab, Stage
<1>2. QED
  BY <1>1, GotoType

USE DEF tabs, leases, approvals, receipts, queues, judgements

LEMMA ActionTypes ==
  ASSUME IInv, NEW a \in Action,
         \/ Submit(a) \/ Refuse(a) \/ RequestApproval(a) \/ AnswerRequest(a) \/ EnqueueAction(a)
         \/ TakeTurn(a) \/ StartEffect(a) \/ EndEffect(a) \/ Timeout(a) \/ Fail(a)
         \/ RevokeAfterFault(a)
  PROVE  TypeOK'
<1> USE DEF IInv
<1> a \in Process
  OBVIOUS
<1> {"checking", "rechecking", "failing", "asking", "waiting", "running", "done"} \subseteq Stage
  BY DEF Stage
<1> {"done", "unknown", "invalid", "required"} \subseteq Receipt
  BY DEF Receipt
<1>1. CASE Submit(a)
  <2>1. pc' \in [Process -> Stage] /\ reading' \subseteq Process
    BY <1>1, CheckTabType DEF Submit
  <2>2. token' \in [Action -> Lease \cup {None}]
    BY <1>1 DEF Submit, TypeOK
  <2>3. QED
    BY <1>1, <2>1, <2>2, PrunedType DEF Submit, TypeOK
<1>2. CASE Refuse(a)
  <2>1. pc' \in [Process -> Stage] /\ reading' \subseteq Process
    BY <1>2, GotoType DEF Refuse
  <2>2. LeasesOK'
    <3>1. CASE Purge
      BY <3>1, PurgeType
    <3>2. CASE UNCHANGED leases
      BY <3>2 DEF TypeOK, LeasesOK
    <3>3. QED
      BY <1>2, <3>1, <3>2 DEF Refuse, Refused
  <2>3. QED
    BY <1>2, <2>1, <2>2 DEF Refuse, TypeOK, LeasesOK
<1>3. CASE RequestApproval(a)
  <2>1. pc' \in [Process -> Stage] /\ reading' \subseteq Process
    BY <1>3, GotoType DEF RequestApproval
  <2> DEFINE gone == Doomed(lease, NoLease)
  <2>2. approval' \in [Guarded -> ApprovalStatus] /\ context' \subseteq Guarded
    BY <1>3, ClosedType DEF RequestApproval, TypeOK, ApprovalStatus
  <2>3. receipt' \in [Action -> Receipt] /\ durable' \in [Action -> Receipt] /\ faults' \in 0..MaxFaults
    <3>1. Report({b \in gone \cap context : Open(b)}, "invalid")
      BY <1>3 DEF RequestApproval
    <3>2. QED
      BY <3>1, ReportType
  <2>4. QED
    BY <1>3, <2>1, <2>2, <2>3 DEF RequestApproval, TypeOK
<1>4. CASE AnswerRequest(a)
  <2>1. pc' \in [Process -> Stage] /\ reading' \subseteq Process
    BY <1>4, GotoType DEF AnswerRequest
  <2>2. PICK s \in {"required", "invalid"} :
          /\ receipt' = [receipt EXCEPT ![a] = s]
          /\ durable' = durable \/ durable' = [durable EXCEPT ![a] = s]
    BY <1>4 DEF AnswerRequest
  <2>3. receipt' \in [Action -> Receipt] /\ durable' \in [Action -> Receipt]
    <3>1. s \in Receipt
      OBVIOUS
    <3>2. receipt' \in [Action -> Receipt]
      BY <2>2, <3>1 DEF TypeOK
    <3>3. [durable EXCEPT ![a] = s] \in [Action -> Receipt]
      BY <3>1 DEF TypeOK
    <3>4. QED
      BY <2>2, <3>2, <3>3 DEF TypeOK
  <2>4. faults' \in 0..MaxFaults
    BY <1>4, BoundsAssumption DEF AnswerRequest, TypeOK
  <2>5. doubtful' \subseteq Guarded
    <3>1. PICK b : doubtful' = doubtful \/ (Live(a) /\ doubtful' = doubtful \cup {a})
      BY <1>4 DEF AnswerRequest
    <3>2. a \in Guarded
      BY <1>4 DEF AnswerRequest, StageInv
    <3>3. QED
      BY <3>1, <3>2 DEF TypeOK
  <2>6. QED
    BY <1>4, <2>1, <2>3, <2>4, <2>5 DEF AnswerRequest, TypeOK
<1>5. CASE EnqueueAction(a)
  <2>1. token[a] \in Lease
    BY <1>5 DEF EnqueueAction, StageInv, Idle
  <2>2. QED
    BY <1>5, <2>1, EnqueueType DEF EnqueueAction, TypeOK, SettledOK
<1>6. CASE TakeTurn(a)
  <2>1. pc' \in [Process -> Stage] /\ reading' \subseteq Process
    BY <1>6, CheckTabType DEF TakeTurn
  <2>2. QED
    BY <1>6, <2>1 DEF TakeTurn, TypeOK
<1>7. CASE StartEffect(a)
  <2>1. pc' \in [Process -> Stage] /\ reading' \subseteq Process
    BY <1>7, GotoType DEF StartEffect
  <2>2. runs' \in [Action -> Nat]
    BY <1>7 DEF StartEffect, TypeOK
  <2>3. QED
    BY <1>7, <2>1, <2>2 DEF StartEffect, TypeOK
<1>8. CASE EndEffect(a)
  <2>1. SettledOK'
    BY <1>8, SettleType DEF EndEffect
  <2>2. QED
    BY <1>8, <2>1 DEF EndEffect, TypeOK, SettledOK
<1>9. CASE Timeout(a)
  <2>1. SettledOK'
    BY <1>9, SettleType DEF Timeout
  <2>2. token[a].target \in Generation
    BY <1>9 DEF Timeout, StageInv, Idle, Lease
  <2>3. QED
    BY <1>9, <2>1, <2>2 DEF Timeout, TypeOK, SettledOK
<1>10. CASE Fail(a)
  <2>1. SettledOK'
    BY <1>10, SettleType DEF Fail
  <2>2. QED
    BY <1>10, <2>1 DEF Fail, TypeOK, SettledOK
<1>11. CASE RevokeAfterFault(a)
  <2>1. pc' \in [Process -> Stage] /\ reading' \subseteq Process
    BY <1>11, GotoType DEF RevokeAfterFault
  <2>2. LeasesOK' /\ EndingOK'
    BY <1>11, RefreshType DEF RevokeAfterFault
  <2>3. QED
    BY <1>11, <2>1, <2>2 DEF RevokeAfterFault, TypeOK, LeasesOK, EndingOK
<1>12. QED
  BY <1>1, <1>2, <1>3, <1>4, <1>5, <1>6, <1>7, <1>8, <1>9, <1>10, <1>11

LEMMA ResolverTypes ==
  ASSUME IInv, NEW r \in Resolver,
         \/ StartResolve(r) \/ DenyAction(r) \/ ApproveAction(r) \/ ResolveTooLate(r)
         \/ Consume(r) \/ ConsumeFails(r) \/ RevokeApproved(r)
  PROVE  TypeOK'
<1> USE DEF IInv
<1> DEFINE a == about[r]
<1> r \in Process
  OBVIOUS
<1> {"checking", "asserting", "failing", "done"} \subseteq Stage
  BY DEF Stage
<1>0. StartResolve(r) \/ a \in Guarded
  BY DEF StageInv, Idle, DenyAction, ApproveAction, ResolveTooLate, Consume, ConsumeFails, RevokeApproved
<1>1. CASE StartResolve(r)
  <2>1. pc' \in [Process -> Stage] /\ reading' \subseteq Process
    BY <1>1, GotoType DEF StartResolve
  <2>2. about' \in [Resolver -> Guarded \cup {None}]
    BY <1>1 DEF StartResolve, TypeOK
  <2>3. QED
    BY <1>1, <2>1, <2>2, PrunedType DEF StartResolve, TypeOK
<1>2. CASE DenyAction(r)
  <2>1. pc' \in [Process -> Stage] /\ reading' \subseteq Process
    BY <1>2, GotoType DEF DenyAction
  <2>2. receipt' \in [Action -> Receipt] /\ durable' \in [Action -> Receipt] /\ faults' \in 0..MaxFaults
    <3>1. Report({a}, "denied") /\ "denied" \in Receipt
      BY <1>2 DEF DenyAction, Receipt
    <3>2. QED
      BY <3>1, ReportType
  <2>3. approval' \in [Guarded -> ApprovalStatus]
    BY <1>2 DEF DenyAction, TypeOK, ApprovalStatus
  <2>4. a \in Guarded
    BY <1>0, <1>2 DEF StageInv, Idle, DenyAction
  <2>5. QED
    BY <1>2, <2>1, <2>2, <2>3, <2>4 DEF DenyAction, TypeOK
<1>3. CASE ApproveAction(r)
  <2>1. a \in Guarded
    BY <1>3 DEF StageInv, Idle, ApproveAction
  <2>2. pc' \in [Process -> Stage] /\ reading' \subseteq Process
    BY <1>3, <2>1, CheckTabType, ActionsAssumption DEF ApproveAction
  <2>3. approval' \in [Guarded -> ApprovalStatus]
    BY <1>3 DEF ApproveAction, TypeOK, ApprovalStatus
  <2>4. QED
    BY <1>3, <2>1, <2>2, <2>3 DEF ApproveAction, TypeOK
<1>4. CASE ResolveTooLate(r)
  <2>1. a \in Guarded
    BY <1>4 DEF StageInv, Idle, ResolveTooLate
  <2>2. pc' \in [Process -> Stage] /\ reading' \subseteq Process
    BY <1>4, GotoType DEF ResolveTooLate
  <2>3. approval' \in [Guarded -> ApprovalStatus]
    BY <1>4 DEF ResolveTooLate, TypeOK, ApprovalStatus
  <2>4. receipt' \in [Action -> Receipt] /\ durable' \in [Action -> Receipt] /\ faults' \in 0..MaxFaults
    <3>1. Report(IF Open(a) THEN {a} ELSE {}, "invalid") /\ "invalid" \in Receipt
      BY <1>4 DEF ResolveTooLate, Receipt
    <3>2. QED
      BY <3>1, ReportType
  <2>5. doubtful' \subseteq Guarded
    BY <1>4, <2>1 DEF ResolveTooLate, TypeOK
  <2>6. QED
    BY <1>4, <2>2, <2>3, <2>4, <2>5 DEF ResolveTooLate, TypeOK
<1>5. CASE Consume(r)
  <2>1. a \in Guarded /\ a \in Action
    BY <1>5, ActionsAssumption DEF StageInv, Idle, Consume
  <2>2. token[a] \in Lease
    BY <1>5, <2>1 DEF StageInv, Consume, Live
  <2>3. approval' \in [Guarded -> ApprovalStatus]
    BY <1>5 DEF Consume, TypeOK, ApprovalStatus
  <2>4. SettledOK' /\ quarantined' = quarantined /\ stuck' = stuck /\ late' \subseteq Action
    BY <1>5, <2>1, <2>2, EnqueueType DEF Consume
  <2>5. QED
    BY <1>5, <2>3, <2>4 DEF Consume, TypeOK, SettledOK
<1>6. CASE ConsumeFails(r)
  <2>1. pc' \in [Process -> Stage] /\ reading' \subseteq Process
    BY <1>6, GotoType DEF ConsumeFails
  <2>2. LeasesOK'
    <3>1. CASE Purge
      BY <3>1, PurgeType
    <3>2. CASE UNCHANGED leases
      BY <3>2 DEF TypeOK, LeasesOK
    <3>3. QED
      BY <1>6, <3>1, <3>2 DEF ConsumeFails, Refused
  <2>3. approval' \in [Guarded -> ApprovalStatus]
    BY <1>6 DEF ConsumeFails, TypeOK, ApprovalStatus
  <2>4. QED
    BY <1>6, <2>1, <2>2, <2>3 DEF ConsumeFails, TypeOK, LeasesOK
<1>7. CASE RevokeApproved(r)
  <2>1. pc' \in [Process -> Stage] /\ reading' \subseteq Process
    BY <1>7, GotoType DEF RevokeApproved
  <2>2. LeasesOK' /\ EndingOK'
    BY <1>7, RefreshType DEF RevokeApproved
  <2>3. QED
    BY <1>7, <2>1, <2>2 DEF RevokeApproved, TypeOK, LeasesOK, EndingOK
<1>8. QED
  BY <1>1, <1>2, <1>3, <1>4, <1>5, <1>6, <1>7

LEMMA OtherTypes ==
  ASSUME IInv,
         \/ \E p \in Process : Deny(p) \/ WithdrawLease(p)
         \/ \E g \in Granter : StartGrant(g) \/ Grant(g) \/ GrantFails(g)
         \/ Ask \/ RevokeLease \/ ChangeTab \/ Poll \/ Expire \/ Deactivate \/ Restart
  PROVE  TypeOK'
<1> USE DEF IInv
<1> {"checking", "failing", "aborting", "withdrawing", "lost", "new", "done"} \subseteq Stage
  BY DEF Stage
<1>1. ASSUME NEW p \in Process, Deny(p)
      PROVE  TypeOK'
  <2>1. Failed(p) \in Stage
    BY DEF Failed
  <2>2. CASE WithdrawApprovals(p)
    <3> DEFINE live == {a \in Guarded : Live(a)}
    <3>1. pc' \in [Process -> Stage] /\ reading' \subseteq Process
      <4>1. PICK s \in Stage : Goto(p, s)
        BY <2>1, <2>2 DEF WithdrawApprovals
      <4>2. QED
        BY <4>1, GotoType
    <3>2. approval' \in [Guarded -> ApprovalStatus] /\ context' \subseteq Guarded
      BY <2>2, ClosedType DEF WithdrawApprovals, TypeOK
    <3>3. receipt' \in [Action -> Receipt] /\ durable' \in [Action -> Receipt] /\ faults' \in 0..MaxFaults
      <4>1. Report({a \in (live \ overdue) \cap context : Open(a)}, "invalid") /\ "invalid" \in Receipt
        BY <2>2 DEF WithdrawApprovals, Receipt
      <4>2. QED
        BY <4>1, ReportType
    <3>4. request' \in [state : {"none", "pending", "gone"}, target : 0..MaxGeneration]
      BY <2>2 DEF WithdrawApprovals, TypeOK
    <3>5. QED
      BY <1>1, <3>1, <3>2, <3>3, <3>4 DEF Deny, TypeOK
  <2>3. CASE Fault /\ Goto(p, Failed(p)) /\ UNCHANGED <<request, approvals, receipt, durable>>
    <3>1. pc' \in [Process -> Stage] /\ reading' \subseteq Process
      BY <2>1, <2>3, GotoType
    <3>2. faults' \in 0..MaxFaults
      BY <2>3, BoundsAssumption DEF TypeOK
    <3>3. QED
      BY <1>1, <2>3, <3>1, <3>2 DEF Deny, TypeOK
  <2>4. QED
    BY <1>1, <2>2, <2>3 DEF Deny
<1>2. ASSUME NEW p \in Process, WithdrawLease(p)
      PROVE  TypeOK'
  <2>1. pc' \in [Process -> Stage] /\ reading' \subseteq Process
    <3>1. Failed(p) \in Stage
      BY DEF Failed
    <3>2. QED
      BY <1>2, <3>1, GotoType DEF WithdrawLease
  <2>2. LeasesOK' /\ EndingOK'
    <3>1. CASE lease # None /\ Revoke
      BY <3>1, RevokeType
    <3>2. CASE UNCHANGED <<leases, approvals, receipts>>
      BY <3>2 DEF TypeOK, LeasesOK, EndingOK
    <3>3. QED
      BY <1>2, <3>1, <3>2 DEF WithdrawLease
  <2>3. QED
    BY <1>2, <2>1, <2>2 DEF WithdrawLease, TypeOK, LeasesOK, EndingOK
<1>3. ASSUME NEW g \in Granter, StartGrant(g)
      PROVE  TypeOK'
  <2>1. pc' \in [Process -> Stage] /\ reading' \subseteq Process
    BY <1>3, GotoType DEF StartGrant
  <2>2. QED
    BY <1>3, <2>1, PrunedType DEF StartGrant, TypeOK
<1>4. ASSUME NEW g \in Granter, Grant(g)
      PROVE  TypeOK'
  <2>1. pc' \in [Process -> Stage] /\ reading' \subseteq Process
    BY <1>4, GotoType DEF Grant
  <2>2. request.target \in Generation
    BY <1>4, BoundsAssumption DEF Grant, OnTab, StageInv, TypeOK
  <2>3. lease' \in Lease /\ nextId' \in Nat
    <3>1. CASE lease # None /\ ~expired
      <4>1. lease \in Lease
        BY <3>1 DEF TypeOK
      <4>2. [lease EXCEPT !.revision = @ + 1] \in Lease
        BY <4>1 DEF Lease
      <4>3. lease' = [lease EXCEPT !.revision = @ + 1] /\ nextId' = nextId
        BY <1>4, <3>1 DEF Grant
      <4>4. QED
        BY <4>2, <4>3 DEF TypeOK
    <3>2. CASE ~(lease # None /\ ~expired)
      BY <1>4, <2>2, <3>2 DEF Grant, TypeOK, Lease
    <3>3. QED
      BY <3>1, <3>2
  <2>4. told' = told \cup {lease'}
    BY <1>4 DEF Grant
  <2>5. ended' \subseteq told'
    BY <1>4, <2>4 DEF Grant, TypeOK, LeaseInv
  <2>6. request' \in [state : {"none", "pending", "gone"}, target : 0..MaxGeneration]
    BY <1>4 DEF Grant, TypeOK
  <2>7. QED
    BY <1>4, <2>1, <2>3, <2>4, <2>5, <2>6 DEF Grant, TypeOK
<1>5. ASSUME NEW g \in Granter, GrantFails(g)
      PROVE  TypeOK'
  <2>1. pc' \in [Process -> Stage] /\ reading' \subseteq Process
    BY <1>5, GotoType DEF GrantFails
  <2>2. QED
    BY <1>5, <2>1 DEF GrantFails, TypeOK
<1>6. CASE Ask
  BY <1>6, PrunedType DEF Ask, TypeOK
<1>7. CASE RevokeLease
  <2>1. LeasesOK' /\ EndingOK'
    BY <1>7, RevokeType DEF RevokeLease
  <2>2. QED
    BY <1>7, <2>1, PrunedType DEF RevokeLease, TypeOK, LeasesOK, EndingOK
<1>8. CASE ChangeTab
  <2>1. LeasesOK' /\ EndingOK'
    BY <1>8, RevokeTargetType DEF ChangeTab
  <2>2. tab' \in [present : BOOLEAN, generation : 0..MaxGeneration]
    <3>1. CASE /\ tab.generation + restarts < MaxGeneration
               /\ tab' = [present |-> TRUE, generation |-> tab.generation + 1]
      BY <3>1, BoundsAssumption DEF TypeOK
    <3>2. CASE tab' = [tab EXCEPT !.present = FALSE]
      BY <3>2 DEF TypeOK
    <3>3. QED
      BY <1>8, <3>1, <3>2 DEF ChangeTab
  <2>3. QED
    BY <1>8, <2>1, <2>2, PrunedType DEF ChangeTab, TypeOK, LeasesOK, EndingOK
<1>9. CASE Poll
  <2>1. LeasesOK' /\ EndingOK'
    BY <1>9, RefreshType DEF Poll
  <2>2. QED
    BY <1>9, <2>1 DEF Poll, TypeOK, LeasesOK, EndingOK
<1>10. CASE Expire
  BY <1>10 DEF Expire, TypeOK, LeaseInv
<1>11. CASE Deactivate
  BY <1>11 DEF Deactivate, TypeOK
<1>12. CASE Restart
  <2>1. restarts' \in 0..MaxRestarts /\ tab' \in [present : BOOLEAN, generation : 0..MaxGeneration]
    BY <1>12, BoundsAssumption DEF Restart, TypeOK
  <2>2. receipt' \in [Action -> Receipt] /\ durable' \in [Action -> Receipt]
    BY <1>12 DEF Restart, TypeOK, Receipt
  <2>3. pc' \in [Process -> Stage]
    BY <1>12 DEF Restart, TypeOK
  <2>4. queue' \in [Generation -> Seq(Action)]
    BY <1>12, EmptySeq DEF Restart
  <2>5. /\ approval' \in [Guarded -> ApprovalStatus]
        /\ token' \in [Action -> Lease \cup {None}] /\ about' \in [Resolver -> Guarded \cup {None}]
    BY <1>12 DEF Restart, ApprovalStatus
  <2>6. request' \in [state : {"none", "pending", "gone"}, target : 0..MaxGeneration]
    BY <1>12, BoundsAssumption DEF Restart
  <2>7. QED
    BY <1>12, <2>1, <2>2, <2>3, <2>4, <2>5, <2>6 DEF Restart, TypeOK
<1>13. QED
  BY <1>1, <1>2, <1>3, <1>4, <1>5, <1>6, <1>7, <1>8, <1>9, <1>10, <1>11, <1>12

LEMMA TypeStep == IInv /\ [Next]_vars => TypeOK'
<1>1. ASSUME IInv, UNCHANGED vars PROVE TypeOK'
  BY <1>1 DEF IInv, TypeOK, vars
<1>2. QED
  BY <1>1, ActionTypes, ResolverTypes, OtherTypes DEF Next, Step

-----------------------------------------------------------------------------
(* Leases. *)

\* The lease leaves the store, or nothing happens to it.
Drops == UNCHANGED leases \/ (lease # None /\ Drop)

LEMMA DropsStep ==
  ASSUME TypeOK, LeaseInv, Drops, UNCHANGED tab
  PROVE  LeaseInv'
<1>1. CASE UNCHANGED leases
  BY <1>1 DEF LeaseInv, OnTab
<1>2. CASE lease # None /\ Drop
  BY <1>2 DEF LeaseInv, Drop, TypeOK
<1>3. QED
  BY <1>1, <1>2 DEF Drops

LEMMA PurgeDrops == StageInv /\ Purge => Drops
BY DEF Purge, Drops, StageInv

LEMMA LeaseStep == IInv /\ [Next]_vars => LeaseInv'
<1> SUFFICES ASSUME IInv, [Next]_vars PROVE LeaseInv'
  OBVIOUS
<1> USE DEF IInv
<1>1. CASE Drops /\ UNCHANGED tab
  BY <1>1, DropsStep
<1>2. ASSUME NEW g \in Granter, Grant(g)
      PROVE  LeaseInv'
  <2>1. OnTab(request.target)' /\ tab' = tab
    BY <1>2 DEF Grant, OnTab
  <2>2. CASE lease # None /\ ~expired
    <3>1. lease \in Lease /\ lease' = [lease EXCEPT !.revision = @ + 1]
      BY <1>2, <2>2 DEF Grant, TypeOK
    <3>2. /\ lease'.id = lease.id /\ lease'.target = lease.target
          /\ lease'.revision = lease.revision + 1 /\ lease.revision \in Nat
      BY <3>1 DEF Lease
    <3>3. lease' \notin told /\ lease' # lease
      BY <2>2, <3>2 DEF LeaseInv, TypeOK, Lease
    <3>4. told' = told \cup {lease'} /\ ended' = ended \cup {lease} /\ nextId' = nextId /\ ended \subseteq told
      BY <1>2, <2>2 DEF Grant, TypeOK
    <3>5. \A t \in told' : t.id = lease'.id => t.revision <= lease'.revision
      BY <2>2, <3>2, <3>4 DEF LeaseInv, TypeOK, Lease
    <3>6. QED
      BY <2>1, <2>2, <3>2, <3>3, <3>4, <3>5 DEF LeaseInv, OnTab
  <2>3. CASE ~(lease # None /\ ~expired)
    <3>1. lease' = [id |-> nextId, revision |-> 1, target |-> request.target] /\ nextId' = nextId + 1
      BY <1>2, <2>3 DEF Grant
    <3>2. lease' \notin told /\ \A t \in told : t.id # lease'.id
      BY <3>1 DEF LeaseInv, TypeOK, Lease
    <3>3. told' = told \cup {lease'} /\ ended' \subseteq told
      BY <1>2 DEF Grant, TypeOK, LeaseInv
    <3>4. \A t \in told' : t.id < nextId'
      BY <3>1, <3>3 DEF LeaseInv, TypeOK, Lease
    <3>5. \A t \in told' : t.id = lease'.id => t.revision <= lease'.revision
      BY <3>1, <3>2, <3>3
    <3>6. OnTab(lease.target)'
      BY <1>2, <3>1 DEF Grant, OnTab
    <3>7. QED
      BY <3>2, <3>3, <3>4, <3>5, <3>6 DEF LeaseInv
  <2>4. QED
    BY <2>2, <2>3
<1>3. CASE ChangeTab
  <2>1. CASE lease # None /\ Revoke
    BY <2>1 DEF Revoke, Drop, LeaseInv, TypeOK
  <2>2. CASE UNCHANGED leases /\ (lease = None \/ ~tab.present \/ lease.target # tab.generation)
    <3>1. lease = None
      BY <2>2 DEF LeaseInv, OnTab
    <3>2. QED
      BY <2>2, <3>1 DEF LeaseInv
  <2>3. QED
    BY <1>3, <2>1, <2>2 DEF ChangeTab, RevokeTarget
<1>4. CASE Expire
  BY <1>4 DEF Expire, LeaseInv, OnTab
<1>5. CASE Restart
  BY <1>5 DEF Restart, LeaseInv
<1>6. CASE UNCHANGED vars
  BY <1>6, <1>1 DEF vars, Drops
<1>7. ASSUME NEW a \in Action,
             \/ Submit(a) \/ Refuse(a) \/ RequestApproval(a) \/ AnswerRequest(a) \/ EnqueueAction(a)
             \/ TakeTurn(a) \/ StartEffect(a) \/ EndEffect(a) \/ Timeout(a) \/ Fail(a)
             \/ RevokeAfterFault(a)
      PROVE  Drops /\ UNCHANGED tab
  <2>1. CASE Refuse(a)
    BY <2>1, PurgeDrops DEF Refuse, Refused, Drops
  <2>2. CASE RevokeAfterFault(a)
    BY <2>2, PurgeDrops DEF RevokeAfterFault, Refresh
  <2>3. QED
    BY <1>7, <2>1, <2>2
       DEF Drops, Submit, RequestApproval, AnswerRequest, EnqueueAction, TakeTurn, StartEffect,
           EndEffect, Timeout, Fail
<1>8. ASSUME NEW r \in Resolver,
             \/ StartResolve(r) \/ DenyAction(r) \/ ApproveAction(r) \/ ResolveTooLate(r)
             \/ Consume(r) \/ ConsumeFails(r) \/ RevokeApproved(r)
      PROVE  Drops /\ UNCHANGED tab
  <2>1. CASE ConsumeFails(r)
    BY <2>1, PurgeDrops DEF ConsumeFails, Refused, Drops
  <2>2. CASE RevokeApproved(r)
    BY <2>2, PurgeDrops DEF RevokeApproved, Refresh
  <2>3. QED
    BY <1>8, <2>1, <2>2
       DEF Drops, StartResolve, DenyAction, ApproveAction, ResolveTooLate, Consume
<1>9. ASSUME \/ \E p \in Process : Deny(p) \/ WithdrawLease(p)
             \/ \E g \in Granter : StartGrant(g) \/ GrantFails(g)
             \/ Ask \/ RevokeLease \/ Poll \/ Deactivate
      PROVE  Drops /\ UNCHANGED tab
  <2>1. CASE \E p \in Process : WithdrawLease(p)
    BY <2>1 DEF WithdrawLease, Revoke, Drops
  <2>2. CASE RevokeLease
    BY <2>2 DEF RevokeLease, Revoke, Drops
  <2>3. CASE Poll
    BY <2>3, PurgeDrops DEF Poll, Refresh
  <2>4. QED
    BY <1>9, <2>1, <2>2, <2>3 DEF Drops, Deny, StartGrant, GrantFails, Ask, Deactivate
<1>10. QED
  BY <1>1, <1>2, <1>3, <1>4, <1>5, <1>6, <1>7, <1>8, <1>9 DEF Next, Step

-----------------------------------------------------------------------------
(* Progress and consent. *)

\* An action moves on without being approved, queued after approval or started.
StageMove(a) ==
    \/ pc'[a] = pc[a] \/ pc'[a] \in {"done", "lost"}
    \/ pc'[a] = "revoking" /\ token'[a] \in Lease
    \/ pc[a] \notin Begun \cup {"new"} /\ pc'[a] \in {"waiting", "withdrawing", "aborting", "failing"}
    \/ pc[a] = "new" /\ pc'[a] \in {"checking", "failing"} /\ token'[a] \in Lease
    \/ pc[a] = "queued" /\ pc'[a] = "rechecking"
    \/ pc[a] = "checking" /\ pc'[a] = "queued" /\ a \notin Guarded

TokenKept(a) == token'[a] = token[a] \/ pc[a] = "new"

ResolverMove(r) ==
    \/ pc'[r] \in Idle \/ about'[r] \in Guarded
    \/ about'[r] = about[r] /\ (pc[r] \notin Idle \/ pc'[r] = pc[r])

ApprovalMove(a) == approval'[a] = approval[a] \/ (Live(a) /\ approval'[a] \in {"expired", "revoked"})

\* A step that starts no effect and decides nothing.
Quiet ==
    /\ \A a \in Action : StageMove(a) /\ TokenKept(a)
    /\ \A r \in Resolver : ResolverMove(r)
    /\ \A a \in Guarded : ApprovalMove(a)
    /\ UNCHANGED <<runs, consented, denied>>

\* The part of StageInv that speaks of commands.
CommandInv ==
    /\ \A a \in Action : /\ pc[a] \notin Idle => token[a] \in Lease
                         /\ pc[a] = "asking" => a \in Guarded
    /\ \A a \in Guarded : Live(a) => token[a] \in Lease
    /\ \A r \in Resolver : pc[r] \notin Idle => about[r] \in Guarded

LEMMA QuietCommands == IInv /\ Quiet => CommandInv'
<1> SUFFICES ASSUME IInv, Quiet PROVE CommandInv'
  OBVIOUS
<1> USE DEF IInv
<1>1. ASSUME NEW a \in Action
      PROVE  (pc[a] \notin Idle => token[a] \in Lease)' /\ (pc[a] = "asking" => a \in Guarded)'
  BY DEF Quiet, StageMove, TokenKept, StageInv, Idle, Begun
<1>2. ASSUME NEW a \in Guarded
      PROVE  (Live(a) => token[a] \in Lease)'
  BY ActionsAssumption DEF Quiet, TokenKept, ApprovalMove, StageInv, ConsentInv, Live
<1>3. ASSUME NEW r \in Resolver
      PROVE  (pc[r] \notin Idle => about[r] \in Guarded)'
  BY DEF Quiet, ResolverMove, StageInv
<1>4. QED
  BY <1>1, <1>2, <1>3 DEF CommandInv

LEMMA QuietConsent == IInv /\ Quiet => ConsentInv'
<1> SUFFICES ASSUME IInv, Quiet PROVE ConsentInv'
  OBVIOUS
<1> USE DEF IInv
<1>1. ASSUME NEW a \in Action
      PROVE  (runs[a] <= 1 /\ (pc[a] \notin Begun => runs[a] = 0))'
  BY DEF Quiet, StageMove, ConsentInv, Begun
<1>2. ASSUME NEW a \in Guarded
      PROVE  /\ (pc[a] \in {"new", "checking"} => approval[a] = "none" /\ a \notin consented \cup denied)'
             /\ (pc[a] \in {"queued", "rechecking"} => approval[a] = "consumed")'
  <2>1. a \in Action
    BY ActionsAssumption
  <2>2. StageMove(a) /\ ApprovalMove(a) /\ UNCHANGED <<consented, denied>>
    BY <2>1 DEF Quiet
  <2>3. pc'[a] \in {"new", "checking"} => pc[a] \in {"new", "checking"}
    BY <2>2 DEF StageMove
  <2>4. pc'[a] \in {"queued", "rechecking"} => pc[a] \in {"queued", "rechecking"}
    BY <2>2 DEF StageMove
  <2>5. QED
    BY <2>2, <2>3, <2>4 DEF ApprovalMove, ConsentInv, Live
<1>3. ASSUME NEW a \in Guarded
      PROVE  /\ (approval[a] = "pending" => a \notin denied)'
             /\ (Live(a) => runs[a] = 0)'
             /\ (approval[a] \in {"approved", "consumed"} => a \in consented \ denied)'
             /\ (runs[a] > 0 => a \in consented \ denied)'
  BY DEF Quiet, ApprovalMove, ConsentInv, Live
<1>4. QED
  BY <1>1, <1>2, <1>3 DEF ConsentInv

LEMMA GotoMoves ==
  ASSUME TypeOK, NEW p \in Process, NEW s, Goto(p, s)
  PROVE  pc'[p] = s /\ \A q \in Process \ {p} : pc'[q] = pc[q]
BY DEF TypeOK, Goto

LEMMA ClosedMoves ==
  ASSUME TypeOK, NEW gone, gone \subseteq {a \in Guarded : Live(a)}, approval' = Closed(gone)
  PROVE  \A a \in Guarded : ApprovalMove(a)
BY DEF TypeOK, Closed, ApprovalMove

LEMMA RefreshMoves ==
  ASSUME TypeOK, NEW id, Refresh(id)
  PROVE  \A a \in Guarded : ApprovalMove(a)
<1>1. PICK l : approval' = Closed(Doomed(l, id))
  BY DEF Refresh, EndApprovals
<1>2. Doomed(l, id) \subseteq {a \in Guarded : Live(a)}
  BY DEF Doomed
<1>3. QED
  BY <1>1, <1>2, ClosedMoves

LEMMA RevokeMoves ==
  ASSUME TypeOK, Revoke
  PROVE  \A a \in Guarded : ApprovalMove(a)
<1>1. approval' = Closed(Doomed(None, NoLease))
  BY DEF Revoke, EndApprovals
<1>2. Doomed(None, NoLease) \subseteq {a \in Guarded : Live(a)}
  BY DEF Doomed
<1>3. QED
  BY <1>1, <1>2, ClosedMoves

LEMMA SettleMoves ==
  ASSUME TypeOK, NEW p \in Process, NEW a \in Action, NEW s, Settle(p, a, s)
  PROVE  /\ pc'[a] \in {"done", "revoking"}
         /\ p # a => pc'[p] = "done"
         /\ \A q \in Process \ {p, a} : pc'[q] = pc[q]
<1>1. PICK t \in {"done", "revoking"} : pc' = [pc EXCEPT ![p] = "done", ![a] = t]
  BY DEF Settle
<1>2. QED
  BY <1>1 DEF TypeOK

LEMMA ActionQuiet ==
  ASSUME IInv, NEW a \in Action,
         \/ Submit(a) \/ Refuse(a) \/ AnswerRequest(a) \/ EnqueueAction(a)
         \/ TakeTurn(a) \/ EndEffect(a) \/ Timeout(a) \/ Fail(a) \/ RevokeAfterFault(a)
  PROVE  Quiet
<1> USE DEF IInv
<1> a \in Process /\ pc[a] # "new" => token[a] \in Lease \/ pc[a] \in Idle
  BY DEF StageInv
<1>0. \A r \in Resolver : r # a
  BY ActionsAssumption
<1> DEFINE Others == \A q \in Process \ {a} : pc'[q] = pc[q]
<1>1. Others /\ StageMove(a) /\ TokenKept(a)
  <2>1. CASE Submit(a)
    <3>1. PICK t \in {"checking", "failing"} : Goto(a, t)
      BY <2>1 DEF Submit, CheckTab
    <3>2. token'[a] \in Lease /\ pc[a] = "new"
      BY <2>1 DEF Submit, TypeOK
    <3>3. QED
      BY <3>1, <3>2, GotoMoves DEF StageMove, TokenKept
  <2>2. CASE Refuse(a)
    <3>1. Goto(a, "failing") /\ pc[a] \notin Begun \cup {"new"} /\ token' = token
      BY <2>2 DEF Refuse, Begun
    <3>2. QED
      BY <3>1, GotoMoves DEF StageMove, TokenKept
  <2>3. CASE AnswerRequest(a)
    <3>1. Goto(a, "waiting") /\ pc[a] \notin Begun \cup {"new"} /\ token' = token
      BY <2>3 DEF AnswerRequest, Begun
    <3>2. QED
      BY <3>1, GotoMoves DEF StageMove, TokenKept
  <2>4. CASE EnqueueAction(a)
    <3>1. pc[a] = "checking" /\ a \notin Guarded /\ token' = token /\ token[a] \in Lease
      BY <2>4 DEF EnqueueAction, StageInv, Idle
    <3>2. CASE \E s : Settle(a, a, s)
      BY <3>1, <3>2, SettleMoves DEF StageMove, TokenKept
    <3>3. CASE pc' = [pc EXCEPT ![a] = "done", ![a] = "queued"]
      BY <3>1, <3>3 DEF StageMove, TokenKept, TypeOK
    <3>4. QED
      BY <2>4, <3>2, <3>3 DEF EnqueueAction, Enqueue
  <2>5. CASE TakeTurn(a)
    <3>1. PICK t \in {"rechecking", "failing"} : Goto(a, t)
      BY <2>5 DEF TakeTurn, CheckTab
    <3>2. pc[a] = "queued" /\ token' = token
      BY <2>5 DEF TakeTurn
    <3>3. QED
      BY <3>1, <3>2, GotoMoves DEF StageMove, TokenKept, Begun
  <2>6. CASE EndEffect(a) \/ Timeout(a) \/ Fail(a)
    <3>1. token' = token /\ token[a] \in Lease /\ \E s : Settle(a, a, s)
      BY <2>6 DEF EndEffect, Timeout, Fail, StageInv, Idle
    <3>2. QED
      BY <3>1, SettleMoves DEF StageMove, TokenKept
  <2>7. CASE RevokeAfterFault(a)
    <3>1. Goto(a, "done") /\ token' = token
      BY <2>7 DEF RevokeAfterFault
    <3>2. QED
      BY <3>1, GotoMoves DEF StageMove, TokenKept
  <2>8. QED
    BY <2>1, <2>2, <2>3, <2>4, <2>5, <2>6, <2>7
<1>2. /\ \A b \in Action \ {a} : token'[b] = token[b]
      /\ about' = about
      /\ UNCHANGED <<runs, consented, denied>>
  BY DEF Submit, Refuse, AnswerRequest, EnqueueAction, TakeTurn, EndEffect, Timeout, Fail,
         RevokeAfterFault, TypeOK
<1>3. \A b \in Guarded : ApprovalMove(b)
  <2>1. CASE RevokeAfterFault(a)
    BY <2>1, RefreshMoves DEF RevokeAfterFault
  <2>2. CASE approval' = approval
    BY <2>2 DEF ApprovalMove
  <2>3. QED
    BY <2>1, <2>2
       DEF Submit, Refuse, AnswerRequest, EnqueueAction, TakeTurn, EndEffect, Timeout, Fail
<1>4. \A b \in Action : StageMove(b) /\ TokenKept(b)
  BY <1>1, <1>2 DEF StageMove, TokenKept
<1>5. \A r \in Resolver : ResolverMove(r)
  BY <1>0, <1>1, <1>2 DEF ResolverMove
<1>6. QED
  BY <1>2, <1>3, <1>4, <1>5 DEF Quiet

LEMMA ResolverQuiet ==
  ASSUME IInv, NEW r \in Resolver,
         StartResolve(r) \/ ResolveTooLate(r) \/ ConsumeFails(r) \/ RevokeApproved(r)
  PROVE  Quiet
<1> USE DEF IInv
<1> r \in Process
  OBVIOUS
<1>1. \E s : Goto(r, s)
  BY DEF StartResolve, ResolveTooLate, ConsumeFails, RevokeApproved
<1>2. \A a \in Action : pc'[a] = pc[a]
  BY <1>1, GotoMoves, ActionsAssumption
<1>3. UNCHANGED <<token, runs, consented, denied>>
  BY DEF StartResolve, ResolveTooLate, ConsumeFails, RevokeApproved
<1>4. \A q \in Resolver : ResolverMove(q)
  <2>1. \A q \in Resolver \ {r} : pc'[q] = pc[q] /\ about'[q] = about[q]
    BY <1>1, GotoMoves DEF StartResolve, ResolveTooLate, ConsumeFails, RevokeApproved, TypeOK
  <2>2. ResolverMove(r)
    <3>1. CASE StartResolve(r)
      BY <3>1 DEF StartResolve, ResolverMove, TypeOK
    <3>2. CASE about' = about /\ pc[r] \notin Idle
      BY <3>2 DEF ResolverMove
    <3>3. QED
      BY <3>1, <3>2 DEF ResolveTooLate, ConsumeFails, RevokeApproved, Idle
  <2>3. QED
    BY <2>1, <2>2 DEF ResolverMove
<1>5. \A a \in Guarded : ApprovalMove(a)
  <2>1. CASE RevokeApproved(r)
    BY <2>1, RefreshMoves DEF RevokeApproved
  <2>2. CASE ResolveTooLate(r)
    BY <2>2 DEF ResolveTooLate, ApprovalMove, TypeOK
  <2>3. CASE ConsumeFails(r)
    BY <2>3 DEF ConsumeFails, ApprovalMove, TypeOK
  <2>4. CASE StartResolve(r)
    BY <2>4 DEF StartResolve, ApprovalMove
  <2>5. QED
    BY <2>1, <2>2, <2>3, <2>4
<1>6. \A a \in Action : StageMove(a) /\ TokenKept(a)
  BY <1>2, <1>3 DEF StageMove, TokenKept
<1>7. QED
  BY <1>3, <1>4, <1>5, <1>6 DEF Quiet

LEMMA OtherQuiet ==
  ASSUME IInv,
         \/ \E p \in Process : Deny(p) \/ WithdrawLease(p)
         \/ \E g \in Granter : StartGrant(g) \/ Grant(g) \/ GrantFails(g)
         \/ Ask \/ RevokeLease \/ ChangeTab \/ Poll \/ Expire \/ Deactivate \/ UNCHANGED vars
  PROVE  Quiet
<1> USE DEF IInv
<1>1. UNCHANGED <<token, about, runs, consented, denied>>
  BY DEF Deny, WithdrawLease, StartGrant, Grant, GrantFails, Ask, RevokeLease, ChangeTab, Poll,
         Expire, Deactivate, vars
<1>2. \A a \in Guarded : ApprovalMove(a)
  <2>1. CASE \E p \in Process : Deny(p)
    <3>1. approval' = approval \/ approval' = Closed({a \in Guarded : Live(a)})
      BY <2>1 DEF Deny, WithdrawApprovals
    <3>2. QED
      BY <3>1, ClosedMoves DEF ApprovalMove
  <2>2. CASE Revoke
    BY <2>2, RevokeMoves
  <2>3. CASE Poll
    BY <2>3, RefreshMoves DEF Poll
  <2>4. CASE approval' = approval
    BY <2>4 DEF ApprovalMove
  <2>5. QED
    BY <2>1, <2>2, <2>3, <2>4
       DEF WithdrawLease, StartGrant, Grant, GrantFails, Ask, RevokeLease, ChangeTab, RevokeTarget,
           Expire, Deactivate, vars
<1>3. CASE pc' = pc
  BY <1>1, <1>2, <1>3 DEF Quiet, StageMove, TokenKept, ResolverMove
<1>4. ASSUME NEW p \in Process, Deny(p) \/ WithdrawLease(p)
      PROVE  Quiet
  <2>1. PICK s \in {"done", "failing", "aborting", "withdrawing"} : Goto(p, s)
    BY <1>4 DEF Deny, WithdrawApprovals, WithdrawLease, Failed
  <2>2. pc[p] \notin Begun \cup {"new"} /\ pc[p] \notin Idle
    BY <1>4 DEF Deny, Checking, WithdrawLease, Begun, Idle
  <2>3. \A a \in Action : StageMove(a)
    BY <2>1, <2>2, GotoMoves DEF StageMove
  <2>4. \A r \in Resolver : ResolverMove(r)
    BY <1>1, <2>1, <2>2, GotoMoves DEF ResolverMove
  <2>5. QED
    BY <1>1, <1>2, <2>3, <2>4 DEF Quiet, TokenKept
<1>5. ASSUME NEW g \in Granter, StartGrant(g) \/ Grant(g) \/ GrantFails(g)
      PROVE  Quiet
  <2>1. \E s : Goto(g, s)
    BY <1>5 DEF StartGrant, Grant, GrantFails
  <2>2. \A q \in Action \cup Resolver : pc'[q] = pc[q]
    BY <2>1, GotoMoves, ActionsAssumption
  <2>3. QED
    BY <1>1, <1>2, <2>2 DEF Quiet, StageMove, TokenKept, ResolverMove
<1>6. QED
  BY <1>3, <1>4, <1>5 DEF Ask, RevokeLease, ChangeTab, Poll, Expire, Deactivate, vars

\* The steps that ask for an approval, decide it, use it or start an effect.
LEMMA RequestStep ==
  ASSUME IInv, NEW a \in Action, RequestApproval(a)
  PROVE  CommandInv' /\ ConsentInv'
<1> USE DEF IInv
<1> DEFINE gone == Doomed(lease, NoLease)
<1>1. /\ pc[a] = "checking" /\ a \in Guarded /\ Goto(a, "asking") /\ a \in Process
      /\ approval' = [Closed(gone) EXCEPT ![a] = "pending"]
      /\ UNCHANGED <<token, about, runs, consented, denied>>
  BY DEF RequestApproval
<1>2. pc'[a] = "asking" /\ \A q \in Process \ {a} : pc'[q] = pc[q]
  BY <1>1, GotoMoves
<1>3. gone \subseteq {b \in Guarded : Live(b)} /\ Closed(gone) \in [Guarded -> ApprovalStatus]
  BY ClosedType DEF Doomed
<1>4. approval'[a] = "pending" /\ \A b \in Guarded \ {a} : ApprovalMove(b)
  BY <1>1, <1>3 DEF ApprovalMove, Closed, TypeOK
<1>5. approval[a] = "none" /\ a \notin denied /\ runs[a] = 0 /\ token[a] \in Lease
  BY <1>1 DEF ConsentInv, StageInv, Begun, Idle
<1>6. \A r \in Resolver : pc'[r] = pc[r]
  BY <1>2, ActionsAssumption
<1>7. CommandInv'
  BY <1>1, <1>2, <1>4, <1>5, <1>6, ActionsAssumption DEF CommandInv, StageInv, ApprovalMove, Live, Idle
<1>8. ConsentInv'
  <2>1. ASSUME NEW b \in Guarded, b # a
        PROVE  /\ (pc[b] \in {"new", "checking"} => approval[b] = "none" /\ b \notin consented \cup denied)'
               /\ (approval[b] = "pending" => b \notin denied)'
               /\ (Live(b) => runs[b] = 0)'
               /\ (approval[b] \in {"approved", "consumed"} => b \in consented \ denied)'
               /\ (pc[b] \in {"queued", "rechecking"} => approval[b] = "consumed")'
               /\ (runs[b] > 0 => b \in consented \ denied)'
    BY <1>1, <1>2, <1>4, <2>1, ActionsAssumption DEF ConsentInv, ApprovalMove, Live
  <2>2. QED
    BY <1>1, <1>2, <1>4, <1>5, <2>1 DEF ConsentInv, Live, Begun
<1>9. QED
  BY <1>7, <1>8

LEMMA StartStep ==
  ASSUME IInv, NEW a \in Action, StartEffect(a)
  PROVE  CommandInv' /\ ConsentInv'
<1> USE DEF IInv
<1>1. /\ pc[a] = "rechecking" /\ Goto(a, "running") /\ a \in Process
      /\ runs' = [runs EXCEPT ![a] = @ + 1]
      /\ UNCHANGED <<token, about, approval, consented, denied>>
  BY DEF StartEffect
<1>2. pc'[a] = "running" /\ \A q \in Process \ {a} : pc'[q] = pc[q]
  BY <1>1, GotoMoves
<1>3. runs[a] = 0 /\ (a \in Guarded => approval[a] = "consumed" /\ a \in consented \ denied)
  BY <1>1 DEF ConsentInv, Begun
<1>4. runs'[a] = 1 /\ \A b \in Action \ {a} : runs'[b] = runs[b]
  BY <1>1, <1>3 DEF TypeOK
<1>5. CommandInv'
  BY <1>1, <1>2, ActionsAssumption DEF CommandInv, StageInv, Live, Idle
<1>6. ConsentInv'
  <2>1. \A b \in Action : (runs[b] <= 1 /\ (pc[b] \notin Begun => runs[b] = 0))'
    BY <1>2, <1>4 DEF ConsentInv, Begun
  <2>2. QED
    BY <1>1, <1>2, <1>3, <1>4, <2>1, ActionsAssumption DEF ConsentInv, Live
<1>7. QED
  BY <1>5, <1>6

LEMMA DecideStep ==
  ASSUME IInv, NEW r \in Resolver, DenyAction(r) \/ ApproveAction(r)
  PROVE  CommandInv' /\ ConsentInv'
<1> USE DEF IInv
<1> DEFINE a == about[r]
<1>1. /\ a \in Guarded /\ approval[a] = "pending" /\ r \in Process /\ pc[r] \notin Idle
      /\ UNCHANGED <<token, about, runs>>
  BY DEF DenyAction, ApproveAction, Resolvable, StageInv, Idle
<1>2. \E s : Goto(r, s)
  BY DEF DenyAction, ApproveAction, CheckTab
<1>3. \A q \in Process \ {r} : pc'[q] = pc[q]
  BY <1>1, <1>2, GotoMoves
<1>4. \A b \in Action : pc'[b] = pc[b]
  BY <1>3, ActionsAssumption
<1>5. \/ /\ approval' = [approval EXCEPT ![a] = "denied"]
         /\ denied' = denied \cup {a} /\ consented' = consented
      \/ /\ approval' = [approval EXCEPT ![a] = "approved"]
         /\ consented' = consented \cup {a} /\ denied' = denied
  BY DEF DenyAction, ApproveAction
<1>6. /\ \A b \in Guarded \ {a} : approval'[b] = approval[b]
      /\ \/ approval'[a] = "denied" /\ denied' = denied \cup {a} /\ consented' = consented
         \/ approval'[a] = "approved" /\ consented' = consented \cup {a} /\ denied' = denied
  <2>1. ASSUME NEW s, approval' = [approval EXCEPT ![a] = s]
        PROVE  approval'[a] = s /\ \A b \in Guarded \ {a} : approval'[b] = approval[b]
    BY <1>1, <2>1 DEF TypeOK
  <2>2. CASE approval' = [approval EXCEPT ![a] = "denied"] /\ denied' = denied \cup {a} /\ consented' = consented
    <3>1. approval'[a] = "denied" /\ \A b \in Guarded \ {a} : approval'[b] = approval[b]
      BY <2>1, <2>2
    <3>2. QED
      BY <2>2, <3>1
  <2>3. CASE approval' = [approval EXCEPT ![a] = "approved"] /\ consented' = consented \cup {a} /\ denied' = denied
    <3>1. approval'[a] = "approved" /\ \A b \in Guarded \ {a} : approval'[b] = approval[b]
      BY <2>1, <2>3
    <3>2. QED
      BY <2>3, <3>1
  <2>4. QED
    BY <1>5, <2>2, <2>3
<1>7. runs[a] = 0 /\ a \notin denied /\ token[a] \in Lease
      /\ pc[a] \notin {"new", "checking", "queued", "rechecking"}
  BY <1>1 DEF ConsentInv, StageInv, Live
<1>8. CommandInv'
  BY <1>1, <1>3, <1>4, <1>6, <1>7, ActionsAssumption DEF CommandInv, StageInv, Live, Idle
<1>9. ConsentInv'
  <2>1. \A b \in Action : (runs[b] <= 1 /\ (pc[b] \notin Begun => runs[b] = 0))'
    BY <1>1, <1>4 DEF ConsentInv
  <2>2. ASSUME NEW b \in Guarded, b # a
        PROVE  /\ (pc[b] \in {"new", "checking"} => approval[b] = "none" /\ b \notin consented \cup denied)'
               /\ (approval[b] = "pending" => b \notin denied)'
               /\ (Live(b) => runs[b] = 0)'
               /\ (approval[b] \in {"approved", "consumed"} => b \in consented \ denied)'
               /\ (pc[b] \in {"queued", "rechecking"} => approval[b] = "consumed")'
               /\ (runs[b] > 0 => b \in consented \ denied)'
    BY <1>1, <1>4, <1>6, <2>2, ActionsAssumption DEF ConsentInv, Live
  <2>3. /\ (approval[a] \in {"approved", "consumed"} => a \in consented \ denied)'
        /\ (approval[a] # "pending")'
    BY <1>1, <1>6, <1>7
  <2>4. QED
    BY <1>1, <1>4, <1>7, <2>1, <2>2, <2>3, ActionsAssumption DEF ConsentInv
<1>10. QED
  BY <1>8, <1>9

LEMMA ConsumeStep ==
  ASSUME IInv, NEW r \in Resolver, Consume(r)
  PROVE  CommandInv' /\ ConsentInv'
<1> USE DEF IInv
<1> DEFINE a == about[r]
<1>1. /\ a \in Guarded /\ a \in Action /\ a # r /\ approval[a] = "approved" /\ r \in Process
      /\ approval' = [approval EXCEPT ![a] = "consumed"]
      /\ UNCHANGED <<token, about, runs, consented, denied>>
  BY ActionsAssumption DEF Consume, StageInv, Idle
<1>2. /\ pc'[r] = "done" /\ pc'[a] \in {"done", "revoking", "queued"}
      /\ \A q \in Process \ {r, a} : pc'[q] = pc[q]
  <2>1. CASE \E s : Settle(r, a, s)
    BY <1>1, <2>1, SettleMoves
  <2>2. CASE pc' = [pc EXCEPT ![r] = "done", ![a] = "queued"]
    BY <1>1, <2>2 DEF TypeOK
  <2>3. QED
    BY <2>1, <2>2 DEF Consume, Enqueue
<1>3. approval'[a] = "consumed" /\ \A b \in Guarded \ {a} : approval'[b] = approval[b]
  BY <1>1 DEF TypeOK
<1>4. runs[a] = 0 /\ a \in consented \ denied /\ token[a] \in Lease
  BY <1>1 DEF ConsentInv, StageInv, Live
<1>5. \A b \in Action \ {a} : pc'[b] = pc[b]
  BY <1>2, ActionsAssumption
<1>6. CommandInv'
  <2>1. \A q \in Resolver \ {r} : pc'[q] = pc[q]
    BY <1>1, <1>2, ActionsAssumption
  <2>2. QED
    BY <1>1, <1>2, <1>3, <1>4, <1>5, <2>1, ActionsAssumption DEF CommandInv, StageInv, Live, Idle
<1>7. ConsentInv'
  <2>1. \A b \in Action : (runs[b] <= 1 /\ (pc[b] \notin Begun => runs[b] = 0))'
    BY <1>1, <1>4, <1>5 DEF ConsentInv
  <2>2. ASSUME NEW b \in Guarded, b # a
        PROVE  /\ (pc[b] \in {"new", "checking"} => approval[b] = "none" /\ b \notin consented \cup denied)'
               /\ (approval[b] = "pending" => b \notin denied)'
               /\ (Live(b) => runs[b] = 0)'
               /\ (approval[b] \in {"approved", "consumed"} => b \in consented \ denied)'
               /\ (pc[b] \in {"queued", "rechecking"} => approval[b] = "consumed")'
               /\ (runs[b] > 0 => b \in consented \ denied)'
    BY <1>1, <1>3, <1>5, <2>2, ActionsAssumption DEF ConsentInv, Live
  <2>3. QED
    BY <1>1, <1>2, <1>3, <1>4, <2>1, <2>2 DEF ConsentInv, Live
<1>8. QED
  BY <1>6, <1>7

LEMMA RestartStep ==
  ASSUME IInv, Restart
  PROVE  CommandInv' /\ ConsentInv'
<1> USE DEF IInv
<1>1. \A p \in Process : /\ pc'[p] \in Idle
                         /\ pc'[p] = "new" <=> pc[p] = "new"
  BY DEF Restart, Idle, TypeOK
<1>2. \A a \in Guarded : approval'[a] = "none"
  BY DEF Restart
<1>3. UNCHANGED <<runs, consented, denied>>
  BY DEF Restart
<1>4. CommandInv'
  BY <1>1, <1>2, ActionsAssumption DEF CommandInv, Live, Idle
<1>5. ConsentInv'
  BY <1>1, <1>2, <1>3, ActionsAssumption DEF ConsentInv, Live, Idle, Begun
<1>6. QED
  BY <1>4, <1>5

LEMMA ConsentStep == IInv /\ [Next]_vars => CommandInv' /\ ConsentInv'
<1>1. IInv /\ Quiet => CommandInv' /\ ConsentInv'
  BY QuietCommands, QuietConsent
<1>2. QED
  BY <1>1, ActionQuiet, ResolverQuiet, OtherQuiet, RequestStep, StartStep, DecideStep,
     ConsumeStep, RestartStep DEF Next, Step

\* The rest of StageInv: the tab and the clock of the lease.
LEMMA ClockStep == IInv /\ [Next]_vars => (tab.present => tab.generation >= 1)' /\ (expired => lease # None)'
<1> SUFFICES ASSUME IInv, [Next]_vars
             PROVE  (tab.present => tab.generation >= 1)' /\ (expired => lease # None)'
  OBVIOUS
<1> USE DEF IInv
<1>1. (tab.present => tab.generation >= 1)'
  <2>1. CASE ChangeTab
    <3>1. CASE tab' = [present |-> TRUE, generation |-> tab.generation + 1]
      BY <3>1 DEF TypeOK
    <3>2. CASE tab.present /\ tab' = [tab EXCEPT !.present = FALSE]
      BY <3>2 DEF TypeOK
    <3>3. QED
      BY <2>1, <3>1, <3>2 DEF ChangeTab
  <2>2. CASE Restart
    BY <2>2 DEF Restart
  <2>3. CASE tab' = tab
    BY <2>3 DEF StageInv
  <2>4. QED
    BY <2>1, <2>2, <2>3
       DEF Next, Step, vars, Submit, Refuse, RequestApproval, AnswerRequest, EnqueueAction, TakeTurn,
           StartEffect, EndEffect, Timeout, Fail, RevokeAfterFault, StartResolve, DenyAction,
           ApproveAction, ResolveTooLate, Consume, ConsumeFails, RevokeApproved, Ask, StartGrant,
           Grant, GrantFails, RevokeLease, Poll, Expire, Deactivate, Deny, WithdrawLease
<1>2. (expired => lease # None)'
  <2>1. CASE UNCHANGED leases
    BY <2>1 DEF StageInv
  <2>2. CASE Drop \/ Purge
    BY <2>2 DEF Drop, Purge, StageInv
  <2>3. CASE expired' = FALSE
    BY <2>3
  <2>4. CASE Expire
    BY <2>4 DEF Expire, StageInv
  <2>5. QED
    BY <2>1, <2>2, <2>3, <2>4
       DEF Next, Step, vars, Submit, Refuse, Refused, RequestApproval, AnswerRequest, EnqueueAction,
           TakeTurn, StartEffect, EndEffect, Timeout, Fail, RevokeAfterFault, StartResolve, DenyAction,
           ApproveAction, ResolveTooLate, Consume, ConsumeFails, RevokeApproved, Ask, StartGrant,
           Grant, GrantFails, RevokeLease, Poll, Deactivate, Deny, WithdrawLease, ChangeTab,
           RevokeTarget, Revoke, Refresh, Restart
<1>3. QED
  BY <1>1, <1>2

THEOREM Inductive == Spec => []IInv
<1>1. IInv /\ [Next]_vars => IInv'
  <2>1. IInv /\ [Next]_vars => StageInv'
    BY ConsentStep, ClockStep DEF StageInv, CommandInv
  <2>2. QED
    BY <2>1, TypeStep, LeaseStep, ConsentStep DEF IInv
<1>2. QED
  BY <1>1, InitInv, PTL DEF Spec

-----------------------------------------------------------------------------
(* Theorems. *)

\* Every reachable state of the capability leases, approvals and the tab's queue is
\* well typed.
THEOREM TypeCorrect == Spec => []TypeOK
BY Inductive, PTL DEF IInv

\* resolveApproval: whatever resolvers, grants, timeouts and restarts do, an effect
\* that needs an approval starts only after one and not after a denial, and none
\* starts twice.
THEOREM Consented == Spec => []ConsentedOnce
<1>1. IInv => ConsentedOnce
  BY ActionsAssumption DEF IInv, ConsentInv, ConsentedOnce, Started
<1>2. QED
  BY <1>1, Inductive, PTL

\* enqueueSurfaceEffect and assertSurfaceAndLease: an effect starts under a lease that
\* was handed out and has not ended, and on the very tab it was given for.
THEOREM AuthorizedEffects == Spec => Authorized
<1>1. IInv /\ [Next]_vars =>
        [\A a \in Action : runs'[a] # runs[a] => token[a] \in told \ ended /\ OnTab(token[a].target)]_vars
  <2> SUFFICES ASSUME IInv, [Next]_vars, NEW a \in Action, runs'[a] # runs[a]
               PROVE  token[a] \in told \ ended /\ OnTab(token[a].target)
    OBVIOUS
  <2>1. PICK b \in Action : StartEffect(b)
    BY DEF Next, Step, vars, Submit, Refuse, RequestApproval, AnswerRequest, EnqueueAction, TakeTurn,
           EndEffect, Timeout, Fail, RevokeAfterFault, StartResolve, DenyAction, ApproveAction,
           ResolveTooLate, Consume, ConsumeFails, RevokeApproved, Ask, StartGrant, Grant, GrantFails,
           RevokeLease, ChangeTab, Poll, Expire, Deactivate, Restart, Deny, WithdrawLease
  <2>2. b = a
    BY <2>1 DEF StartEffect, IInv, TypeOK
  <2>3. QED
    BY <2>1, <2>2 DEF StartEffect, Authorizes, IInv, LeaseInv
<1>2. QED
  BY <1>1, Inductive, PTL DEF Spec, Authorized

-----------------------------------------------------------------------------
(* Refinement: the runtime implements OneTimeConsent. *)

\* The phase of an action stays, or the action is refused.
Kept(a) == Phase(a)' = Phase(a) \/ (Phase(a) \in {"open", "consented"} /\ Phase(a)' = "refused")

LEMMA KeptMove ==
  ASSUME IInv, NEW a \in Action, runs'[a] = runs[a], a \in Guarded => ApprovalMove(a),
         pc'[a] \in {"new", "checking"} => pc[a] \in {"new", "checking"}
  PROVE  Kept(a)
<1>1. a \in Guarded /\ pc[a] \in {"new", "checking"} => approval[a] = "none"
  BY DEF IInv, ConsentInv
<1>2. CASE a \notin Guarded
  BY <1>2 DEF Kept, Phase
<1>3. CASE a \in Guarded /\ approval'[a] = approval[a]
  BY <1>1, <1>3 DEF Kept, Phase
<1>4. CASE a \in Guarded /\ Live(a) /\ approval'[a] \in {"expired", "revoked"}
  BY <1>1, <1>4 DEF Kept, Phase, Live
<1>5. QED
  BY <1>2, <1>3, <1>4 DEF ApprovalMove

LEMMA KeptRefuses == (\A a \in Action : Kept(a)) => Consents!Refuse
BY DEF Kept, Consents!Refuse

LEMMA QuietKept == IInv /\ Quiet => \A a \in Action : Kept(a)
<1> SUFFICES ASSUME IInv, Quiet, NEW a \in Action PROVE Kept(a)
  OBVIOUS
<1>1. StageMove(a) /\ runs'[a] = runs[a] /\ (a \in Guarded => ApprovalMove(a))
  BY DEF Quiet
<1>2. pc'[a] \in {"new", "checking"} => pc[a] \in {"new", "checking"}
  BY <1>1 DEF StageMove
<1>3. QED
  BY <1>1, <1>2, KeptMove

LEMMA RequestKept ==
  ASSUME IInv, NEW a \in Action, RequestApproval(a)
  PROVE  \A b \in Action : Kept(b)
<1> USE DEF IInv
<1> DEFINE gone == Doomed(lease, NoLease)
<1>1. /\ pc[a] = "checking" /\ a \in Guarded /\ Goto(a, "asking") /\ a \in Process
      /\ approval' = [Closed(gone) EXCEPT ![a] = "pending"] /\ UNCHANGED runs
  BY DEF RequestApproval
<1>2. \A b \in Action \ {a} : pc'[b] = pc[b]
  BY <1>1, GotoMoves
<1>3. gone \subseteq {b \in Guarded : Live(b)} /\ Closed(gone) \in [Guarded -> ApprovalStatus]
  BY ClosedType DEF Doomed
<1>4. approval'[a] = "pending" /\ \A b \in Guarded \ {a} : ApprovalMove(b)
  BY <1>1, <1>3 DEF ApprovalMove, Closed, TypeOK
<1>5. approval[a] = "none"
  BY <1>1 DEF ConsentInv
<1>6. Kept(a)
  BY <1>1, <1>4, <1>5 DEF Kept, Phase
<1>7. \A b \in Action \ {a} : Kept(b)
  BY <1>1, <1>2, <1>4, KeptMove
<1>8. QED
  BY <1>6, <1>7

LEMMA ConsumeKept ==
  ASSUME IInv, NEW r \in Resolver, NEW a, a = about[r], Consume(r)
  PROVE  \A b \in Action : Kept(b)
<1> USE DEF IInv
<1>1. /\ a \in Guarded /\ a \in Action /\ a # r /\ approval[a] = "approved" /\ r \in Process
      /\ approval' = [approval EXCEPT ![a] = "consumed"] /\ UNCHANGED runs
  BY ActionsAssumption DEF Consume, StageInv, Idle
<1>2. \A q \in Process \ {r, a} : pc'[q] = pc[q]
  <2>1. CASE \E s : Settle(r, a, s)
    BY <1>1, <2>1, SettleMoves
  <2>2. CASE pc' = [pc EXCEPT ![r] = "done", ![a] = "queued"]
    BY <1>1, <2>2 DEF TypeOK
  <2>3. QED
    BY <2>1, <2>2 DEF Consume, Enqueue
<1>3. approval'[a] = "consumed" /\ \A b \in Guarded \ {a} : approval'[b] = approval[b]
  BY <1>1 DEF TypeOK
<1>4. \A b \in Action \ {a} : pc'[b] = pc[b]
  BY <1>2, ActionsAssumption
<1>5. Kept(a)
  BY <1>1, <1>3 DEF Kept, Phase
<1>6. \A b \in Action \ {a} : Kept(b)
  BY <1>1, <1>3, <1>4, KeptMove DEF ApprovalMove
<1>7. QED
  BY <1>5, <1>6

LEMMA RestartKept ==
  ASSUME IInv, Restart
  PROVE  \A a \in Action : Kept(a)
<1> SUFFICES ASSUME NEW a \in Action PROVE Kept(a)
  OBVIOUS
<1> USE DEF IInv
<1>1. UNCHANGED runs /\ (a \in Guarded => approval'[a] = "none")
  BY DEF Restart
<1>2. pc'[a] \in Idle /\ (pc'[a] = "new" <=> pc[a] = "new")
  BY DEF Restart, Idle, TypeOK
<1>3. a \in Guarded /\ pc[a] = "new" => approval[a] = "none"
  BY DEF ConsentInv
<1>4. QED
  BY <1>1, <1>2, <1>3 DEF Kept, Phase, Idle

LEMMA DenyKept ==
  ASSUME IInv, NEW r \in Resolver, NEW a, a = about[r], DenyAction(r)
  PROVE  \A b \in Action : Kept(b)
<1> USE DEF IInv
<1>1. /\ a \in Guarded /\ approval[a] = "pending" /\ Goto(r, "done") /\ r \in Process
      /\ approval' = [approval EXCEPT ![a] = "denied"] /\ UNCHANGED runs
  BY DEF DenyAction, Resolvable, StageInv, Idle
<1>2. \A b \in Action : pc'[b] = pc[b]
  BY <1>1, GotoMoves, ActionsAssumption
<1>3. approval'[a] = "denied" /\ \A b \in Guarded \ {a} : approval'[b] = approval[b]
  BY <1>1 DEF TypeOK
<1>4. a \in Action => Kept(a)
  <2>1. runs[a] = 0 /\ pc[a] \notin {"new", "checking"}
    BY <1>1 DEF ConsentInv, Live
  <2>2. QED
    BY <1>1, <1>2, <1>3, <2>1 DEF Kept, Phase
<1>5. \A b \in Action \ {a} : Kept(b)
  BY <1>1, <1>2, <1>3, KeptMove DEF ApprovalMove
<1>6. QED
  BY <1>4, <1>5

LEMMA ApproveConsents ==
  ASSUME IInv, NEW r \in Resolver, NEW a, a = about[r], ApproveAction(r)
  PROVE  Consents!Consent(a)
<1> USE DEF IInv
<1>1. /\ a \in Guarded /\ a \in Action /\ approval[a] = "pending" /\ r \in Process
      /\ approval' = [approval EXCEPT ![a] = "approved"] /\ UNCHANGED runs
  BY ActionsAssumption DEF ApproveAction, Resolvable, StageInv, Idle
<1>2. PICK s : Goto(r, s)
  BY DEF ApproveAction, CheckTab
<1>3. \A b \in Action : pc'[b] = pc[b]
  BY <1>1, <1>2, GotoMoves, ActionsAssumption
<1>4. approval'[a] = "approved" /\ \A b \in Guarded \ {a} : approval'[b] = approval[b]
  BY <1>1 DEF TypeOK
<1>5. runs[a] = 0
  BY <1>1 DEF ConsentInv, Live
<1>6. Phase(a) = "open" /\ Phase(a)' = "consented"
  BY <1>1, <1>4, <1>5 DEF Phase
<1>7. \A b \in Action \ {a} : Phase(b)' = Phase(b)
  BY <1>1, <1>3, <1>4 DEF Phase
<1>8. QED
  BY <1>1, <1>6, <1>7 DEF Consents!Consent

LEMMA StartPerforms ==
  ASSUME IInv, NEW a \in Action, StartEffect(a)
  PROVE  Consents!Perform(a)
<1> USE DEF IInv
<1>1. /\ pc[a] = "rechecking" /\ Goto(a, "running") /\ a \in Process
      /\ runs' = [runs EXCEPT ![a] = @ + 1] /\ UNCHANGED approval
  BY DEF StartEffect
<1>2. \A q \in Process \ {a} : pc'[q] = pc[q]
  BY <1>1, GotoMoves
<1>3. runs[a] = 0 /\ (a \in Guarded => approval[a] = "consumed")
  BY <1>1 DEF ConsentInv, Begun
<1>4. runs'[a] = 1 /\ \A b \in Action \ {a} : runs'[b] = runs[b]
  BY <1>1, <1>3 DEF TypeOK
<1>5. Phase(a) = "consented" /\ Phase(a)' = "performed"
  BY <1>3, <1>4 DEF Phase
<1>6. \A b \in Action \ {a} : Phase(b)' = Phase(b)
  BY <1>1, <1>2, <1>4 DEF Phase
<1>7. QED
  BY <1>5, <1>6 DEF Consents!Perform

\* The runtime implements OneTimeConsent, for any actions, resolvers, grants and
\* bounds: what an action has come to for its operator is never undone.
THEOREM ImplementsOneTimeConsent == Spec => KeepsConsent
<1>1. Init => Consents!Init
  BY ActionsAssumption DEF Init, Consents!Init, Phase
<1>2. IInv /\ [Next]_vars => Consents!Next
  <2> SUFFICES ASSUME IInv, [Next]_vars PROVE Consents!Next
    OBVIOUS
  <2>1. CASE Quiet
    BY <2>1, QuietKept, KeptRefuses DEF Consents!Next
  <2>2. CASE (\E a \in Action : RequestApproval(a)) \/ (\E r \in Resolver : Consume(r) \/ DenyAction(r)) \/ Restart
    <3>1. \A a \in Action : Kept(a)
      BY <2>2, RequestKept, ConsumeKept, DenyKept, RestartKept
    <3>2. QED
      BY <3>1, KeptRefuses DEF Consents!Next
  <2>3. CASE \E r \in Resolver : ApproveAction(r)
    <3>1. PICK r \in Resolver : ApproveAction(r)
      BY <2>3
    <3>2. PICK a : a = about[r]
      OBVIOUS
    <3>3. a \in Action
      BY <3>1, <3>2, ActionsAssumption DEF ApproveAction, IInv, StageInv, Idle
    <3>4. QED
      BY <3>1, <3>2, <3>3, ApproveConsents DEF Consents!Next
  <2>4. CASE \E a \in Action : StartEffect(a)
    BY <2>4, StartPerforms DEF Consents!Next
  <2>5. QED
    BY <2>1, <2>2, <2>3, <2>4, ActionQuiet, ResolverQuiet, OtherQuiet DEF Next, Step
<1>3. QED
  BY <1>1, <1>2, Inductive, PTL DEF Spec, KeepsConsent, Consents!Spec

=============================================================================
