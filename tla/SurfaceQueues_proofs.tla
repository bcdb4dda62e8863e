------------------------ MODULE SurfaceQueues_proofs ------------------------
(***************************************************************************)
(* Proofs about the queues and the receipts of SurfaceApprovals, for any   *)
(* actions, resolvers, grants and bounds, on top of the invariant of       *)
(* SurfaceApprovals_proofs.                                                *)
(*                                                                         *)
(* OneAtATime: whoever has had its turn is the head of the queue of its    *)
(* tab (QueueInv), and what is queued after a timeout names a generation   *)
(* of the tab that is past (LateInv).  NotRunStays: an action that was     *)
(* reported not run has got to a point from which no effect starts         *)
(* (ReportInv).                                                            *)
(*                                                                         *)
(* NobodyStuck: a command under way has a step of its own or stands behind *)
(* one that has (KindInv says which stages a command comes to), and each   *)
(* has few steps (FewSteps), so that nothing is left waiting, as far as    *)
(* that can be said without ENABLED.                                       *)
(***************************************************************************)
EXTENDS SurfaceApprovals_proofs

\* Where an action that waits in a queue is.
InQueue == {"queued", "rechecking", "withdrawing", "failing", "running"}

\* Each is there once, in the queue of the tab it names, and has had its turn only
\* as the head.
WaitsIn(g) ==
    \A i \in 1..Len(queue[g]) :
        LET a == queue[g][i] IN
        /\ token[a] \in Lease /\ token[a].target = g
        /\ pc[a] \in InQueue /\ (pc[a] # "queued" => i = 1)
        /\ a \in Guarded => approval[a] = "consumed"
        /\ \A j \in 1..Len(queue[g]) : queue[g][j] = a => j = i

IsQueued(a) == \E i \in 1..Len(queue[token[a].target]) : queue[token[a].target][i] = a

QueueInv ==
    /\ \A g \in Generation : WaitsIn(g)
    /\ \A a \in Action : pc[a] \in {"queued", "rechecking", "running"} => IsQueued(a)

\* The tab has left this generation for good.
Past(g) == g <= tab.generation /\ ~OnTab(g)

\* What is queued after a timeout is for a generation of the tab that is past.
LateInv ==
    /\ \A t \in told : t.target <= tab.generation
    /\ \A a \in Action : pc[a] \notin Idle \/ (a \in Guarded /\ Live(a)) => token[a] \in told
    /\ \A g \in stuck : g <= tab.generation /\ (g \in quarantined \/ Past(g))
    /\ \A a \in late :
         /\ runs[a] = 0 /\ pc[a] \notin {"new", "checking"}
         /\ pc[a] \in {"queued", "rechecking"} => Past(token[a].target)
         /\ a \in Guarded => ~Live(a)

NotRun(a) == {receipt[a], durable[a]} \cap {"invalid", "denied"} # {}

\* Its effect may still start.
Startable(a) ==
    \/ pc[a] \in {"new", "checking", "queued", "rechecking"}
    \/ a \in Guarded /\ Live(a)

\* An action that was reported not run has not started and will not, if nothing was
\* said against that.
ReportInv ==
    /\ \A a \in Guarded :
         /\ Live(a) => pc[a] \in {"asking", "waiting"}
         /\ pc[a] = "asking" => approval[a] \in {"pending", "expired", "revoked"}
         /\ runs[a] > 0 => approval[a] \in {"none", "consumed"}
         /\ a \in context => approval[a] # "none"
    /\ \A r \in Resolver : pc[r] \notin Idle => pc[about[r]] # "asking" /\ approval[about[r]] # "none"
    /\ \A a \in Action :
         /\ durable[a] = "required" => a \in Guarded /\ pc[a] # "new"
         /\ NotRun(a) /\ a \notin doubtful \cup cut => runs[a] = 0 /\ ~Startable(a)

QInv == IInv /\ QueueInv /\ LateInv /\ ReportInv

USE DEF Process, Generation, Fault, NoFault, tabs, leases, approvals, receipts, queues, judgements

-----------------------------------------------------------------------------
(* Who changes what. *)

\* A resolver uses the approval of an action.
ConsumedBy(r, a) == Consume(r) /\ about[r] = a

\* A command moves by its own steps, and by the use of its approval.
LEMMA WhoMoves ==
  ASSUME IInv, [Next]_vars, NEW a \in Action, pc'[a] # pc[a]
  PROVE  \/ Submit(a) \/ Refuse(a) \/ RequestApproval(a) \/ AnswerRequest(a) \/ EnqueueAction(a)
         \/ TakeTurn(a) \/ StartEffect(a) \/ EndEffect(a) \/ Timeout(a) \/ Fail(a)
         \/ RevokeAfterFault(a) \/ Deny(a) \/ WithdrawLease(a)
         \/ (\E r \in Resolver : ConsumedBy(r, a)) \/ Restart
<1> USE DEF IInv
<1> a \in Process /\ pc' # pc
  OBVIOUS
<1>1. ASSUME NEW b \in Action,
             \/ Submit(b) \/ Refuse(b) \/ RequestApproval(b) \/ AnswerRequest(b) \/ TakeTurn(b)
             \/ StartEffect(b) \/ RevokeAfterFault(b)
      PROVE  a = b
  <2>1. \E s : Goto(b, s)
    BY <1>1 DEF Submit, Refuse, RequestApproval, AnswerRequest, TakeTurn, CheckTab, StartEffect, RevokeAfterFault
  <2>2. QED
    BY <2>1, GotoMoves
<1>2. ASSUME NEW b \in Action, EndEffect(b) \/ Timeout(b) \/ Fail(b) \/ EnqueueAction(b)
      PROVE  a = b
  <2>1. CASE \E s : Settle(b, b, s)
    BY <2>1, SettleMoves
  <2>2. CASE pc' = [pc EXCEPT ![b] = "done", ![b] = "queued"]
    BY <2>2 DEF TypeOK
  <2>3. QED
    BY <1>2, <2>1, <2>2 DEF EndEffect, Timeout, Fail, EnqueueAction, Enqueue
<1>3. ASSUME NEW r \in Resolver, Consume(r)
      PROVE  about[r] = a
  <2>1. about[r] \in Action /\ about[r] # r /\ a # r
    BY <1>3, ActionsAssumption DEF Consume, StageInv, Idle
  <2>2. CASE \E s : Settle(r, about[r], s)
    BY <2>1, <2>2, SettleMoves
  <2>3. CASE pc' = [pc EXCEPT ![r] = "done", ![about[r]] = "queued"]
    BY <2>1, <2>3 DEF TypeOK
  <2>4. QED
    BY <1>3, <2>2, <2>3 DEF Consume, Enqueue
<1>4. ASSUME NEW r \in Resolver,
             \/ StartResolve(r) \/ DenyAction(r) \/ ApproveAction(r) \/ ResolveTooLate(r)
             \/ ConsumeFails(r) \/ RevokeApproved(r)
      PROVE  FALSE
  <2>1. \E s : Goto(r, s)
    BY <1>4 DEF StartResolve, DenyAction, ApproveAction, CheckTab, ResolveTooLate, ConsumeFails, RevokeApproved
  <2>2. QED
    BY <2>1, GotoMoves, ActionsAssumption
<1>5. ASSUME NEW g \in Granter, StartGrant(g) \/ Grant(g) \/ GrantFails(g)
      PROVE  FALSE
  <2>1. \E s : Goto(g, s)
    BY <1>5 DEF StartGrant, Grant, GrantFails
  <2>2. QED
    BY <2>1, GotoMoves, ActionsAssumption
<1>6. ASSUME NEW p \in Process, Deny(p) \/ WithdrawLease(p)
      PROVE  a = p
  <2>1. \E s : Goto(p, s)
    BY <1>6 DEF Deny, WithdrawApprovals, WithdrawLease
  <2>2. QED
    BY <2>1, GotoMoves
<1>7. ~(Ask \/ RevokeLease \/ ChangeTab \/ Poll \/ Expire \/ Deactivate \/ UNCHANGED vars)
  BY DEF Ask, RevokeLease, ChangeTab, Poll, Expire, Deactivate, vars
<1>8. QED
  BY <1>1, <1>2, <1>3, <1>4, <1>5, <1>6, <1>7 DEF Next, Step, ConsumedBy

\* An approval ends by itself, is asked for, decided or used.
LEMMA WhoDecides ==
  ASSUME IInv, [Next]_vars, NEW a \in Guarded
  PROVE  \/ ApprovalMove(a)
         \/ RequestApproval(a) /\ approval'[a] = "pending"
         \/ approval[a] = "pending" /\ approval'[a] \in {"approved", "denied"}
              /\ \E r \in Resolver : about[r] = a /\ pc[r] = "checking"
         \/ approval[a] = "approved" /\ approval'[a] = "consumed" /\ \E r \in Resolver : ConsumedBy(r, a)
         \/ Restart
<1> USE DEF IInv
<1>1. CASE Quiet
  BY <1>1 DEF Quiet
<1>2. ASSUME NEW b \in Action, RequestApproval(b)
      PROVE  (a = b /\ approval'[a] = "pending") \/ ApprovalMove(a)
  <2> DEFINE gone == Doomed(lease, NoLease)
  <2>1. approval' = [Closed(gone) EXCEPT ![b] = "pending"] /\ gone \subseteq {c \in Guarded : Live(c)}
    BY <1>2 DEF RequestApproval, Doomed
  <2>2. Closed(gone) \in [Guarded -> ApprovalStatus]
    BY ClosedType
  <2>3. QED
    BY <2>1, <2>2 DEF ApprovalMove, Closed, TypeOK
<1>3. ASSUME NEW b \in Action, StartEffect(b)
      PROVE  ApprovalMove(a)
  BY <1>3 DEF StartEffect, ApprovalMove
<1>4. ASSUME NEW r \in Resolver, DenyAction(r) \/ ApproveAction(r)
      PROVE  \/ ApprovalMove(a)
             \/ /\ approval[a] = "pending" /\ approval'[a] \in {"approved", "denied"}
                /\ about[r] = a /\ pc[r] = "checking"
  <2>1. PICK s \in {"approved", "denied"} : approval' = [approval EXCEPT ![about[r]] = s]
    BY <1>4 DEF DenyAction, ApproveAction
  <2>2. approval[about[r]] = "pending" /\ pc[r] = "checking"
    BY <1>4 DEF DenyAction, ApproveAction, Resolvable
  <2>3. QED
    BY <2>1, <2>2 DEF ApprovalMove, TypeOK
<1>5. ASSUME NEW r \in Resolver, Consume(r)
      PROVE  \/ ApprovalMove(a)
             \/ approval[a] = "approved" /\ approval'[a] = "consumed" /\ ConsumedBy(r, a)
  BY <1>5 DEF Consume, ConsumedBy, ApprovalMove, TypeOK
<1>6. QED
  BY <1>1, <1>2, <1>3, <1>4, <1>5, ActionQuiet, ResolverQuiet, OtherQuiet DEF Next, Step

\* An approval that was used stays used, and a command keeps the lease it presents.
LEMMA Lasting ==
  ASSUME IInv, [Next]_vars, ~Restart
  PROVE  /\ \A a \in Guarded : approval[a] = "consumed" => approval'[a] = "consumed"
         /\ \A a \in Action : TokenKept(a)
<1>1. ASSUME NEW a \in Guarded, approval[a] = "consumed" PROVE approval'[a] = "consumed"
  <2>1. ~RequestApproval(a)
    BY <1>1 DEF RequestApproval, IInv, ConsentInv
  <2>2. QED
    BY <1>1, <2>1, WhoDecides DEF ApprovalMove, Live
<1>2. ASSUME NEW a \in Action PROVE TokenKept(a)
  <2>1. CASE Quiet
    BY <2>1 DEF Quiet
  <2>2. CASE token' = token
    BY <2>2 DEF TokenKept
  <2>3. QED
    BY <2>1, <2>2, ActionQuiet, ResolverQuiet, OtherQuiet
       DEF Next, Step, RequestApproval, StartEffect, DenyAction, ApproveAction, Consume
<1>3. QED
  BY <1>1, <1>2

-----------------------------------------------------------------------------
(* The queues. *)

\* An action that moves on in its queue, or is in none and does not get there.
Advances(a) ==
    \/ pc'[a] = pc[a]
    \/ pc[a] = "queued" /\ Head(queue[token[a].target]) = a /\ pc'[a] \in {"rechecking", "failing"}
    \/ pc[a] = "rechecking" /\ pc'[a] \in {"running", "withdrawing", "failing"}
    \/ pc[a] = "withdrawing" /\ pc'[a] = "failing"
    \/ pc[a] \notin InQueue /\ pc'[a] \notin {"queued", "rechecking", "running"}

\* Nobody enters a queue or leaves one.
Rests == queue' = queue /\ \A a \in Action : Advances(a)

Alone(a) == \A b \in Action \ {a} : pc'[b] = pc[b]

\* An action is done with, in the queue or not.
Leaves(a) == queue' = Left(a) /\ pc[a] # "queued" /\ pc'[a] \notin InQueue /\ Alone(a)

\* An action enters the queue.
Joins(a) ==
    /\ queue' = [queue EXCEPT ![token[a].target] = Append(@, a)]
    /\ token[a] \in Lease
    /\ pc'[a] = "queued" /\ Alone(a)
    /\ IF a \in Guarded THEN approval[a] = "approved" /\ approval'[a] = "consumed"
                         ELSE pc[a] = "checking"

LEMMA QueueMoves ==
  ASSUME IInv, [Next]_vars
  PROVE  Rests \/ (\E a \in Action : Leaves(a) \/ Joins(a)) \/ Restart
<1> USE DEF IInv
<1>1. ASSUME NEW a \in Action, EndEffect(a) \/ Timeout(a) \/ Fail(a)
      PROVE  Leaves(a)
  <2>1. pc[a] # "queued" /\ \E s : Settle(a, a, s)
    BY <1>1 DEF EndEffect, Timeout, Fail
  <2>2. queue' = Left(a)
    BY <2>1 DEF Settle
  <2>3. pc'[a] \notin InQueue /\ Alone(a)
    BY <2>1, SettleMoves DEF InQueue, Alone
  <2>4. QED
    BY <2>1, <2>2, <2>3 DEF Leaves
<1>2. ASSUME NEW a \in Action, EnqueueAction(a)
      PROVE  Leaves(a) \/ Joins(a)
  <2>1. pc[a] = "checking" /\ a \notin Guarded /\ token[a] \in Lease
    BY <1>2 DEF EnqueueAction, StageInv, Idle
  <2>2. CASE \E s : Settle(a, a, s)
    <3>1. queue' = Left(a)
      BY <2>2 DEF Settle
    <3>2. pc'[a] \notin InQueue /\ Alone(a)
      BY <2>2, SettleMoves DEF InQueue, Alone
    <3>3. QED
      BY <2>1, <3>1, <3>2 DEF Leaves
  <2>3. CASE /\ queue' = [queue EXCEPT ![token[a].target] = Append(@, a)]
             /\ pc' = [pc EXCEPT ![a] = "done", ![a] = "queued"]
    BY <2>1, <2>3 DEF Joins, Alone, TypeOK
  <2>4. QED
    BY <1>2, <2>2, <2>3 DEF EnqueueAction, Enqueue
<1>3. ASSUME NEW r \in Resolver, Consume(r)
      PROVE  Leaves(about[r]) \/ Joins(about[r])
  <2> DEFINE a == about[r]
  <2>1. /\ a \in Guarded /\ a \in Action /\ a # r /\ approval[a] = "approved" /\ pc[a] # "queued"
        /\ \A b \in Action : b # r
    BY <1>3, ActionsAssumption DEF Consume, StageInv, Idle, ConsentInv
  <2>2. CASE \E s : Settle(r, a, s)
    <3>1. queue' = Left(a)
      BY <2>2 DEF Settle
    <3>2. pc'[a] \notin InQueue /\ Alone(a)
      BY <2>1, <2>2, SettleMoves DEF InQueue, Alone
    <3>3. QED
      BY <2>1, <3>1, <3>2 DEF Leaves
  <2>3. CASE /\ queue' = [queue EXCEPT ![token[a].target] = Append(@, a)]
             /\ pc' = [pc EXCEPT ![r] = "done", ![a] = "queued"]
    <3>1. pc'[a] = "queued" /\ Alone(a)
      BY <2>1, <2>3 DEF Alone, TypeOK
    <3>2. token[a] \in Lease
      BY <2>1 DEF StageInv, Live
    <3>3. approval'[a] = "consumed"
      BY <1>3, <2>1 DEF Consume, TypeOK
    <3>4. QED
      BY <2>1, <2>3, <3>1, <3>2, <3>3 DEF Joins
  <2>4. QED
    BY <1>3, <2>2, <2>3 DEF Consume, Enqueue
<1>4. ASSUME queue' = queue,
             ~\E a \in Action : EndEffect(a) \/ Timeout(a) \/ Fail(a) \/ EnqueueAction(a),
             ~\E r \in Resolver : Consume(r),
             ~Restart,
             NEW a \in Action
      PROVE  Advances(a)
  <2>1. CASE pc'[a] = pc[a]
    BY <2>1 DEF Advances
  <2>2. CASE TakeTurn(a)
    <3>1. PICK s \in {"rechecking", "failing"} : Goto(a, s)
      BY <2>2 DEF TakeTurn, CheckTab
    <3>2. QED
      BY <2>2, <3>1, GotoMoves DEF TakeTurn, Advances
  <2>3. CASE StartEffect(a)
    BY <2>3, GotoMoves DEF StartEffect, Advances
  <2>4. CASE Refuse(a) \/ Deny(a) \/ WithdrawLease(a)
    <3>1. PICK s \in {"failing", "withdrawing", "aborting"} :
            /\ Goto(a, s)
            /\ \/ pc[a] \in {"checking", "rechecking"} /\ s # "aborting"
               \/ pc[a] \in {"withdrawing", "aborting"} /\ s = "failing"
               \/ pc[a] = "asserting"
      <4>1. CASE Refuse(a)
        BY <4>1 DEF Refuse
      <4>2. CASE WithdrawLease(a)
        BY <4>2 DEF WithdrawLease, Failed
      <4>3. CASE Deny(a)
        BY <4>3 DEF Deny, WithdrawApprovals, Checking, Failed
      <4>4. QED
        BY <2>4, <4>1, <4>2, <4>3
    <3>2. QED
      BY <3>1, GotoMoves DEF Advances, InQueue
  <2>5. CASE Submit(a) \/ RequestApproval(a) \/ AnswerRequest(a) \/ RevokeAfterFault(a)
    <3>1. PICK s \in {"checking", "failing", "asking", "waiting", "done"} : Goto(a, s)
      BY <2>5 DEF Submit, CheckTab, RequestApproval, AnswerRequest, RevokeAfterFault
    <3>2. pc[a] \in {"new", "checking", "asking", "revoking"}
      BY <2>5 DEF Submit, RequestApproval, AnswerRequest, RevokeAfterFault
    <3>3. QED
      BY <3>1, <3>2, GotoMoves DEF Advances, InQueue
  <2>6. QED
    BY <1>4, <2>1, <2>2, <2>3, <2>4, <2>5, WhoMoves DEF ConsumedBy
<1>5. CASE queue' = queue
  <2>1. \A r \in Resolver : Consume(r) => about[r] \in Action
    BY ActionsAssumption DEF Consume, StageInv, Idle
  <2>2. QED
    BY <1>1, <1>2, <1>3, <1>4, <1>5, <2>1 DEF Rests
<1>6. QED
  <2>1. \A r \in Resolver : Consume(r) => about[r] \in Action
    BY ActionsAssumption DEF Consume, StageInv, Idle
  <2>2. QED
    BY <1>1, <1>2, <1>3, <1>5, <2>1
       DEF Next, Step, vars, Submit, Refuse, RequestApproval, AnswerRequest, TakeTurn, StartEffect,
           RevokeAfterFault, StartResolve, DenyAction, ApproveAction, ResolveTooLate, ConsumeFails,
           RevokeApproved, Ask, StartGrant, Grant, GrantFails, RevokeLease, ChangeTab, Poll, Expire,
           Deactivate, Deny, WithdrawLease

LEMMA RestsKeep ==
  ASSUME IInv, QueueInv, [Next]_vars, ~Restart, Rests
  PROVE  QueueInv'
<1> USE DEF IInv
<1>1. ASSUME NEW g \in Generation
      PROVE  WaitsIn(g)'
  <2> SUFFICES ASSUME NEW i \in 1..Len(queue[g])
               PROVE  /\ token'[queue[g][i]] \in Lease /\ token'[queue[g][i]].target = g
                      /\ pc'[queue[g][i]] \in InQueue /\ (pc'[queue[g][i]] # "queued" => i = 1)
                      /\ queue[g][i] \in Guarded => approval'[queue[g][i]] = "consumed"
    BY DEF Rests, QueueInv, WaitsIn
  <2> DEFINE a == queue[g][i]
  <2>1. /\ token[a] \in Lease /\ token[a].target = g
        /\ pc[a] \in InQueue /\ (pc[a] # "queued" => i = 1)
        /\ a \in Guarded => approval[a] = "consumed"
        /\ \A j \in 1..Len(queue[g]) : queue[g][j] = a => j = i
    BY DEF QueueInv, WaitsIn
  <2>2. a \in Action /\ 1 \in 1..Len(queue[g]) /\ Head(queue[g]) = queue[g][1]
    <3>1. queue[g] \in Seq(Action)
      BY DEF TypeOK
    <3>2. QED
      BY <3>1
  <2>3. token'[a] = token[a]
    BY <2>1, <2>2, Lasting DEF TokenKept, InQueue
  <2>4. Advances(a)
    BY <2>2 DEF Rests
  <2>5. pc'[a] \in InQueue /\ (pc'[a] # "queued" => i = 1)
    BY <2>1, <2>2, <2>4 DEF Advances, InQueue
  <2>6. QED
    BY <2>1, <2>3, <2>5, Lasting
<1>2. ASSUME NEW a \in Action, pc'[a] \in {"queued", "rechecking", "running"}
      PROVE  IsQueued(a)'
  <2>1. pc[a] \in {"queued", "rechecking", "running"}
    BY <1>2 DEF Rests, Advances
  <2>2. token'[a] = token[a]
    BY <2>1, Lasting DEF TokenKept
  <2>3. QED
    BY <2>1, <2>2 DEF QueueInv, IsQueued, Rests
<1>3. QED
  BY <1>1, <1>2 DEF QueueInv

\* What is left of a queue without the action at its head.
LEMMA LeftShifts ==
  ASSUME IInv, NEW a \in Action, NEW g \in Generation
  PROVE  IF Len(queue[g]) > 0 /\ queue[g][1] = a
         THEN /\ Len(Left(a)[g]) = Len(queue[g]) - 1
              /\ \A i \in 1..Len(Left(a)[g]) : Left(a)[g][i] = queue[g][i + 1]
         ELSE Left(a)[g] = queue[g]
<1>1. queue[g] \in Seq(Action)
  BY DEF IInv, TypeOK
<1>2. QED
  BY <1>1 DEF Left

LEMMA LeavesKeeps ==
  ASSUME IInv, QueueInv, [Next]_vars, ~Restart, NEW a \in Action, Leaves(a)
  PROVE  QueueInv'
<1> USE DEF IInv
<1>1. ASSUME NEW g \in Generation, NEW i \in 1..Len(queue[g]), queue[g][i] = a
      PROVE  i = 1 /\ token[a].target = g
  BY <1>1 DEF QueueInv, WaitsIn, Leaves
<1>2. ASSUME NEW g \in Generation, NEW i \in 1..Len(queue[g]), queue[g][i] # a
      PROVE  LET b == queue[g][i] IN
             /\ b \in Action
             /\ token'[b] \in Lease /\ token'[b].target = g
             /\ pc'[b] = pc[b] /\ pc'[b] \in InQueue /\ (pc'[b] # "queued" => i = 1)
             /\ b \in Guarded => approval'[b] = "consumed"
  <2> DEFINE b == queue[g][i]
  <2>1. b \in Action
    <3>1. queue[g] \in Seq(Action)
      BY DEF TypeOK
    <3>2. QED
      BY <3>1
  <2>2. /\ token[b] \in Lease /\ token[b].target = g
        /\ pc[b] \in InQueue /\ (pc[b] # "queued" => i = 1)
        /\ b \in Guarded => approval[b] = "consumed"
    BY DEF QueueInv, WaitsIn
  <2>3. pc'[b] = pc[b]
    BY <1>2, <2>1 DEF Leaves, Alone
  <2>4. token'[b] = token[b]
    BY <2>1, <2>2, Lasting DEF TokenKept, InQueue
  <2>5. QED
    BY <2>1, <2>2, <2>3, <2>4, Lasting
<1>3. ASSUME NEW g \in Generation
      PROVE  WaitsIn(g)'
  <2>1. CASE Len(queue[g]) > 0 /\ queue[g][1] = a
    <3>1. /\ Len(queue'[g]) = Len(queue[g]) - 1
          /\ \A i \in 1..Len(queue'[g]) : queue'[g][i] = queue[g][i + 1]
      BY <2>1, LeftShifts DEF Leaves
    <3>2. Len(queue[g]) \in Nat
      BY DEF TypeOK
    <3> SUFFICES ASSUME NEW i \in 1..Len(queue'[g])
                 PROVE  LET b == queue'[g][i] IN
                        /\ token'[b] \in Lease /\ token'[b].target = g
                        /\ pc'[b] \in InQueue /\ (pc'[b] # "queued" => i = 1)
                        /\ b \in Guarded => approval'[b] = "consumed"
                        /\ \A j \in 1..Len(queue'[g]) : queue'[g][j] = b => j = i
      BY DEF WaitsIn
    <3>3. i + 1 \in 1..Len(queue[g]) /\ i + 1 # 1 /\ queue'[g][i] = queue[g][i + 1]
      BY <3>1, <3>2
    <3>4. queue[g][i + 1] # a
      BY <1>1, <3>3
    <3>5. ASSUME NEW j \in 1..Len(queue'[g]), queue'[g][j] = queue'[g][i]
          PROVE  j = i
      <4>1. j + 1 \in 1..Len(queue[g]) /\ queue[g][j + 1] = queue[g][i + 1]
        BY <3>1, <3>2, <3>5
      <4>2. j + 1 = i + 1
        BY <3>3, <4>1 DEF QueueInv, WaitsIn
      <4>3. QED
        BY <4>2
    <3>6. QED
      BY <1>2, <3>3, <3>4, <3>5
  <2>2. CASE ~(Len(queue[g]) > 0 /\ queue[g][1] = a)
    <3>1. queue'[g] = queue[g]
      BY <2>2, LeftShifts DEF Leaves
    <3>2. \A i \in 1..Len(queue[g]) : queue[g][i] # a
      <4>1. Len(queue[g]) \in Nat
        BY DEF TypeOK
      <4>2. QED
        BY <1>1, <2>2, <4>1
    <3>3. QED
      BY <1>2, <3>1, <3>2 DEF QueueInv, WaitsIn
  <2>3. QED
    BY <2>1, <2>2
<1>4. ASSUME NEW b \in Action, pc'[b] \in {"queued", "rechecking", "running"}
      PROVE  IsQueued(b)'
  <2>1. b # a
    BY <1>4 DEF Leaves, InQueue
  <2>2. pc[b] = pc'[b] /\ token'[b] = token[b]
    BY <1>4, <2>1, Lasting DEF Leaves, Alone, TokenKept
  <2> DEFINE g == token[b].target
  <2>3. PICK i \in 1..Len(queue[g]) : queue[g][i] = b
    BY <1>4, <2>2 DEF QueueInv, IsQueued
  <2>4. token[b] \in Lease /\ g \in Generation
    BY <1>4, <2>2 DEF StageInv, Idle, Lease
  <2>5. Len(queue[g]) \in Nat
    BY <2>4 DEF TypeOK
  <2>6. CASE Len(queue[g]) > 0 /\ queue[g][1] = a
    <3>1. i # 1
      BY <2>1, <2>3, <2>6
    <3>2. /\ Len(queue'[g]) = Len(queue[g]) - 1
          /\ \A j \in 1..Len(queue'[g]) : queue'[g][j] = queue[g][j + 1]
      BY <2>4, <2>6, LeftShifts DEF Leaves
    <3>3. i - 1 \in 1..Len(queue'[g]) /\ (i - 1) + 1 = i
      BY <2>5, <3>1, <3>2
    <3>4. queue'[g][i - 1] = b
      BY <2>3, <3>2, <3>3
    <3>5. QED
      BY <2>2, <3>3, <3>4 DEF IsQueued
  <2>7. CASE ~(Len(queue[g]) > 0 /\ queue[g][1] = a)
    BY <2>2, <2>3, <2>4, <2>7, LeftShifts DEF Leaves, IsQueued
  <2>8. QED
    BY <2>6, <2>7
<1>5. QED
  BY <1>3, <1>4 DEF QueueInv

LEMMA JoinsKeeps ==
  ASSUME IInv, QueueInv, [Next]_vars, ~Restart, NEW a \in Action, Joins(a)
  PROVE  QueueInv'
<1> USE DEF IInv
<1>0. PICK t \in Generation : t = token[a].target
  BY DEF Joins, Lease
<1>1. /\ queue[t] \in Seq(Action)
      /\ queue'[t] = Append(queue[t], a) /\ \A g \in Generation \ {t} : queue'[g] = queue[g]
  BY <1>0 DEF Joins, TypeOK
<1>2. Len(queue[t]) \in Nat /\ Len(queue'[t]) = Len(queue[t]) + 1 /\ queue'[t][Len(queue[t]) + 1] = a
      /\ \A i \in 1..Len(queue[t]) : queue'[t][i] = queue[t][i]
  BY <1>1
<1>3. token'[a] = token[a]
  BY Lasting, ActionsAssumption DEF TokenKept, Joins, ConsentInv
<1>4. ASSUME NEW g \in Generation, NEW i \in 1..Len(queue[g])
      PROVE  LET b == queue[g][i] IN
             /\ b # a
             /\ token'[b] \in Lease /\ token'[b].target = g
             /\ pc'[b] \in InQueue /\ (pc'[b] # "queued" => i = 1)
             /\ b \in Guarded => approval'[b] = "consumed"
  <2> DEFINE b == queue[g][i]
  <2>1. b \in Action
    <3>1. queue[g] \in Seq(Action)
      BY DEF TypeOK
    <3>2. QED
      BY <3>1
  <2>2. /\ token[b] \in Lease /\ token[b].target = g
        /\ pc[b] \in InQueue /\ (pc[b] # "queued" => i = 1)
        /\ b \in Guarded => approval[b] = "consumed"
    BY DEF QueueInv, WaitsIn
  <2>3. b # a
    BY <2>2 DEF Joins, InQueue
  <2>4. pc'[b] = pc[b] /\ token'[b] = token[b]
    BY <2>1, <2>2, <2>3, Lasting DEF Joins, Alone, TokenKept, InQueue
  <2>5. QED
    BY <2>2, <2>3, <2>4, Lasting
<1>5. ASSUME NEW g \in Generation \ {t}
      PROVE  WaitsIn(g)'
  BY <1>1, <1>4 DEF QueueInv, WaitsIn
<1>6. WaitsIn(t)'
  <2> SUFFICES ASSUME NEW i \in 1..Len(queue'[t])
               PROVE  LET b == queue'[t][i] IN
                      /\ token'[b] \in Lease /\ token'[b].target = t
                      /\ pc'[b] \in InQueue /\ (pc'[b] # "queued" => i = 1)
                      /\ b \in Guarded => approval'[b] = "consumed"
                      /\ \A j \in 1..Len(queue'[t]) : queue'[t][j] = b => j = i
    BY DEF WaitsIn
  <2>1. CASE i \in 1..Len(queue[t])
    <3>1. queue'[t][i] = queue[t][i] /\ queue[t][i] # a
      BY <1>1, <1>2, <1>4, <2>1
    <3>2. ASSUME NEW j \in 1..Len(queue'[t]), queue'[t][j] = queue'[t][i]
          PROVE  j = i
      <4>1. j \in 1..Len(queue[t]) /\ queue[t][j] = queue[t][i]
        BY <1>2, <3>1, <3>2
      <4>2. QED
        BY <1>1, <2>1, <4>1 DEF QueueInv, WaitsIn
    <3>3. QED
      BY <1>1, <1>4, <2>1, <3>1, <3>2
  <2>2. CASE i = Len(queue[t]) + 1
    <3>1. queue'[t][i] = a
      BY <1>2, <2>2
    <3>2. ASSUME NEW j \in 1..Len(queue'[t]), queue'[t][j] = a
          PROVE  j = i
      <4>1. j \notin 1..Len(queue[t])
        BY <1>1, <1>2, <1>4, <3>2
      <4>2. QED
        BY <1>2, <2>2, <4>1
    <3>3. QED
      BY <1>0, <1>3, <3>1, <3>2 DEF Joins, InQueue
  <2>3. QED
    BY <1>2, <2>1, <2>2
<1>7. ASSUME NEW b \in Action, pc'[b] \in {"queued", "rechecking", "running"}
      PROVE  IsQueued(b)'
  <2>1. CASE b = a
    <3>1. Len(queue[t]) + 1 \in 1..Len(queue'[t])
      BY <1>2
    <3>2. QED
      BY <1>0, <1>2, <1>3, <2>1, <3>1 DEF IsQueued
  <2>2. CASE b # a
    <3>1. pc[b] = pc'[b] /\ token'[b] = token[b] /\ token[b] \in Lease
      BY <1>7, <2>2, Lasting DEF Joins, Alone, TokenKept, StageInv, Idle
    <3> DEFINE g == token[b].target
    <3>2. PICK i \in 1..Len(queue[g]) : queue[g][i] = b
      BY <1>7, <3>1 DEF QueueInv, IsQueued
    <3>3. g \in Generation
      BY <3>1 DEF Lease
    <3>4. CASE g = t
      <4>1. i \in 1..Len(queue'[t]) /\ queue'[t][i] = b
        BY <1>2, <3>2, <3>4
      <4>2. QED
        BY <3>1, <3>4, <4>1 DEF IsQueued
    <3>5. CASE g # t
      <4>1. queue'[g] = queue[g]
        BY <1>1, <3>3, <3>5
      <4>2. QED
        BY <3>1, <3>2, <4>1 DEF IsQueued
    <3>6. QED
      BY <3>4, <3>5
  <2>3. QED
    BY <2>1, <2>2
<1>8. QED
  BY <1>5, <1>6, <1>7 DEF QueueInv

LEMMA RestartEmpties ==
  ASSUME IInv, Restart
  PROVE  QueueInv'
<1>1. \A g \in Generation : queue'[g] = <<>>
  BY DEF Restart
<1>2. \A a \in Action : pc'[a] \notin {"queued", "rechecking", "running"}
  BY DEF Restart
<1>3. QED
  BY <1>1, <1>2 DEF QueueInv, WaitsIn

LEMMA QueueStep == IInv /\ QueueInv /\ [Next]_vars => QueueInv'
BY QueueMoves, RestsKeep, LeavesKeeps, JoinsKeeps, RestartEmpties

-----------------------------------------------------------------------------
(* What is queued late. *)

\* The tab goes on to new generations, and no lease is forgotten.
LEMMA TabMoves ==
  ASSUME IInv, [Next]_vars, ~Restart
  PROVE  tab.generation <= tab'.generation /\ (\A g \in Nat : Past(g) => Past(g)') /\ told \subseteq told'
<1> USE DEF IInv
<1>1. tab.generation \in Nat /\ tab'.generation \in Nat
  BY TypeStep DEF TypeOK
<1>2. told \subseteq told'
  <2>1. CASE told' = told
    BY <2>1
  <2>2. QED
    BY <2>1 DEF Next, Step, vars, Submit, Refuse, Refused, RequestApproval, AnswerRequest, EnqueueAction,
           TakeTurn, StartEffect, EndEffect, Timeout, Fail, RevokeAfterFault, StartResolve, DenyAction,
           ApproveAction, ResolveTooLate, Consume, ConsumeFails, RevokeApproved, Ask, StartGrant,
           Grant, GrantFails, RevokeLease, ChangeTab, RevokeTarget, Poll, Expire, Deactivate, Deny,
           WithdrawLease, Revoke, Refresh, Purge, Drop
<1>3. CASE tab' = tab
  BY <1>1, <1>2, <1>3 DEF Past, OnTab
<1>4. CASE ChangeTab
  <2>1. \/ tab' = [present |-> TRUE, generation |-> tab.generation + 1]
        \/ tab' = [tab EXCEPT !.present = FALSE]
    BY <1>4 DEF ChangeTab
  <2>2. \/ tab'.generation = tab.generation + 1
        \/ tab'.generation = tab.generation /\ ~tab'.present
    BY <2>1 DEF TypeOK
  <2>3. \A g \in Nat : Past(g) => Past(g)'
    BY <1>1, <2>2 DEF Past, OnTab
  <2>4. QED
    BY <1>1, <1>2, <2>2, <2>3
<1>5. QED
  BY <1>3, <1>4
     DEF Next, Step, vars, Submit, Refuse, RequestApproval, AnswerRequest, EnqueueAction, TakeTurn,
         StartEffect, EndEffect, Timeout, Fail, RevokeAfterFault, StartResolve, DenyAction,
         ApproveAction, ResolveTooLate, Consume, ConsumeFails, RevokeApproved, Ask, StartGrant,
         Grant, GrantFails, RevokeLease, Poll, Expire, Deactivate, Deny, WithdrawLease

\* A step quarantines a queue that a timeout has just hit, or drops idle quarantined
\* queues of generations that are gone.
LEMMA StuckMoves ==
  ASSUME IInv, [Next]_vars, ~Restart
  PROVE  \/ UNCHANGED <<stuck, quarantined>>
         \/ UNCHANGED stuck /\ quarantined' = Pruned
         \/ \E a \in Action : /\ pc[a] = "running"
                              /\ stuck' = stuck \cup {token[a].target}
                              /\ quarantined' = quarantined \cup {token[a].target}
<1>1. CASE \/ \E a \in Action : Submit(a)
           \/ \E r \in Resolver : StartResolve(r)
           \/ \E g \in Granter : StartGrant(g)
           \/ Ask \/ RevokeLease \/ ChangeTab
  <2>1. UNCHANGED stuck /\ quarantined' = Pruned
    BY <1>1 DEF Submit, StartResolve, StartGrant, Ask, RevokeLease, ChangeTab
  <2>2. QED
    BY <2>1
<1>2. CASE \E a \in Action : Timeout(a)
  BY <1>2 DEF Timeout
<1>3. CASE \E a \in Action : EnqueueAction(a) \/ EndEffect(a) \/ Fail(a)
  <2>1. UNCHANGED <<stuck, quarantined>>
    BY <1>3 DEF EnqueueAction, Enqueue, EndEffect, Fail
  <2>2. QED
    BY <2>1
<1>4. CASE \E r \in Resolver : Consume(r)
  <2>1. UNCHANGED <<stuck, quarantined>>
    BY <1>4 DEF Consume, Enqueue
  <2>2. QED
    BY <2>1
<1>5. CASE ~\/ \E a \in Action : Submit(a) \/ Timeout(a) \/ EnqueueAction(a) \/ EndEffect(a) \/ Fail(a)
            \/ \E r \in Resolver : StartResolve(r) \/ Consume(r)
            \/ \E g \in Granter : StartGrant(g)
            \/ Ask \/ RevokeLease \/ ChangeTab
  <2>1. UNCHANGED <<stuck, quarantined>>
    BY <1>5
       DEF Next, Step, vars, Refuse, RequestApproval, AnswerRequest, TakeTurn, StartEffect, RevokeAfterFault,
           DenyAction, ApproveAction, ResolveTooLate, ConsumeFails, RevokeApproved, Grant, GrantFails,
           Poll, Expire, Deactivate, Deny, WithdrawLease
  <2>2. QED
    BY <2>1
<1>6. QED
  BY <1>1, <1>2, <1>3, <1>4, <1>5

\* Only what enters a queue can be late.
LEMMA LateMoves ==
  ASSUME IInv, [Next]_vars, NEW a \in late', a \notin late
  PROVE  /\ a \in Action /\ Joins(a) /\ token[a].target \in stuck \ quarantined
         /\ UNCHANGED <<runs, tab, stuck>>
<1> USE DEF IInv
<1>1. CASE late' = late
  BY <1>1
<1>2. ASSUME NEW b \in Action, EnqueueAction(b)
      PROVE  /\ a \in Action /\ Joins(a) /\ token[a].target \in stuck \ quarantined
             /\ UNCHANGED <<runs, tab, stuck>>
  <2>1. pc[b] = "checking" /\ b \notin Guarded /\ token[b] \in Lease
    BY <1>2 DEF EnqueueAction, StageInv, Idle
  <2>2. /\ queue' = [queue EXCEPT ![token[b].target] = Append(@, b)]
        /\ pc' = [pc EXCEPT ![b] = "done", ![b] = "queued"]
        /\ a = b /\ token[b].target \in stuck \ quarantined /\ UNCHANGED <<runs, tab, stuck>>
    BY <1>2 DEF EnqueueAction, Enqueue
  <2>3. Joins(b)
    BY <2>1, <2>2 DEF Joins, Alone, TypeOK
  <2>4. QED
    BY <2>2, <2>3
<1>3. ASSUME NEW r \in Resolver, Consume(r)
      PROVE  /\ a \in Action /\ Joins(a) /\ token[a].target \in stuck \ quarantined
             /\ UNCHANGED <<runs, tab, stuck>>
  <2> DEFINE b == about[r]
  <2>1. /\ b \in Guarded /\ b \in Action /\ b # r /\ approval[b] = "approved"
        /\ \A c \in Action : c # r
    BY <1>3, ActionsAssumption DEF Consume, StageInv, Idle
  <2>2. /\ queue' = [queue EXCEPT ![token[b].target] = Append(@, b)]
        /\ pc' = [pc EXCEPT ![r] = "done", ![b] = "queued"]
        /\ a = b /\ token[b].target \in stuck \ quarantined /\ UNCHANGED <<runs, tab, stuck>>
    BY <1>3 DEF Consume, Enqueue
  <2>3. pc'[b] = "queued" /\ Alone(b)
    BY <2>1, <2>2 DEF Alone, TypeOK
  <2>4. token[b] \in Lease /\ approval'[b] = "consumed"
    BY <1>3, <2>1 DEF StageInv, Live, Consume, TypeOK
  <2>5. QED
    BY <2>1, <2>2, <2>3, <2>4 DEF Joins
<1>4. QED
  BY <1>1, <1>2, <1>3
     DEF Next, Step, vars, Submit, Refuse, RequestApproval, AnswerRequest, TakeTurn, StartEffect,
         EndEffect, Timeout, Fail, RevokeAfterFault, StartResolve, DenyAction, ApproveAction,
         ResolveTooLate, ConsumeFails, RevokeApproved, Ask, StartGrant, Grant, GrantFails,
         RevokeLease, ChangeTab, Poll, Expire, Deactivate, Deny, WithdrawLease, Restart

\* An effect is started by the turn of its action.
LEMMA WhoStarts ==
  ASSUME IInv, [Next]_vars, NEW a \in Action, runs'[a] # runs[a]
  PROVE  StartEffect(a)
<1> USE DEF IInv
<1>1. PICK b \in Action : StartEffect(b)
  BY DEF Next, Step, vars, Submit, Refuse, RequestApproval, AnswerRequest, EnqueueAction, TakeTurn,
         EndEffect, Timeout, Fail, RevokeAfterFault, StartResolve, DenyAction, ApproveAction,
         ResolveTooLate, Consume, ConsumeFails, RevokeApproved, Ask, StartGrant, Grant, GrantFails,
         RevokeLease, ChangeTab, Poll, Expire, Deactivate, Deny, WithdrawLease, Restart
<1>2. a = b
  BY <1>1 DEF StartEffect, TypeOK
<1>3. QED
  BY <1>1, <1>2

\* Leases and quarantines name generations that have been.
LEMMA StuckStep ==
  ASSUME IInv, LateInv, [Next]_vars, ~Restart
  PROVE  /\ \A t \in told' : t.target <= tab'.generation
         /\ \A a \in Action : (pc[a] \notin Idle \/ (a \in Guarded /\ Live(a)))' => token'[a] \in told'
         /\ \A g \in stuck' : g <= tab'.generation /\ (g \in quarantined' \/ Past(g)')
<1> USE DEF IInv
<1>1. tab.generation \in Nat /\ tab'.generation \in Nat /\ told' \subseteq Lease
  BY TypeStep DEF TypeOK
<1>2. ASSUME NEW t \in told'
      PROVE  t.target <= tab'.generation
  <2>1. CASE t \in told
    <3>1. t.target \in Nat /\ t.target <= tab.generation
      BY <1>1, <2>1 DEF LateInv, TypeOK, Lease
    <3>2. QED
      BY <1>1, <3>1, TabMoves
  <2>2. ASSUME NEW g \in Granter, Grant(g)
        PROVE  t.target <= tab'.generation
    <3> DEFINE renewed == lease # None /\ ~expired
    <3>1. CASE renewed
      <4>1. told' = told \cup {[lease EXCEPT !.revision = @ + 1]} /\ tab' = tab
        BY <2>2, <3>1 DEF Grant
      <4>2. lease \in told
        BY <3>1 DEF LeaseInv
      <4>3. [lease EXCEPT !.revision = @ + 1].target = lease.target
        BY <4>2 DEF TypeOK, Lease
      <4>4. QED
        BY <4>1, <4>2, <4>3 DEF LateInv
    <3>2. CASE ~renewed
      <4>1. /\ told' = told \cup {[id |-> nextId, revision |-> 1, target |-> request.target]}
            /\ OnTab(request.target) /\ tab' = tab
        BY <2>2, <3>2 DEF Grant
      <4>2. QED
        BY <1>1, <4>1 DEF LateInv, OnTab
    <3>3. QED
      BY <3>1, <3>2
  <2>3. CASE told' \subseteq told
    BY <2>1, <2>3
  <2>4. QED
    BY <2>2, <2>3 DEF Next, Step, vars, Submit, Refuse, Refused, RequestApproval, AnswerRequest, EnqueueAction,
         TakeTurn, StartEffect, EndEffect, Timeout, Fail, RevokeAfterFault, StartResolve, DenyAction,
         ApproveAction, ResolveTooLate, Consume, ConsumeFails, RevokeApproved, Ask, StartGrant,
         GrantFails, RevokeLease, ChangeTab, RevokeTarget, Poll, Expire, Deactivate, Deny,
         WithdrawLease, Revoke, Refresh, Purge, Drop
<1>3. ASSUME NEW a \in Action, (pc[a] \notin Idle \/ (a \in Guarded /\ Live(a)))'
      PROVE  token'[a] \in told'
  <2>1. CASE Submit(a)
    <3>1. \E t \in told : token' = [token EXCEPT ![a] = t]
      BY <2>1 DEF Submit
    <3>2. QED
      BY <3>1, TabMoves DEF TypeOK
  <2>2. CASE ~Submit(a)
    <3>1. pc[a] \notin Idle \/ (a \in Guarded /\ Live(a))
      <4>1. CASE a \in Guarded /\ Live(a)'
        BY <4>1, WhoDecides DEF ApprovalMove, RequestApproval, Live, Idle
      <4>2. CASE pc'[a] \notin Idle /\ pc'[a] # pc[a]
        BY <2>2, <4>2, WhoMoves
           DEF Refuse, RequestApproval, AnswerRequest, EnqueueAction, TakeTurn, StartEffect, EndEffect,
               Timeout, Fail, RevokeAfterFault, Deny, Checking, WithdrawLease, ConsumedBy, Consume,
               StageInv, Idle, Live
      <4>3. QED
        BY <1>3, <4>1, <4>2
    <3>2. token[a] \in told
      BY <3>1 DEF LateInv
    <3>3. pc[a] # "new"
      BY <3>1 DEF Idle, ConsentInv, Live
    <3>4. QED
      BY <3>2, <3>3, Lasting, TabMoves DEF TokenKept
  <2>3. QED
    BY <2>1, <2>2
<1>4. ASSUME NEW g \in stuck'
      PROVE  g <= tab'.generation /\ (g \in quarantined' \/ Past(g)')
  <2>0. g \in Nat
    BY TypeStep DEF TypeOK
  <2>1. CASE g \in stuck
    <3>1. g <= tab.generation /\ (g \in quarantined \/ Past(g))
      BY <2>1 DEF LateInv
    <3>2. g <= tab'.generation
      BY <1>1, <2>0, <3>1, TabMoves
    <3>3. g \in quarantined' \/ Past(g)
      BY <3>1, StuckMoves DEF Pruned, Past
    <3>4. QED
      BY <2>0, <3>2, <3>3, TabMoves
  <2>2. CASE g \notin stuck
    <3>1. PICK a \in Action : pc[a] = "running" /\ g = token[a].target /\ g \in quarantined'
      BY <2>2, StuckMoves
    <3>2. token[a] \in told
      BY <3>1 DEF LateInv, Idle
    <3>3. g <= tab.generation
      BY <3>1, <3>2 DEF LateInv
    <3>4. QED
      BY <1>1, <2>0, <3>1, <3>3, TabMoves
  <2>3. QED
    BY <2>1, <2>2
<1>5. QED
  BY <1>2, <1>3, <1>4

\* No effect starts on a generation of the tab that is past.
LEMMA LateStep == IInv /\ LateInv /\ [Next]_vars => LateInv'
<1> SUFFICES ASSUME IInv, LateInv, [Next]_vars PROVE LateInv'
  OBVIOUS
<1> USE DEF IInv
<1>1. CASE Restart
  <2>1. told' = {} /\ stuck' = {} /\ runs' = runs /\ late' = late
    BY <1>1 DEF Restart
  <2>2. \A p \in Process : pc'[p] \in Idle
    BY <1>1 DEF Restart, Idle
  <2>3. \A a \in late : pc'[a] \in {"done", "lost"}
    BY <1>1 DEF Restart, LateInv, TypeOK
  <2>4. \A a \in Guarded : ~Live(a)'
    BY <1>1 DEF Restart, Live
  <2>5. QED
    BY <2>1, <2>2, <2>3, <2>4 DEF LateInv
<1>2. CASE ~Restart
  <2>1. ASSUME NEW a \in late'
        PROVE  /\ runs'[a] = 0 /\ pc'[a] \notin {"new", "checking"}
               /\ pc'[a] \in {"queued", "rechecking"} => token'[a].target <= tab'.generation /\ ~OnTab(token[a].target)'
               /\ a \in Guarded => ~Live(a)'
    <3>0. a \in Action
      BY TypeStep DEF TypeOK
    <3>1. CASE a \in late
      <4>1. /\ runs[a] = 0 /\ pc[a] \notin {"new", "checking"}
            /\ pc[a] \in {"queued", "rechecking"} => Past(token[a].target)
            /\ a \in Guarded => ~Live(a)
        BY <3>1 DEF LateInv
      <4>2. token'[a] = token[a]
        BY <1>2, <3>0, <4>1, Lasting DEF TokenKept
      <4>3. ~StartEffect(a)
        <5>1. ASSUME StartEffect(a) PROVE FALSE
          <6>1. OnTab(token[a].target) /\ pc[a] = "rechecking"
            BY <5>1 DEF StartEffect, Authorizes, LeaseInv
          <6>2. QED
            BY <4>1, <6>1 DEF Past
        <5>2. QED
          BY <5>1
      <4>4. runs'[a] = 0
        BY <3>0, <4>1, <4>3, WhoStarts
      <4>5. a \in Guarded => ~Live(a)'
        BY <1>2, <4>1, WhoDecides DEF ApprovalMove, RequestApproval, Live
      <4>6. /\ pc'[a] \notin {"new", "checking"}
            /\ pc'[a] \in {"queued", "rechecking"} => pc[a] \in {"queued", "rechecking"}
        <5>1. ~(Submit(a) \/ RequestApproval(a) \/ AnswerRequest(a) \/ EnqueueAction(a)) \/ pc[a] = "asking"
          BY <4>1 DEF Submit, RequestApproval, AnswerRequest, EnqueueAction
        <5>2. \A r \in Resolver : ~ConsumedBy(r, a)
          BY <4>1 DEF ConsumedBy, Consume, StageInv, Idle, Live
        <5>3. CASE \E s \in {"failing", "rechecking", "running", "done", "waiting", "withdrawing", "aborting"} :
                     Goto(a, s) /\ (s = "rechecking" => pc[a] = "queued")
          BY <3>0, <5>3, GotoMoves
        <5>4. CASE \E s : Settle(a, a, s)
          BY <3>0, <5>4, SettleMoves
        <5>5. CASE pc'[a] = pc[a]
          BY <4>1, <5>5
        <5>6. QED
          BY <1>2, <3>0, <4>1, <5>1, <5>2, <5>3, <5>4, <5>5, WhoMoves
             DEF Submit, Refuse, RequestApproval, EnqueueAction, AnswerRequest, TakeTurn, CheckTab, StartEffect, EndEffect, Timeout, Fail,
                 RevokeAfterFault, Deny, WithdrawApprovals, WithdrawLease, Failed
      <4>7. QED
        <5>1. CASE pc'[a] \in {"queued", "rechecking"}
          <6>1. Past(token[a].target) /\ token[a].target \in Nat
            BY <3>0, <4>1, <4>6, <5>1 DEF StageInv, Idle, Lease
          <6>2. PICK g \in Nat : g = token[a].target
            BY <6>1
          <6>3. Past(g)'
            BY <1>2, <6>1, <6>2, TabMoves
          <6>4. QED
            BY <4>2, <4>4, <4>5, <4>6, <6>2, <6>3 DEF Past, OnTab
        <5>2. QED
          BY <4>4, <4>5, <4>6, <5>1
    <3>2. CASE a \notin late
      <4>1. /\ Joins(a) /\ token[a].target \in stuck \ quarantined
            /\ UNCHANGED <<runs, tab, stuck>>
        BY <3>2, LateMoves
      <4>2. Past(token[a].target)
        BY <4>1 DEF LateInv
      <4>3. token'[a] = token[a]
        BY <1>2, <3>0, <4>1, Lasting, ActionsAssumption DEF TokenKept, Joins, ConsentInv
      <4>4. runs[a] = 0 /\ (a \in Guarded => ~Live(a)')
        BY <3>0, <4>1 DEF Joins, ConsentInv, Begun, Live
      <4>5. QED
        BY <4>1, <4>2, <4>3, <4>4 DEF Joins, Past, OnTab
    <3>3. QED
      BY <3>1, <3>2
  <2>2. QED
    BY <1>2, <2>1, StuckStep DEF LateInv, Past, OnTab
<1>3. QED
  BY <1>1, <1>2

-----------------------------------------------------------------------------
(* What is reported. *)

\* What cannot start any more does not become able to.
LEMMA StartableStep ==
  ASSUME IInv, [Next]_vars, NEW a \in Action, Startable(a)'
  PROVE  Startable(a)
<1> USE DEF IInv
<1>1. CASE a \in Guarded /\ Live(a)'
  <2>1. ~Restart
    BY <1>1 DEF Restart, Live
  <2>2. QED
    BY <1>1, <2>1, WhoDecides DEF ApprovalMove, RequestApproval, Startable, Live
<1>2. CASE pc'[a] = pc[a] /\ pc'[a] \in {"new", "checking", "queued", "rechecking"}
  BY <1>2 DEF Startable
<1>3. CASE pc'[a] # pc[a] /\ pc'[a] \in {"new", "checking", "queued", "rechecking"}
  <2>1. CASE Submit(a) \/ Refuse(a) \/ RequestApproval(a) \/ EnqueueAction(a) \/ TakeTurn(a) \/ StartEffect(a)
    BY <2>1 DEF Submit, Refuse, RequestApproval, EnqueueAction, TakeTurn, StartEffect, Startable
  <2>2. CASE AnswerRequest(a) \/ RevokeAfterFault(a) \/ WithdrawLease(a) \/ Deny(a)
    <3>1. PICK s \in {"waiting", "done", "failing", "aborting", "withdrawing"} : Goto(a, s)
      BY <2>2 DEF AnswerRequest, RevokeAfterFault, WithdrawLease, Deny, WithdrawApprovals, Failed
    <3>2. QED
      BY <1>3, <3>1, GotoMoves
  <2>3. CASE EndEffect(a) \/ Timeout(a) \/ Fail(a)
    <3>1. \E s : Settle(a, a, s)
      BY <2>3 DEF EndEffect, Timeout, Fail
    <3>2. QED
      BY <1>3, <3>1, SettleMoves
  <2>4. ASSUME NEW r \in Resolver, ConsumedBy(r, a)
        PROVE  Startable(a)
    BY <2>4 DEF ConsumedBy, Consume, Startable, Live, StageInv, Idle
  <2>5. CASE Restart
    BY <1>3, <2>5 DEF Restart, TypeOK
  <2>6. QED
    BY <1>3, <2>1, <2>2, <2>3, <2>4, <2>5, WhoMoves
<1>4. QED
  BY <1>1, <1>2, <1>3 DEF Startable

\* A resolver begins with an approval it has found, and stays with it.
LEMMA WhoResolves ==
  ASSUME IInv, [Next]_vars, NEW r \in Resolver, pc'[r] \notin Idle
  PROVE  StartResolve(r) \/ (pc[r] \notin Idle /\ about'[r] = about[r] /\ ~Restart)
<1> USE DEF IInv
<1>0. r \in Process /\ r \notin Action /\ r \notin Granter
  BY ActionsAssumption
<1>1. ~Restart
  BY DEF Restart, Idle
<1>2. CASE StartResolve(r)
  BY <1>2
<1>3. ASSUME NEW q \in Resolver, StartResolve(q), q # r
      PROVE  pc'[r] = pc[r] /\ about'[r] = about[r]
  BY <1>3, GotoMoves DEF StartResolve, TypeOK
<1>4. CASE ~\E q \in Resolver : StartResolve(q)
  <2>1. about' = about
    BY <1>1, <1>4
       DEF Next, Step, vars, Submit, Refuse, RequestApproval, AnswerRequest, EnqueueAction, TakeTurn,
           StartEffect, EndEffect, Timeout, Fail, RevokeAfterFault, DenyAction, ApproveAction,
           ResolveTooLate, Consume, ConsumeFails, RevokeApproved, Ask, StartGrant, Grant, GrantFails,
           RevokeLease, ChangeTab, Poll, Expire, Deactivate, Deny, WithdrawLease
  <2>2. pc[r] \notin Idle
    <3>1. CASE pc'[r] = pc[r]
      BY <3>1
    <3>2. CASE DenyAction(r) \/ ApproveAction(r) \/ ResolveTooLate(r) \/ Consume(r) \/ ConsumeFails(r)
               \/ RevokeApproved(r) \/ Deny(r) \/ WithdrawLease(r)
      BY <3>2 DEF DenyAction, ApproveAction, ResolveTooLate, Consume, ConsumeFails, RevokeApproved,
                  Deny, Checking, WithdrawLease, Idle
    <3>3. ASSUME NEW p \in Process \ {r}, \E s : Goto(p, s)
          PROVE  pc'[r] = pc[r]
      BY <3>3, GotoMoves
    <3>4. ASSUME NEW p \in Process \ {r}, NEW a \in Action,
                 \/ \E s : Settle(p, a, s)
                 \/ pc' = [pc EXCEPT ![p] = "done", ![a] = "queued"]
          PROVE  pc'[r] = pc[r]
      <4>1. CASE \E s : Settle(p, a, s)
        BY <1>0, <4>1, SettleMoves
      <4>2. CASE pc' = [pc EXCEPT ![p] = "done", ![a] = "queued"]
        BY <1>0, <4>2 DEF TypeOK
      <4>3. QED
        BY <3>4, <4>1, <4>2
    <3>5. ASSUME NEW q \in Resolver, Consume(q)
          PROVE  q = r \/ pc'[r] = pc[r]
      <4>1. about[q] \in Action
        BY <3>5, ActionsAssumption DEF Consume, StageInv, Idle
      <4>2. QED
        BY <3>4, <3>5, <4>1 DEF Consume, Enqueue
    <3>6. ASSUME NEW a \in Action,
                 \/ Submit(a) \/ Refuse(a) \/ RequestApproval(a) \/ AnswerRequest(a) \/ EnqueueAction(a)
                 \/ TakeTurn(a) \/ StartEffect(a) \/ EndEffect(a) \/ Timeout(a) \/ Fail(a)
                 \/ RevokeAfterFault(a)
          PROVE  pc'[r] = pc[r]
      <4>1. CASE \E s : Goto(a, s)
        BY <1>0, <3>3, <4>1
      <4>2. CASE EndEffect(a) \/ Timeout(a) \/ Fail(a) \/ EnqueueAction(a)
        BY <1>0, <3>4, <4>2 DEF EndEffect, Timeout, Fail, EnqueueAction, Enqueue
      <4>3. QED
        BY <3>6, <4>1, <4>2
           DEF Submit, Refuse, RequestApproval, AnswerRequest, TakeTurn, StartEffect, RevokeAfterFault, CheckTab
    <3>7. ASSUME NEW q \in Resolver \ {r},
                 DenyAction(q) \/ ApproveAction(q) \/ ResolveTooLate(q) \/ ConsumeFails(q) \/ RevokeApproved(q)
          PROVE  pc'[r] = pc[r]
      <4>1. \E s : Goto(q, s)
        BY <3>7 DEF DenyAction, ApproveAction, CheckTab, ResolveTooLate, ConsumeFails, RevokeApproved
      <4>2. QED
        BY <3>3, <4>1
    <3>8. ASSUME NEW p \in Process \ {r}, Deny(p) \/ WithdrawLease(p)
          PROVE  pc'[r] = pc[r]
      <4>1. \E s : Goto(p, s)
        BY <3>8 DEF Deny, WithdrawApprovals, WithdrawLease
      <4>2. QED
        BY <3>3, <4>1
    <3>9. ASSUME NEW g \in Granter, StartGrant(g) \/ Grant(g) \/ GrantFails(g)
          PROVE  pc'[r] = pc[r]
      <4>1. \E s : Goto(g, s)
        BY <3>9 DEF StartGrant, Grant, GrantFails
      <4>2. QED
        BY <1>0, <3>3, <4>1
    <3>10. CASE Ask \/ RevokeLease \/ ChangeTab \/ Poll \/ Expire \/ Deactivate \/ UNCHANGED vars
      BY <3>1, <3>10 DEF Ask, RevokeLease, ChangeTab, Poll, Expire, Deactivate, vars
    <3>11. QED
      BY <1>1, <1>4, <3>1, <3>2, <3>5, <3>6, <3>7, <3>8, <3>9, <3>10 DEF Next, Step
  <2>3. QED
    BY <1>1, <2>1, <2>2
<1>5. QED
  BY <1>1, <1>2, <1>3, <1>4 DEF Next, Step

\* An action gets to ask by its own step.
LEMMA WhoAsks ==
  ASSUME IInv, [Next]_vars, NEW a \in Action, pc'[a] = "asking", pc[a] # "asking"
  PROVE  RequestApproval(a)
<1> USE DEF IInv
<1>0. a \in Process
  OBVIOUS
<1>1. CASE Submit(a) \/ Refuse(a) \/ AnswerRequest(a) \/ TakeTurn(a) \/ StartEffect(a) \/ RevokeAfterFault(a)
           \/ Deny(a) \/ WithdrawLease(a)
  <2>1. PICK s \in Stage \ {"asking"} : Goto(a, s)
    BY <1>1 DEF Submit, Refuse, AnswerRequest, TakeTurn, CheckTab, StartEffect, RevokeAfterFault,
                Deny, WithdrawApprovals, WithdrawLease, Failed, Stage
  <2>2. QED
    BY <1>0, <2>1, GotoMoves
<1>2. CASE EndEffect(a) \/ Timeout(a) \/ Fail(a) \/ EnqueueAction(a)
  <2>1. CASE \E s : Settle(a, a, s)
    BY <1>0, <2>1, SettleMoves
  <2>2. CASE pc' = [pc EXCEPT ![a] = "done", ![a] = "queued"]
    BY <1>0, <2>2 DEF TypeOK
  <2>3. QED
    BY <1>2, <2>1, <2>2 DEF EndEffect, Timeout, Fail, EnqueueAction, Enqueue
<1>3. ASSUME NEW r \in Resolver, ConsumedBy(r, a)
      PROVE  FALSE
  <2>1. CASE \E s : Settle(r, a, s)
    BY <1>0, <2>1, SettleMoves
  <2>2. CASE pc' = [pc EXCEPT ![r] = "done", ![a] = "queued"]
    BY <1>0, <2>2 DEF TypeOK
  <2>3. QED
    BY <1>3, <2>1, <2>2 DEF ConsumedBy, Consume, Enqueue
<1>4. ~Restart
  BY DEF Restart
<1>5. QED
  BY <1>1, <1>2, <1>3, <1>4, WhoMoves

\* An action that has been asked about moves on when it is answered or used.
LEMMA AskedMoves ==
  ASSUME IInv, ReportInv, [Next]_vars, ~Restart, NEW a \in Guarded, Live(a), pc'[a] # pc[a]
  PROVE  (AnswerRequest(a) /\ pc'[a] = "waiting") \/ \E r \in Resolver : ConsumedBy(r, a)
<1>1. a \in Action /\ a \in Process /\ pc[a] \in {"asking", "waiting"}
  BY ActionsAssumption DEF ReportInv
<1>2. AnswerRequest(a) => pc'[a] = "waiting"
  BY <1>1, GotoMoves DEF AnswerRequest, IInv
<1>3. ~(Submit(a) \/ Refuse(a) \/ RequestApproval(a) \/ EnqueueAction(a) \/ TakeTurn(a) \/ StartEffect(a)
        \/ EndEffect(a) \/ Timeout(a) \/ Fail(a) \/ RevokeAfterFault(a) \/ Deny(a) \/ WithdrawLease(a))
  BY <1>1 DEF Submit, Refuse, RequestApproval, EnqueueAction, TakeTurn, StartEffect, EndEffect, Timeout,
              Fail, RevokeAfterFault, Deny, Checking, WithdrawLease
<1>4. QED
  BY <1>1, <1>2, <1>3, WhoMoves

\* An approval that is not used ends its action.
LEMMA EndedRests ==
  ASSUME IInv, ReportInv, [Next]_vars, ~Restart, NEW a \in Guarded, Live(a),
         approval'[a] \in {"expired", "revoked", "denied"}
  PROVE  runs'[a] = 0 /\ ~Startable(a)'
<1>1. a \in Action /\ pc[a] \in {"asking", "waiting"} /\ runs[a] = 0
  BY ActionsAssumption DEF ReportInv, IInv, ConsentInv
<1>2. runs'[a] = 0
  BY <1>1, WhoStarts DEF StartEffect
<1>3. \A r \in Resolver : ~ConsumedBy(r, a)
  BY DEF ConsumedBy, Consume, IInv, TypeOK
<1>4. pc'[a] \in {"asking", "waiting"}
  BY <1>1, <1>3, AskedMoves
<1>5. QED
  BY <1>2, <1>4 DEF Startable, Live

\* What is pending was asked for, and what was asked for stays so.
LEMMA AskedStep ==
  ASSUME IInv, ReportInv, [Next]_vars, ~Restart, NEW a \in Guarded
  PROVE  /\ Live(a)' => pc'[a] \in {"asking", "waiting"}
         /\ pc'[a] = "asking" => approval'[a] \in {"pending", "expired", "revoked"}
         /\ runs'[a] > 0 => approval'[a] \in {"none", "consumed"}
         /\ approval[a] # "none" => approval'[a] # "none"
<1> USE DEF IInv
<1>0. a \in Action /\ a \in Process
  BY ActionsAssumption
<1>1. RequestApproval(a) => /\ pc[a] = "checking" /\ pc'[a] = "asking" /\ approval'[a] = "pending"
                            /\ approval[a] = "none" /\ runs[a] = 0 /\ runs' = runs
  <2>1. ASSUME RequestApproval(a)
        PROVE  /\ pc[a] = "checking" /\ pc'[a] = "asking" /\ approval[a] = "none" /\ runs[a] = 0 /\ runs' = runs
    BY <1>0, <2>1, GotoMoves DEF RequestApproval, ConsentInv, Begun
  <2>2. ASSUME RequestApproval(a)
        PROVE  approval'[a] = "pending"
    <3>1. PICK gone : approval' = [Closed(gone) EXCEPT ![a] = "pending"]
      BY <2>2 DEF RequestApproval
    <3>2. QED
      BY <3>1, ClosedType
  <2>3. QED
    BY <2>1, <2>2
<1>2. ASSUME Live(a)'
      PROVE  pc'[a] \in {"asking", "waiting"}
  <2>1. CASE Live(a)
    <3>1. \A r \in Resolver : ~ConsumedBy(r, a)
      BY <1>2 DEF ConsumedBy, Consume, TypeOK, Live
    <3>2. QED
      BY <2>1, <3>1, AskedMoves DEF ReportInv
  <2>2. CASE ~Live(a)
    BY <1>1, <1>2, <2>2, WhoDecides DEF ApprovalMove, Live
  <2>3. QED
    BY <2>1, <2>2
<1>3. ASSUME pc'[a] = "asking"
      PROVE  approval'[a] \in {"pending", "expired", "revoked"}
  <2>1. CASE pc[a] = "asking"
    BY <1>1, <2>1, WhoDecides DEF ReportInv, ApprovalMove, Idle
  <2>2. CASE pc[a] # "asking"
    <3>1. RequestApproval(a)
      BY <1>0, <1>3, <2>2, WhoAsks
    <3>2. QED
      BY <1>1, <3>1
  <2>3. QED
    BY <2>1, <2>2
<1>4. approval[a] # "none" => approval'[a] # "none"
  BY <1>1, WhoDecides DEF ApprovalMove, TypeOK
<1>5. ASSUME runs'[a] > 0
      PROVE  approval'[a] \in {"none", "consumed"}
  <2>1. CASE runs'[a] = runs[a]
    <3>1. approval[a] \in {"none", "consumed"}
      BY <1>5, <2>1 DEF ReportInv
    <3>2. CASE approval[a] = "consumed"
      BY <3>2, Lasting
    <3>3. CASE approval[a] = "none"
      BY <1>1, <1>5, <2>1, <3>3, WhoDecides DEF ApprovalMove, Live
    <3>4. QED
      BY <3>1, <3>2, <3>3
  <2>2. CASE runs'[a] # runs[a]
    <3>1. StartEffect(a)
      BY <1>0, <2>2, WhoStarts
    <3>2. approval[a] = "consumed"
      BY <3>1 DEF StartEffect, ConsentInv
    <3>3. QED
      BY <3>2, Lasting
  <2>3. QED
    BY <2>1, <2>2
<1>6. QED
  BY <1>2, <1>3, <1>4, <1>5

\* A context is remembered for an approval that is asked for.
LEMMA ContextMoves ==
  ASSUME IInv, [Next]_vars, NEW a \in context', a \notin context
  PROVE  RequestApproval(a)
<1>1. CASE \E b \in Action : RequestApproval(b)
  BY <1>1 DEF RequestApproval
<1>2. CASE ~\E b \in Action : RequestApproval(b)
  BY <1>2
     DEF Next, Step, vars, Submit, Refuse, AnswerRequest, EnqueueAction, TakeTurn, StartEffect,
         EndEffect, Timeout, Fail, RevokeAfterFault, StartResolve, DenyAction, ApproveAction,
         ResolveTooLate, Consume, ConsumeFails, RevokeApproved, Ask, StartGrant, Grant, GrantFails,
         RevokeLease, ChangeTab, RevokeTarget, Poll, Expire, Deactivate, Deny, WithdrawApprovals,
         WithdrawLease, Restart, Revoke, Refresh, EndApprovals
<1>3. QED
  BY <1>1, <1>2

\* Resolvers are about approvals that have been asked for.
LEMMA ResolversStep ==
  ASSUME IInv, ReportInv, [Next]_vars, NEW r \in Resolver, pc'[r] \notin Idle
  PROVE  pc'[about'[r]] # "asking" /\ approval'[about'[r]] # "none"
<1> USE DEF IInv
<1>1. CASE StartResolve(r)
  <2>1. PICK a \in context : pc[a] # "asking" /\ about' = [about EXCEPT ![r] = a]
    BY <1>1 DEF StartResolve
  <2>2. a \in Guarded /\ a \in Process /\ a # r /\ about'[r] = a
    BY <2>1, ActionsAssumption DEF TypeOK
  <2>3. pc'[a] = pc[a]
    BY <1>1, <2>2, GotoMoves DEF StartResolve
  <2>4. approval[a] # "none" /\ approval' = approval
    BY <1>1, <2>1, <2>2 DEF StartResolve, ReportInv
  <2>5. QED
    BY <2>1, <2>2, <2>3, <2>4
<1>2. CASE pc[r] \notin Idle /\ about'[r] = about[r] /\ ~Restart
  <2>1. PICK a \in Guarded : a = about[r]
    BY <1>2 DEF StageInv
  <2>2. pc[a] # "asking" /\ approval[a] # "none" /\ a \in Action
    BY <1>2, <2>1, ActionsAssumption DEF ReportInv
  <2>3. approval'[a] # "none"
    BY <1>2, <2>2, AskedStep
  <2>4. pc'[a] # "asking"
    <3>1. SUFFICES ASSUME pc'[a] = "asking" PROVE FALSE
      OBVIOUS
    <3>2. RequestApproval(a)
      BY <2>2, <3>1, WhoAsks
    <3>3. QED
      BY <2>2, <3>2 DEF RequestApproval, ConsentInv
  <2>5. QED
    BY <1>2, <2>1, <2>3, <2>4
<1>3. QED
  BY <1>1, <1>2, WhoResolves

\* The receipts of an action stay.
Untold(a) == receipt'[a] = receipt[a] /\ durable'[a] = durable[a]

\* It is reported not run, in the journal too or there not.
ToldNotRun(a) == durable'[a] \in {durable[a], "invalid", "denied"}

\* Its approval ends, and it is reported not run.
EndedNow(a) ==
    /\ a \in Guarded /\ Live(a) /\ approval'[a] \in {"expired", "revoked", "denied"}
    /\ ToldNotRun(a)

LEMMA ReportTells ==
  ASSUME TypeOK, NEW reported, NEW state \in {"invalid", "denied"}, Report(reported, state),
         NEW a \in Action
  PROVE  ToldNotRun(a) /\ (a \notin reported => Untold(a))
BY DEF TypeOK, Report, ToldNotRun, Untold

LEMMA EndingTells ==
  ASSUME TypeOK, NEW l, NEW id, EndApprovals(Doomed(l, id)), NEW a \in Action
  PROVE  Untold(a) \/ EndedNow(a)
<1> DEFINE gone == Doomed(l, id)
<1>1. /\ approval' = Closed(gone) /\ gone \subseteq {b \in Guarded : Live(b)}
      /\ Report({b \in gone \cap context : Open(b)}, "invalid")
  BY DEF EndApprovals, Doomed
<1>2. a \in gone \/ Untold(a)
  BY <1>1, ReportTells
<1>3. a \in gone => EndedNow(a)
  BY <1>1, ReportTells DEF EndedNow, Closed
<1>4. QED
  BY <1>2, <1>3

\* The command of an action, or of its resolver, says how it ended.
Ends(a) ==
    \/ Fail(a) \/ EnqueueAction(a)
    \/ \E r \in Resolver : ConsumedBy(r, a) \/ (ResolveTooLate(r) /\ about[r] = a)

\* Who says what has become of an action.
LEMMA WhoTells ==
  ASSUME IInv, [Next]_vars, ~Restart, NEW a \in Action
  PROVE  \/ Untold(a)
         \/ EndedNow(a)
         \/ AnswerRequest(a)
         \/ Ends(a) /\ durable'[a] \in {durable[a], "invalid", "denied", "unknown"}
         \/ receipt'[a] \in {"done", "unknown"} /\ durable'[a] \in {durable[a], "done", "unknown"}
<1> USE DEF IInv
<1>1. CASE UNCHANGED <<receipt, durable>>
  BY <1>1 DEF Untold
<1>2. CASE (\E id : Refresh(id)) \/ Revoke
  <2>1. \E l, id : EndApprovals(Doomed(l, id))
    BY <1>2 DEF Refresh, Revoke
  <2>2. QED
    BY <2>1, EndingTells
<1>3. ASSUME NEW b \in Action, RequestApproval(b)
      PROVE  Untold(a) \/ EndedNow(a)
  <2> DEFINE gone == Doomed(lease, NoLease)
  <2>1. /\ approval' = [Closed(gone) EXCEPT ![b] = "pending"] /\ gone \subseteq {c \in Guarded : Live(c)}
        /\ Report({c \in gone \cap context : Open(c)}, "invalid")
    BY <1>3 DEF RequestApproval, Doomed
  <2>2. b \notin gone
    BY <1>3, <2>1 DEF RequestApproval, ConsentInv, Live
  <2>3. a \in gone \/ Untold(a)
    BY <2>1, ReportTells
  <2>4. a \in gone => EndedNow(a)
    BY <2>1, <2>2, ReportTells DEF EndedNow, Closed
  <2>5. QED
    BY <2>3, <2>4
<1>4. ASSUME NEW p \in Process, Deny(p)
      PROVE  Untold(a) \/ EndedNow(a)
  <2> DEFINE live == {c \in Guarded : Live(c)}
  <2>1. CASE WithdrawApprovals(p)
    <3>1. approval' = Closed(live) /\ Report({c \in (live \ overdue) \cap context : Open(c)}, "invalid")
      BY <2>1 DEF WithdrawApprovals
    <3>2. a \in live \/ Untold(a)
      BY <3>1, ReportTells
    <3>3. a \in live => EndedNow(a)
      BY <3>1, ReportTells DEF EndedNow, Closed
    <3>4. QED
      BY <3>2, <3>3
  <2>2. QED
    BY <1>4, <2>1 DEF Deny, Untold
<1>5. ASSUME NEW b \in Action, AnswerRequest(b)
      PROVE  Untold(a) \/ AnswerRequest(a)
  <2>1. CASE a = b
    BY <1>5, <2>1
  <2>2. CASE a # b
    BY <1>5, <2>2 DEF AnswerRequest, Untold, TypeOK
  <2>3. QED
    BY <2>1, <2>2
<1>6. ASSUME NEW p \in Process, NEW b \in Action, NEW s, Settle(p, b, s)
      PROVE  /\ a # b => Untold(a)
             /\ a = b => receipt'[a] = s /\ durable'[a] \in {durable[a], s}
  BY <1>6 DEF Settle, Untold, TypeOK
<1>7. ASSUME NEW b \in Action, EndEffect(b) \/ Timeout(b) \/ Fail(b)
      PROVE  \/ Untold(a)
             \/ Fail(a) /\ durable'[a] \in {durable[a], "invalid"}
             \/ receipt'[a] \in {"done", "unknown"} /\ durable'[a] \in {durable[a], "done", "unknown"}
  BY <1>6, <1>7 DEF EndEffect, Timeout, Fail
<1>8. ASSUME NEW p \in Process, NEW b \in Action, Enqueue(p, b)
      PROVE  Untold(a) \/ (a = b /\ durable'[a] \in {durable[a], "unknown", "invalid"})
  <2>1. CASE UNCHANGED receipts
    BY <2>1 DEF receipts, Untold
  <2>2. QED
    BY <1>6, <1>8, <2>1 DEF Enqueue
<1>9. ASSUME NEW b \in Action, EnqueueAction(b)
      PROVE  Untold(a) \/ (EnqueueAction(a) /\ durable'[a] \in {durable[a], "unknown", "invalid"})
  BY <1>8, <1>9 DEF EnqueueAction
<1>10. ASSUME NEW r \in Resolver, Consume(r)
       PROVE  Untold(a) \/ (ConsumedBy(r, a) /\ durable'[a] \in {durable[a], "unknown", "invalid"})
  <2>1. about[r] \in Action
    BY <1>10, ActionsAssumption DEF Consume, StageInv, Idle
  <2>2. QED
    BY <1>8, <1>10, <2>1 DEF Consume, ConsumedBy
<1>11. ASSUME NEW r \in Resolver, ResolveTooLate(r)
       PROVE  Untold(a) \/ (about[r] = a /\ ToldNotRun(a))
  <2>1. Report(IF Open(about[r]) THEN {about[r]} ELSE {}, "invalid")
    BY <1>11 DEF ResolveTooLate
  <2>2. QED
    BY <2>1, ReportTells
<1>12. ASSUME NEW r \in Resolver, DenyAction(r)
       PROVE  Untold(a) \/ EndedNow(a)
  <2>1. /\ Report({about[r]}, "denied") /\ approval[about[r]] = "pending"
        /\ about[r] \in Guarded /\ approval' = [approval EXCEPT ![about[r]] = "denied"]
    BY <1>12 DEF DenyAction, Resolvable, StageInv, Idle
  <2>2. about[r] = a => EndedNow(a)
    BY <2>1, ReportTells DEF EndedNow, Live, TypeOK
  <2>3. QED
    BY <2>1, <2>2, ReportTells
<1>13. CASE ~\/ \E b \in Action : \/ RequestApproval(b) \/ AnswerRequest(b) \/ EnqueueAction(b)
                                  \/ EndEffect(b) \/ Timeout(b) \/ Fail(b)
             \/ \E r \in Resolver : DenyAction(r) \/ Consume(r) \/ ResolveTooLate(r)
             \/ \E p \in Process : Deny(p)
  <2>1. \/ UNCHANGED <<receipt, durable>> \/ Revoke \/ \E id : Refresh(id)
    BY <1>13
       DEF Next, Step, vars, receipts, Submit, Refuse, TakeTurn, StartEffect, RevokeAfterFault, StartResolve,
           ApproveAction, ConsumeFails, RevokeApproved, Ask, StartGrant, Grant, GrantFails, RevokeLease,
           ChangeTab, RevokeTarget, Poll, Expire, Deactivate, WithdrawLease
  <2>2. QED
    BY <1>1, <1>2, <2>1
<1>14. QED
  BY <1>3, <1>4, <1>5, <1>7, <1>9, <1>10, <1>11, <1>12, <1>13 DEF Ends, ToldNotRun

\* What says that an action was not run says so for good.
LEMMA NotRunStep ==
  ASSUME QInv, [Next]_vars, NEW a \in Action, NotRun(a)', a \notin doubtful' \cup cut'
  PROVE  runs'[a] = 0 /\ ~Startable(a)'
<1> USE DEF QInv, IInv
<1>0. doubtful \subseteq doubtful' /\ cut \subseteq cut'
  BY DEF Next, Step, vars, judgements, Submit, Refuse, RequestApproval, AnswerRequest, EnqueueAction, TakeTurn, StartEffect,
         EndEffect, Timeout, Fail, RevokeAfterFault, StartResolve, DenyAction, ApproveAction,
         ResolveTooLate, Consume, ConsumeFails, RevokeApproved, Ask, StartGrant, Grant, GrantFails,
         RevokeLease, ChangeTab, Poll, Expire, Deactivate, Deny, WithdrawLease, Restart
<1>1. CASE NotRun(a)
  <2>1. runs[a] = 0 /\ ~Startable(a)
    BY <1>0, <1>1 DEF ReportInv
  <2>2. ~StartEffect(a)
    BY <2>1 DEF StartEffect, Startable
  <2>3. QED
    BY <2>1, <2>2, WhoStarts, StartableStep
<1>2. CASE Restart
  <2>1. /\ a \in Guarded => ~Live(a)'
        /\ pc'[a] \in {"new", "done", "lost"} /\ runs' = runs
        /\ pc'[a] = "new" => pc[a] = "new"
    BY <1>2 DEF Restart, Live, TypeOK
  <2>2. durable[a] \in {"required", "invalid", "denied"}
    BY <1>2 DEF Restart, NotRun
  <2>3. CASE durable[a] = "required"
    <3>1. a \in Guarded /\ pc[a] # "new"
      BY <2>3 DEF ReportInv
    <3>2. runs[a] = 0
      BY <1>2, <2>3, <3>1 DEF Restart, TypeOK
    <3>3. QED
      BY <2>1, <3>1, <3>2 DEF Startable
  <2>4. CASE durable[a] \in {"invalid", "denied"}
    BY <1>1, <2>4 DEF NotRun
  <2>5. QED
    BY <2>2, <2>3, <2>4
<1>3. CASE ~Restart /\ ~NotRun(a)
  <2>1. CASE Untold(a)
    BY <1>3, <2>1 DEF Untold, NotRun
  <2>2. CASE EndedNow(a)
    BY <1>3, <2>2, EndedRests DEF EndedNow
  <2>3. CASE AnswerRequest(a)
    <3>1. a \in Guarded /\ a \in Process /\ pc[a] = "asking" /\ approval' = approval /\ runs' = runs
      BY <2>3 DEF AnswerRequest, StageInv
    <3>2. receipt'[a] = "invalid"
      BY <1>3, <2>3 DEF AnswerRequest, NotRun, TypeOK
    <3>3. ~Live(a)
      BY <2>3, <3>1, <3>2 DEF AnswerRequest, TypeOK
    <3>4. runs[a] = 0
      BY <3>1 DEF ConsentInv, Begun
    <3>5. pc'[a] = "waiting"
      BY <2>3, <3>1, GotoMoves DEF AnswerRequest
    <3>6. QED
      BY <3>1, <3>3, <3>4, <3>5 DEF Startable, Live
  <2>4. CASE Fail(a) \/ EnqueueAction(a)
    <3>1. /\ pc[a] \in {"failing", "checking"} /\ approval' = approval /\ runs' = runs
          /\ pc[a] = "checking" => a \notin Guarded
      BY <2>4 DEF Fail, EnqueueAction
    <3>2. runs[a] = 0 /\ (a \in Guarded => ~Live(a))
      BY <3>1 DEF ConsentInv, Begun, ReportInv
    <3>3. pc'[a] \in {"done", "revoking"}
      <4>1. \E s : Settle(a, a, s)
        <5>1. CASE UNCHANGED receipts
          BY <1>3, <5>1 DEF receipts, NotRun
        <5>2. QED
          BY <2>4, <5>1 DEF Fail, EnqueueAction, Enqueue
      <4>2. QED
        BY <4>1, SettleMoves
    <3>4. QED
      BY <3>1, <3>2, <3>3 DEF Startable, Live
  <2>5. ASSUME NEW r \in Resolver, ConsumedBy(r, a)
        PROVE  runs'[a] = 0 /\ ~Startable(a)'
    <3>1. /\ a \in Guarded /\ approval[a] = "approved" /\ approval'[a] = "consumed" /\ runs' = runs
          /\ Enqueue(r, a)
      BY <2>5 DEF ConsumedBy, Consume, StageInv, Idle, TypeOK
    <3>2. runs[a] = 0
      BY <3>1 DEF ConsentInv, Live
    <3>3. pc'[a] \in {"done", "revoking"}
      <4>1. \E s : Settle(r, a, s)
        <5>1. CASE UNCHANGED receipts
          BY <1>3, <5>1 DEF receipts, NotRun
        <5>2. QED
          BY <3>1, <5>1 DEF Enqueue
      <4>2. QED
        BY <4>1, SettleMoves
    <3>4. QED
      BY <3>1, <3>2, <3>3 DEF Startable, Live
  <2>6. ASSUME NEW r \in Resolver, ResolveTooLate(r), about[r] = a
        PROVE  runs'[a] = 0 /\ ~Startable(a)'
    <3>1. a \in Guarded /\ pc[r] \notin Idle /\ approval[a] # "none" /\ runs' = runs /\ a # r
      BY <2>6, ActionsAssumption DEF ResolveTooLate, StageInv, Idle, ReportInv
    <3>2. approval'[a] = IF Live(a) /\ a \in overdue THEN "expired" ELSE approval[a]
      BY <2>6, <3>1 DEF ResolveTooLate, TypeOK
    <3>3. approval'[a] \notin {"approved", "consumed"}
      <4>1. Open(a)
        <5>1. CASE ~Open(a)
          <6>1. Report({}, "invalid")
            BY <2>6, <5>1 DEF ResolveTooLate
          <6>2. QED
            BY <1>3, <6>1, ReportTells DEF Untold, NotRun
        <5>2. QED
          BY <5>1
      <4>2. QED
        BY <2>6, <4>1 DEF ResolveTooLate
    <3>4. approval[a] # "pending" \/ a \in overdue
      BY <2>6 DEF ResolveTooLate, Resolvable
    <3>5. approval'[a] \in {"denied", "expired", "revoked"}
      BY <3>1, <3>2, <3>3, <3>4 DEF TypeOK, ApprovalStatus, Live
    <3>6. approval[a] # "consumed" /\ runs[a] = 0
      BY <3>1, <3>2, <3>3 DEF ReportInv, Live, TypeOK
    <3>7. pc'[a] = pc[a]
      BY <2>6, <3>1, GotoMoves DEF ResolveTooLate
    <3>8. pc[a] \notin {"new", "checking", "queued", "rechecking"}
      BY <3>1, <3>6 DEF ConsentInv
    <3>9. QED
      BY <3>1, <3>5, <3>6, <3>7, <3>8 DEF Startable, Live
  <2>7. CASE receipt'[a] \in {"done", "unknown"} /\ durable'[a] \in {durable[a], "done", "unknown"}
    BY <1>3, <2>7 DEF NotRun
  <2>8. QED
    BY <1>3, <2>1, <2>2, <2>3, <2>4, <2>5, <2>6, <2>7, WhoTells DEF Ends
<1>4. QED
  BY <1>1, <1>2, <1>3

\* What the journal holds for an operator to decide.
LEMMA RequiredStep ==
  ASSUME IInv, ReportInv, [Next]_vars, NEW a \in Action, durable'[a] = "required"
  PROVE  a \in Guarded /\ pc'[a] # "new"
<1> USE DEF IInv
<1>1. ~Restart
  BY DEF Restart
<1>2. CASE durable[a] = "required"
  <2>1. a \in Guarded /\ pc[a] # "new"
    BY <1>2 DEF ReportInv
  <2>2. pc'[a] = "new" => pc[a] = "new"
    <3>1. SUFFICES ASSUME pc'[a] = "new", pc[a] # "new" PROVE FALSE
      OBVIOUS
    <3>2. CASE \E s \in Stage \ {"new"} : Goto(a, s)
      BY <3>1, <3>2, GotoMoves
    <3>3. ASSUME NEW p \in Process, Settle(p, a, "done") \/ \E s : Settle(p, a, s)
          PROVE  FALSE
      BY <3>1, <3>3, SettleMoves
    <3>4. ASSUME NEW p \in Process, Enqueue(p, a)
          PROVE  FALSE
      <4>1. CASE pc' = [pc EXCEPT ![p] = "done", ![a] = "queued"]
        BY <3>1, <4>1 DEF TypeOK
      <4>2. QED
        BY <3>3, <3>4, <4>1 DEF Enqueue
    <3>5. CASE \/ Submit(a) \/ Refuse(a) \/ RequestApproval(a) \/ AnswerRequest(a) \/ TakeTurn(a)
               \/ StartEffect(a) \/ RevokeAfterFault(a) \/ Deny(a) \/ WithdrawLease(a)
      BY <3>2, <3>5
         DEF Submit, Refuse, RequestApproval, AnswerRequest, TakeTurn, CheckTab, StartEffect, RevokeAfterFault,
             Deny, WithdrawApprovals, WithdrawLease, Failed, Stage
    <3>6. CASE EndEffect(a) \/ Timeout(a) \/ Fail(a) \/ EnqueueAction(a) \/ \E r \in Resolver : ConsumedBy(r, a)
      BY <3>3, <3>4, <3>6 DEF EndEffect, Timeout, Fail, EnqueueAction, ConsumedBy, Consume
    <3>7. QED
      BY <1>1, <3>1, <3>5, <3>6, WhoMoves
  <2>3. QED
    BY <2>1, <2>2
<1>3. CASE durable[a] # "required"
  <2>1. AnswerRequest(a)
    BY <1>1, <1>3, WhoTells DEF Untold, EndedNow, ToldNotRun
  <2>2. a \in Guarded /\ pc'[a] = "waiting"
    BY <2>1, GotoMoves DEF AnswerRequest, StageInv
  <2>3. QED
    BY <2>2
<1>4. QED
  BY <1>2, <1>3

LEMMA ReportStep == QInv /\ [Next]_vars => ReportInv'
<1> SUFFICES ASSUME QInv, [Next]_vars PROVE ReportInv'
  OBVIOUS
<1> USE DEF QInv
<1>1. ASSUME NEW a \in Guarded
      PROVE  /\ Live(a)' => pc'[a] \in {"asking", "waiting"}
             /\ pc'[a] = "asking" => approval'[a] \in {"pending", "expired", "revoked"}
             /\ runs'[a] > 0 => approval'[a] \in {"none", "consumed"}
             /\ a \in context' => approval'[a] # "none"
  <2>1. CASE Restart
    BY <2>1, ActionsAssumption DEF Restart, Live
  <2>2. CASE ~Restart
    <3>1. a \in context' => approval'[a] # "none"
      <4>1. CASE a \in context
        BY <2>2, <4>1, AskedStep DEF ReportInv
      <4>2. ASSUME RequestApproval(a)
            PROVE  approval'[a] # "none"
        <5>1. PICK gone : approval' = [Closed(gone) EXCEPT ![a] = "pending"]
          BY <4>2 DEF RequestApproval
        <5>2. QED
          BY <5>1, ClosedType DEF IInv
      <4>3. QED
        BY <4>1, <4>2, ContextMoves
    <3>2. QED
      BY <2>2, <3>1, AskedStep
  <2>3. QED
    BY <2>1, <2>2
<1>2. QED
  BY <1>1, ResolversStep, RequiredStep, NotRunStep DEF ReportInv, Live, NotRun, Startable

LEMMA InitQInv == Init => QInv
<1> SUFFICES ASSUME Init PROVE QInv
  OBVIOUS
<1>1. IInv
  BY InitInv
<1>2. QueueInv
  <2>1. \A g \in Generation : Len(queue[g]) = 0
    BY DEF Init
  <2>2. QED
    BY <2>1 DEF Init, QueueInv, WaitsIn
<1>3. LateInv
  BY ActionsAssumption DEF Init, LateInv, Idle, Live
<1>4. ReportInv
  BY ActionsAssumption DEF Init, ReportInv, Idle, Live, NotRun
<1>5. QED
  BY <1>1, <1>2, <1>3, <1>4 DEF QInv

THEOREM QueuesInductive == Spec => []QInv
<1>1. QInv /\ [Next]_vars => QInv'
  <2>1. IInv /\ [Next]_vars => IInv'
    BY ConsentStep, ClockStep, TypeStep, LeaseStep DEF IInv, StageInv, CommandInv
  <2>2. QED
    BY <2>1, QueueStep, LateStep, ReportStep DEF QInv
<1>2. QED
  BY <1>1, InitQInv, PTL DEF Spec

-----------------------------------------------------------------------------
(* Theorems. *)

\* enqueueSurfaceEffect: for any number of actions, tabs and timeouts, of the effects on
\* a tab that have not timed out at most one is running, and no action that enters the
\* queue after a timeout ever starts.  It does not say that an effect is alone on its
\* tab: one queued before the timeout starts, perhaps beside the one that timed out.
THEOREM OneEffectAtATime == Spec => []OneAtATime
<1>1. QInv => OneAtATime
  <2> SUFFICES ASSUME QInv PROVE OneAtATime
    OBVIOUS
  <2>1. ASSUME NEW a \in Action, NEW b \in Action,
               pc[a] = "running", pc[b] = "running", token[a].target = token[b].target
        PROVE  a = b
    <3>1. PICK i \in 1..Len(queue[token[a].target]) : queue[token[a].target][i] = a
      BY <2>1 DEF QInv, QueueInv, IsQueued
    <3>2. PICK j \in 1..Len(queue[token[a].target]) : queue[token[a].target][j] = b
      BY <2>1 DEF QInv, QueueInv, IsQueued
    <3>3. token[a].target \in Generation
      BY <2>1 DEF QInv, IInv, StageInv, Idle, Lease
    <3>4. i = 1 /\ j = 1
      BY <2>1, <3>1, <3>2, <3>3 DEF QInv, QueueInv, WaitsIn
    <3>5. QED
      BY <3>1, <3>2, <3>4
  <2>2. ASSUME NEW a \in late
        PROVE  ~Started(a)
    <3>1. runs[a] = 0
      BY DEF QInv, LateInv
    <3>2. QED
      BY <3>1 DEF Started
  <2>3. QED
    BY <2>1, <2>2 DEF OneAtATime
<1>2. QED
  BY <1>1, QueuesInductive, PTL

\* terminalizeApproval, prepareSurfaceAction and resolveApproval: an action reported
\* not run never starts, whatever resolvers, timers and refused events race, unless it
\* was reported so while its approval was usable or an owner died after its start.
THEOREM ReportedNotRunStays == Spec => []NotRunStays
<1>1. QInv => NotRunStays
  <2> SUFFICES ASSUME QInv, NEW a \in Action,
                      receipt[a] \in {"invalid", "denied"}, a \notin doubtful \cup cut
               PROVE  ~Started(a)
    BY DEF NotRunStays
  <2>1. runs[a] = 0
    BY DEF QInv, ReportInv, NotRun
  <2>2. QED
    BY <2>1 DEF Started
<1>2. QED
  BY <1>1, QueuesInductive, PTL

-----------------------------------------------------------------------------
(* Nobody waits for ever. *)

\* The stages that a command of each kind comes to.
KindInv ==
    /\ \A a \in Action : pc[a] \notin {"asserting", "aborting"}
    /\ \A r \in Resolver :
         pc[r] \in {"new", "checking", "asserting", "withdrawing", "aborting", "failing", "done", "lost"}
    /\ \A g \in Granter : pc[g] \in {"new", "checking", "withdrawing", "done", "lost"}

\* How many steps a command may still take, at most.
Rank(stage) ==
    CASE stage = "new" -> 9
      [] stage = "checking" -> 8
      [] stage \in {"asking", "asserting"} -> 7
      [] stage = "waiting" -> 6
      [] stage = "queued" -> 5
      [] stage = "rechecking" -> 4
      [] stage \in {"running", "withdrawing", "aborting"} -> 3
      [] stage = "failing" -> 2
      [] stage = "revoking" -> 1
      [] stage \in {"done", "lost"} -> 0

\* Each step of the event loop moves a command, and no step moves one back.
FewSteps ==
    [][/\ \A p \in Process : pc'[p] # pc[p] => Rank(pc'[p]) < Rank(pc[p])
       /\ Step => pc' # pc]_vars

LEMMA ActionCourse ==
  ASSUME QInv, KindInv, [Next]_vars, NEW a \in Action, pc'[a] # pc[a]
  PROVE  Rank(pc'[a]) < Rank(pc[a]) /\ pc'[a] \notin {"asserting", "aborting"}
<1> USE DEF QInv, IInv
<1> a \in Process
  OBVIOUS
<1>1. CASE Submit(a)
  <2>1. pc[a] = "new" /\ \E s \in {"checking", "failing"} : Goto(a, s)
    BY <1>1 DEF Submit, CheckTab
  <2>2. QED
    BY <2>1, GotoMoves DEF Rank
<1>2. CASE Refuse(a)
  BY <1>2, GotoMoves DEF Refuse, Rank
<1>3. CASE RequestApproval(a) \/ AnswerRequest(a)
  BY <1>3, GotoMoves DEF RequestApproval, AnswerRequest, Rank
<1>4. CASE EnqueueAction(a)
  <2>1. CASE \E s : Settle(a, a, s)
    BY <1>4, <2>1, SettleMoves DEF EnqueueAction, Rank
  <2>2. CASE pc' = [pc EXCEPT ![a] = "done", ![a] = "queued"]
    BY <1>4, <2>2 DEF EnqueueAction, Rank, TypeOK
  <2>3. QED
    BY <1>4, <2>1, <2>2 DEF EnqueueAction, Enqueue
<1>5. CASE TakeTurn(a)
  <2>1. pc[a] = "queued" /\ \E s \in {"rechecking", "failing"} : Goto(a, s)
    BY <1>5 DEF TakeTurn, CheckTab
  <2>2. QED
    BY <2>1, GotoMoves DEF Rank
<1>6. CASE StartEffect(a) \/ RevokeAfterFault(a)
  BY <1>6, GotoMoves DEF StartEffect, RevokeAfterFault, Rank
<1>7. CASE EndEffect(a) \/ Timeout(a) \/ Fail(a)
  <2>1. pc[a] \in {"running", "failing"} /\ \E s : Settle(a, a, s)
    BY <1>7 DEF EndEffect, Timeout, Fail
  <2>2. QED
    BY <2>1, SettleMoves DEF Rank
<1>8. CASE Deny(a)
  <2>1. pc[a] \in {"checking", "rechecking"} /\ \E s \in {"failing", "withdrawing"} : Goto(a, s)
    BY <1>8 DEF Deny, WithdrawApprovals, Checking, Failed, KindInv
  <2>2. QED
    BY <2>1, GotoMoves DEF Rank
<1>9. CASE WithdrawLease(a)
  <2>1. pc[a] = "withdrawing" /\ Goto(a, "failing")
    BY <1>9 DEF WithdrawLease, Failed, KindInv
  <2>2. QED
    BY <2>1, GotoMoves DEF Rank
<1>10. ASSUME NEW r \in Resolver, ConsumedBy(r, a)
       PROVE  Rank(pc'[a]) < Rank(pc[a]) /\ pc'[a] \notin {"asserting", "aborting"}
  <2>1. /\ pc[r] = "asserting" /\ about[r] = a /\ approval[a] = "approved"
        /\ a \in Guarded /\ pc[a] # "asking" /\ a # r
    BY <1>10, ActionsAssumption DEF ConsumedBy, Consume, StageInv, Idle, ReportInv
  <2>2. pc[a] = "waiting"
    BY <2>1 DEF ReportInv, Live
  <2>3. CASE \E s : Settle(r, a, s)
    BY <2>2, <2>3, SettleMoves DEF Rank
  <2>4. CASE pc' = [pc EXCEPT ![r] = "done", ![a] = "queued"]
    BY <2>1, <2>2, <2>4 DEF Rank, TypeOK
  <2>5. QED
    BY <1>10, <2>3, <2>4 DEF ConsumedBy, Consume, Enqueue
<1>11. CASE Restart
  <2>1. pc'[a] = "lost" /\ pc[a] \notin {"done", "lost"}
    BY <1>11 DEF Restart
  <2>2. pc[a] \in Stage
    BY DEF TypeOK
  <2>3. QED
    BY <2>1, <2>2 DEF Rank, Stage
<1>12. QED
  BY <1>1, <1>2, <1>3, <1>4, <1>5, <1>6, <1>7, <1>8, <1>9, <1>10, <1>11, WhoMoves

\* An operator's command moves by its own steps.
LEMMA WhoOperates ==
  ASSUME IInv, [Next]_vars, NEW p \in Resolver \cup Granter, pc'[p] # pc[p]
  PROVE  \/ /\ p \in Resolver
            /\ \/ StartResolve(p) \/ DenyAction(p) \/ ApproveAction(p) \/ ResolveTooLate(p)
               \/ Consume(p) \/ ConsumeFails(p) \/ RevokeApproved(p)
         \/ p \in Granter /\ (StartGrant(p) \/ Grant(p) \/ GrantFails(p))
         \/ Deny(p) \/ WithdrawLease(p) \/ Restart
<1> USE DEF IInv
<1> p \in Process /\ p \notin Action /\ pc' # pc
  BY ActionsAssumption
<1>1. ASSUME NEW b \in Action,
             \/ Submit(b) \/ Refuse(b) \/ RequestApproval(b) \/ AnswerRequest(b) \/ TakeTurn(b)
             \/ StartEffect(b) \/ RevokeAfterFault(b)
      PROVE  FALSE
  <2>1. \E s : Goto(b, s)
    BY <1>1 DEF Submit, Refuse, RequestApproval, AnswerRequest, TakeTurn, CheckTab, StartEffect, RevokeAfterFault
  <2>2. QED
    BY <2>1, GotoMoves
<1>2. ASSUME NEW b \in Action, EndEffect(b) \/ Timeout(b) \/ Fail(b) \/ EnqueueAction(b)
      PROVE  FALSE
  <2>1. CASE \E s : Settle(b, b, s)
    BY <2>1, SettleMoves
  <2>2. CASE pc' = [pc EXCEPT ![b] = "done", ![b] = "queued"]
    BY <2>2 DEF TypeOK
  <2>3. QED
    BY <1>2, <2>1, <2>2 DEF EndEffect, Timeout, Fail, EnqueueAction, Enqueue
<1>3. ASSUME NEW r \in Resolver, Consume(r)
      PROVE  r = p
  <2>1. about[r] \in Action
    BY <1>3, ActionsAssumption DEF Consume, StageInv, Idle
  <2>2. CASE \E s : Settle(r, about[r], s)
    BY <2>1, <2>2, SettleMoves
  <2>3. CASE pc' = [pc EXCEPT ![r] = "done", ![about[r]] = "queued"]
    BY <2>1, <2>3 DEF TypeOK
  <2>4. QED
    BY <1>3, <2>2, <2>3 DEF Consume, Enqueue
<1>4. ASSUME NEW r \in Resolver,
             \/ StartResolve(r) \/ DenyAction(r) \/ ApproveAction(r) \/ ResolveTooLate(r)
             \/ ConsumeFails(r) \/ RevokeApproved(r)
      PROVE  r = p
  <2>1. \E s : Goto(r, s)
    BY <1>4 DEF StartResolve, DenyAction, ApproveAction, CheckTab, ResolveTooLate, ConsumeFails, RevokeApproved
  <2>2. QED
    BY <2>1, GotoMoves
<1>5. ASSUME NEW g \in Granter, StartGrant(g) \/ Grant(g) \/ GrantFails(g)
      PROVE  g = p
  <2>1. \E s : Goto(g, s)
    BY <1>5 DEF StartGrant, Grant, GrantFails
  <2>2. QED
    BY <2>1, GotoMoves
<1>6. ASSUME NEW q \in Process, Deny(q) \/ WithdrawLease(q)
      PROVE  q = p
  <2>1. \E s : Goto(q, s)
    BY <1>6 DEF Deny, WithdrawApprovals, WithdrawLease
  <2>2. QED
    BY <2>1, GotoMoves
<1>7. ~(Ask \/ RevokeLease \/ ChangeTab \/ Poll \/ Expire \/ Deactivate \/ UNCHANGED vars)
  BY DEF Ask, RevokeLease, ChangeTab, Poll, Expire, Deactivate, vars
<1>8. QED
  BY <1>1, <1>2, <1>3, <1>4, <1>5, <1>6, <1>7 DEF Next, Step

LEMMA OperatorCourse ==
  ASSUME IInv, KindInv, [Next]_vars, NEW p \in Resolver \cup Granter, pc'[p] # pc[p]
  PROVE  /\ Rank(pc'[p]) < Rank(pc[p])
         /\ p \in Resolver => pc'[p] \in {"checking", "asserting", "withdrawing", "aborting",
                                          "failing", "done", "lost"}
         /\ p \in Granter => pc'[p] \in {"checking", "withdrawing", "done", "lost"}
<1> USE DEF IInv
<1> p \in Process /\ p \notin Action /\ ~(p \in Resolver /\ p \in Granter)
  BY ActionsAssumption
<1>1. CASE p \in Resolver /\ StartResolve(p)
  BY <1>1, GotoMoves DEF StartResolve, Rank
<1>2. CASE p \in Resolver /\ ApproveAction(p)
  <2>1. pc[p] = "checking" /\ \E s \in {"asserting", "failing"} : Goto(p, s)
    BY <1>2 DEF ApproveAction, CheckTab
  <2>2. QED
    BY <1>2, <2>1, GotoMoves DEF Rank
<1>3. CASE p \in Resolver /\ (DenyAction(p) \/ ResolveTooLate(p) \/ ConsumeFails(p) \/ RevokeApproved(p))
  BY <1>3, GotoMoves DEF DenyAction, ResolveTooLate, ConsumeFails, RevokeApproved, Rank
<1>4. CASE p \in Resolver /\ Consume(p)
  <2>1. pc[p] = "asserting" /\ about[p] \in Action
    BY <1>4, ActionsAssumption DEF Consume, StageInv, Idle
  <2>2. CASE \E s : Settle(p, about[p], s)
    BY <1>4, <2>1, <2>2, SettleMoves DEF Rank
  <2>3. CASE pc' = [pc EXCEPT ![p] = "done", ![about[p]] = "queued"]
    <3>1. pc'[p] = "done"
      BY <2>1, <2>3 DEF TypeOK
    <3>2. QED
      BY <1>4, <2>1, <3>1 DEF Rank
  <2>4. QED
    BY <1>4, <2>2, <2>3 DEF Consume, Enqueue
<1>5. CASE p \in Granter /\ (StartGrant(p) \/ Grant(p) \/ GrantFails(p))
  BY <1>5, GotoMoves DEF StartGrant, Grant, GrantFails, Rank
<1>6. CASE Deny(p)
  <2>1. \/ pc[p] = "checking" /\ \E s \in {"withdrawing", "done"} : Goto(p, s)
        \/ p \in Resolver /\ pc[p] = "asserting" /\ \E s \in {"aborting", "failing"} : Goto(p, s)
    BY <1>6 DEF Deny, WithdrawApprovals, Checking, Failed, KindInv
  <2>2. QED
    BY <2>1, GotoMoves DEF Rank
<1>7. CASE WithdrawLease(p)
  <2>1. \/ pc[p] = "withdrawing" /\ Goto(p, "done")
        \/ p \in Resolver /\ pc[p] = "aborting" /\ Goto(p, "failing")
    BY <1>7 DEF WithdrawLease, Failed, KindInv
  <2>2. QED
    BY <2>1, GotoMoves DEF Rank
<1>8. CASE Restart
  <2>1. pc'[p] = "lost" /\ pc[p] \notin {"done", "lost"}
    BY <1>8 DEF Restart
  <2>2. pc[p] \in Stage
    BY DEF TypeOK
  <2>3. QED
    BY <2>1, <2>2 DEF Rank, Stage
<1>9. QED
  BY <1>1, <1>2, <1>3, <1>4, <1>5, <1>6, <1>7, <1>8, WhoOperates

LEMMA KindStep == QInv /\ KindInv /\ [Next]_vars => KindInv'
<1> SUFFICES ASSUME QInv, KindInv, [Next]_vars PROVE KindInv'
  OBVIOUS
<1>1. ASSUME NEW a \in Action PROVE pc'[a] \notin {"asserting", "aborting"}
  BY ActionCourse DEF KindInv
<1>2. ASSUME NEW r \in Resolver
      PROVE  pc'[r] \in {"new", "checking", "asserting", "withdrawing", "aborting", "failing", "done", "lost"}
  BY OperatorCourse DEF KindInv, QInv
<1>3. ASSUME NEW g \in Granter
      PROVE  pc'[g] \in {"new", "checking", "withdrawing", "done", "lost"}
  BY OperatorCourse DEF KindInv, QInv
<1>4. QED
  BY <1>1, <1>2, <1>3 DEF KindInv

LEMMA KindsKept == Spec => [](QInv /\ KindInv)
<1>1. Init => KindInv
  BY ActionsAssumption DEF Init, KindInv
<1>2. QED
  BY <1>1, KindStep, QueuesInductive, PTL DEF Spec

\* Each of the steps moves the command that takes it.
LEMMA StepMoves ==
  ASSUME QInv, KindInv, Step
  PROVE  \E p \in Process : pc'[p] # pc[p]
<1> USE DEF QInv, IInv
<1>1. ASSUME NEW a \in Action,
             \/ Refuse(a) \/ RequestApproval(a) \/ AnswerRequest(a) \/ TakeTurn(a)
             \/ StartEffect(a) \/ RevokeAfterFault(a)
      PROVE  pc'[a] # pc[a]
  <2>1. /\ pc[a] \in {"checking", "rechecking", "asking", "queued", "revoking"}
        /\ \E s \in {"failing", "asking", "waiting", "rechecking", "running", "done"} :
             s # pc[a] /\ Goto(a, s)
    BY <1>1 DEF Refuse, RequestApproval, AnswerRequest, TakeTurn, CheckTab, StartEffect, RevokeAfterFault
  <2>2. QED
    BY <2>1, GotoMoves
<1>2. ASSUME NEW a \in Action, EnqueueAction(a)
      PROVE  pc'[a] # pc[a]
  <2>1. CASE \E s : Settle(a, a, s)
    BY <1>2, <2>1, SettleMoves DEF EnqueueAction
  <2>2. CASE pc' = [pc EXCEPT ![a] = "done", ![a] = "queued"]
    BY <1>2, <2>2 DEF EnqueueAction, TypeOK
  <2>3. QED
    BY <1>2, <2>1, <2>2 DEF EnqueueAction, Enqueue
<1>3. ASSUME NEW a \in Action, Timeout(a) \/ Fail(a)
      PROVE  pc'[a] # pc[a]
  <2>1. pc[a] \in {"running", "failing"} /\ \E s : Settle(a, a, s)
    BY <1>3 DEF Timeout, Fail
  <2>2. QED
    BY <2>1, SettleMoves
<1>4. ASSUME NEW r \in Resolver,
             \/ ApproveAction(r) \/ DenyAction(r) \/ ResolveTooLate(r)
             \/ ConsumeFails(r) \/ RevokeApproved(r)
      PROVE  pc'[r] # pc[r]
  <2>1. /\ pc[r] \in {"checking", "asserting", "failing"}
        /\ \E s \in {"asserting", "failing", "done"} : s # pc[r] /\ Goto(r, s)
    BY <1>4 DEF ApproveAction, CheckTab, DenyAction, ResolveTooLate, ConsumeFails, RevokeApproved
  <2>2. QED
    BY <2>1, GotoMoves
<1>5. ASSUME NEW r \in Resolver, Consume(r)
      PROVE  pc'[r] # pc[r]
  <2>1. pc[r] = "asserting" /\ about[r] \in Action /\ about[r] # r
    BY <1>5, ActionsAssumption DEF Consume, StageInv, Idle
  <2>2. CASE \E s : Settle(r, about[r], s)
    BY <2>1, <2>2, SettleMoves
  <2>3. CASE pc' = [pc EXCEPT ![r] = "done", ![about[r]] = "queued"]
    BY <2>1, <2>3 DEF TypeOK
  <2>4. QED
    BY <1>5, <2>2, <2>3 DEF Consume, Enqueue
<1>6. ASSUME NEW g \in Granter, Grant(g) \/ GrantFails(g)
      PROVE  pc'[g] # pc[g]
  <2>1. pc[g] = "checking" /\ Goto(g, "done")
    BY <1>6 DEF Grant, GrantFails
  <2>2. QED
    BY <2>1, GotoMoves
<1>7. ASSUME NEW p \in Process, Deny(p) \/ WithdrawLease(p)
      PROVE  pc'[p] # pc[p]
  <2>1. /\ pc[p] \in {"checking", "rechecking", "asserting", "withdrawing", "aborting"}
        /\ \E s \in {"failing", "done", "aborting", "withdrawing"} : s # pc[p] /\ Goto(p, s)
    BY <1>7 DEF Deny, Checking, WithdrawApprovals, WithdrawLease, Failed
  <2>2. QED
    BY <2>1, GotoMoves
<1>8. QED
  BY <1>1, <1>2, <1>3, <1>4, <1>5, <1>6, <1>7 DEF Step

\* No command takes more than nine steps, and each step of the event loop is one of
\* them: executeSurfaceControlCommand and resolveApproval have no loop of retries.
THEOREM StepsAreFew == Spec => FewSteps
<1>1. ASSUME QInv, KindInv, [Next]_vars
      PROVE  \A p \in Process : pc'[p] # pc[p] => Rank(pc'[p]) < Rank(pc[p])
  BY <1>1, ActionCourse, OperatorCourse DEF QInv
<1>2. ASSUME QInv, KindInv, [Next]_vars
      PROVE  Step => pc' # pc
  BY <1>2, StepMoves
<1>3. QInv /\ KindInv /\ [Next]_vars =>
        [/\ \A p \in Process : pc'[p] # pc[p] => Rank(pc'[p]) < Rank(pc[p])
         /\ Step => pc' # pc]_vars
  BY <1>1, <1>2
<1>4. QED
  BY <1>3, KindsKept, PTL DEF Spec, FewSteps

\* The action whose turn it is on the tab that a names.
Front(a) == Head(queue[token[a].target])

\* A command that is under way has a step of its own, or is queued behind one that has:
\* nobody waits for a command that is gone, or in a circle.
NobodyStuck ==
    \A p \in Process :
        \/ pc[p] \in {"new", "waiting", "done", "lost"}
        \/ Ready(p)
        \/ p \in Action /\ pc[p] = "queued" /\ Front(p) \in Action /\ Ready(Front(p))

\* enqueueSurfaceEffect and release(): whatever fails, times out or is refused, the
\* queue of a tab moves up to someone who is at work.
THEOREM NobodyIsStuck == Spec => []NobodyStuck
<1>1. QInv /\ KindInv => NobodyStuck
  <2> SUFFICES ASSUME QInv, KindInv, NEW p \in Process,
                      pc[p] \notin {"new", "waiting", "done", "lost"}, ~Ready(p)
               PROVE  p \in Action /\ pc[p] = "queued" /\ Front(p) \in Action /\ Ready(Front(p))
    BY DEF NobodyStuck
  <2>1. pc[p] \in Stage
    BY DEF QInv, IInv, TypeOK
  <2>2. p \in Action /\ pc[p] = "queued"
    BY <2>1 DEF KindInv, Ready, Stage
  <2>3. token[p].target \in Generation
    BY <2>2 DEF QInv, IInv, StageInv, Idle, Lease
  <2> DEFINE q == queue[token[p].target]
  <2>4. q \in Seq(Action)
    BY <2>3 DEF QInv, IInv, TypeOK
  <2>5. Len(q) >= 1
    <3>1. IsQueued(p)
      BY <2>2 DEF QInv, QueueInv
    <3>2. PICK i \in 1..Len(q) : q[i] = p
      BY <3>1 DEF IsQueued
    <3>3. Len(q) \in Nat
      BY <2>4
    <3>4. QED
      BY <3>2, <3>3
  <2>6. Front(p) = q[1] /\ q[1] \in Action
    BY <2>4, <2>5 DEF Front
  <2>7. WaitsIn(token[p].target)
    BY <2>3 DEF QInv, QueueInv
  <2>8. pc[q[1]] \in InQueue /\ token[q[1]].target = token[p].target
    BY <2>4, <2>5, <2>7 DEF WaitsIn
  <2>9. Ready(q[1])
    <3>1. CASE pc[q[1]] = "queued"
      <4>1. Head(queue[token[q[1]].target]) = q[1]
        BY <2>6, <2>8 DEF Front
      <4>2. QED
        BY <2>6, <3>1, <4>1 DEF Ready
    <3>2. CASE pc[q[1]] # "queued"
      BY <2>6, <2>8, <3>2 DEF Ready, InQueue
    <3>3. QED
      BY <3>1, <3>2
  <2>10. QED
    BY <2>2, <2>6, <2>9
<1>2. QED
  BY <1>1, KindsKept, PTL

\* The half of IdleMeansSettled that is about ENABLED: TLC checks it with the whole.
ReadyMeansEnabled == (\E p \in Process : Ready(p)) => ENABLED Step

\* The event loop, if it can go on wherever a command has a step of its own, stops only
\* when every command is settled, or has not begun, or waits for its operator.
THEOREM IdleSettled == Spec /\ []ReadyMeansEnabled => []IdleMeansSettled
<1>1. NobodyStuck /\ ReadyMeansEnabled => IdleMeansSettled
  <2> SUFFICES ASSUME NobodyStuck, ReadyMeansEnabled PROVE IdleMeansSettled
    OBVIOUS
  <2>1. CASE \E p \in Process : Ready(p)
    BY <2>1 DEF ReadyMeansEnabled, IdleMeansSettled
  <2>2. CASE ~\E p \in Process : Ready(p)
    <3>1. \A p \in Process : pc[p] \in {"new", "waiting", "done", "lost"}
      BY <2>2 DEF NobodyStuck
    <3>2. QED
      BY <2>2, <3>1 DEF IdleMeansSettled
  <2>3. QED
    BY <2>1, <2>2
<1>2. QED
  BY <1>1, NobodyIsStuck, PTL

=============================================================================
