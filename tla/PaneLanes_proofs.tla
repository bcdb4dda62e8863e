--------------------------- MODULE PaneLanes_proofs ---------------------------
(***************************************************************************)
(* Proofs about PaneLanes, for any commands, takeovers, delegations and    *)
(* bounds.                                                                 *)
(*                                                                         *)
(* The argument for TakeoverFences: an item keeps its place in a queue     *)
(* while it waits, so the barrier is not dropped under it, and automation  *)
(* that a takeover found waiting has a stamp below the barrier for good.   *)
(* ReportsHold rests on what a command's progress says of its outcome, and *)
(* RunsUnderItsLease on a lease being known by its epoch and revision.     *)
(* Serialized has an invariant of its own, SerialInv: queues are in the    *)
(* order of submission, and what has had its turn comes before what waits. *)
(*                                                                         *)
(* NobodyStuck: whoever waits stands behind a command at work, for what is *)
(* in a queue was submitted to it (KeyInv), and what takeovers wait for is *)
(* being reported (WaitsInv); FewSteps: each has few steps.                *)
(***************************************************************************)
EXTENDS PaneLanes, TLAPS, SequenceTheorems

\* A waiting item is in its queue; one whose turn has come stays at the head.
QueueInv ==
    \A c \in Command :
        /\ pc[c] = "queued" => c \in Elements(queue[item[c].key])
        /\ pc[c] \in {"running", "terminal"} => Turn(c)

\* What the progress of a command says of its effect, outcome and reports.
ProgressInv ==
    \A c \in Command :
        /\ pc[c] \in {"new", "queued", "preempting"} => c \notin Elements(ran)
        /\ pc[c] = "running" => c \in Elements(ran)
        /\ pc[c] # "done" => reports[c] = <<>>
        /\ pc[c] = "preempting" => item[c].outcome = "preempted"
        /\ pc[c] = "terminal" => /\ item[c].outcome \in Outcome
                                 /\ item[c].outcome = "settled" <=> c \in Elements(ran)

\* Stamps never run ahead of the barrier, and fenced ones stay behind it.
FenceInv ==
    /\ \A c \in Automation : pc[c] = "queued" => item[c].stamp <= barrier
    /\ \A c \in fenced : /\ pc[c] \notin {"new", "running"}
                         /\ c \notin Elements(ran)
                         /\ pc[c] = "queued" => item[c].stamp < barrier

\* Epoch and revision identify a lease, and what waits was stamped in this epoch.
LaneInv ==
    /\ \A g \in granted : g.epoch <= epoch /\ (g.epoch = epoch => g.revision <= revision)
    /\ \A g, h \in granted : g.epoch = h.epoch /\ g.revision = h.revision => g = h
    /\ lease # None => lease \in granted /\ lease.epoch = epoch
    /\ \A c \in Command : pc[c] = "queued" /\ item[c].token # None =>
                              item[c].token \in granted /\ item[c].token.epoch = epoch

IInv ==
    /\ TypeOK /\ QueueInv /\ ProgressInv /\ FenceInv /\ LaneInv
    /\ ReportsHold /\ RunsUnderItsLease

USE DEF Fault, NoFault, Outcome, Generation

-----------------------------------------------------------------------------
(* Sequences. *)

LEMMA ElementsAppend ==
  ASSUME NEW S, NEW s \in Seq(S), NEW e \in S
  PROVE  Elements(Append(s, e)) = Elements(s) \cup {e}
BY AppendProperties, LenProperties DEF Elements

LEMMA ElementsTail ==
  ASSUME NEW S, NEW s \in Seq(S), s # <<>>
  PROVE  /\ Elements(Tail(s)) \subseteq Elements(s)
         /\ Elements(s) \subseteq Elements(Tail(s)) \cup {Head(s)}
<1>1. Len(s) \in Nat \ {0} /\ Len(Tail(s)) = Len(s) - 1
  BY HeadTailProperties, EmptySeq
<1>2. \A i \in 1..Len(Tail(s)) : Tail(s)[i] = s[i + 1] /\ i + 1 \in 1..Len(s)
  BY <1>1, HeadTailProperties
<1>3. \A i \in 1..Len(s) : i = 1 \/ (i - 1 \in 1..Len(Tail(s)) /\ Tail(s)[i - 1] = s[i])
  BY <1>1, <1>2
<1>4. Head(s) = s[1]
  OBVIOUS
<1>5. QED
  BY <1>2, <1>3, <1>4 DEF Elements

LEMMA ElementsHead ==
  ASSUME NEW S, NEW s \in Seq(S), s # <<>>
  PROVE  Head(s) \in Elements(s)
BY EmptySeq DEF Elements

LEMMA ElementsIn ==
  ASSUME NEW S, NEW s \in Seq(S)
  PROVE  Elements(s) \subseteq S
BY ElementOfSeq DEF Elements

-----------------------------------------------------------------------------
(* Types.  The outcome of an item about to be reported is known from ProgressInv. *)

LEMMA TargetType == TypeOK => Target \in Generation /\ PrunedBarrier \in Nat
BY BoundsAssumption DEF TypeOK, Target, PrunedBarrier

LEMMA DequeueType ==
  ASSUME TypeOK, NEW c \in Command, Turn(c), Dequeue(c)
  PROVE  queue' \in [Generation -> Seq(Command)]
<1>1. item[c].key \in Generation
  BY DEF TypeOK, Item
<1>2. queue[item[c].key] \in Seq(Command) /\ queue[item[c].key] # <<>>
  BY <1>1 DEF TypeOK, Turn
<1>3. Tail(queue[item[c].key]) \in Seq(Command)
  BY <1>2, HeadTailProperties
<1>4. QED
  BY <1>1, <1>3 DEF TypeOK, Dequeue

LEMMA ReportType ==
  ASSUME TypeOK, NEW c \in Command, NEW o \in Outcome,
         reports' = [reports EXCEPT ![c] = Append(@, o)]
  PROVE  reports' \in [Command -> Seq(Outcome)]
<1>1. Append(reports[c], o) \in Seq(Outcome)
  BY AppendProperties DEF TypeOK
<1>2. QED
  BY <1>1 DEF TypeOK

LEMMA ItemType ==
  ASSUME TypeOK, NEW c \in Command, NEW i \in Item, item' = [item EXCEPT ![c] = i]
  PROVE  item' \in [Command -> Item]
BY DEF TypeOK

LEMMA OutcomeType ==
  ASSUME TypeOK, NEW c \in Command, NEW o \in Outcome
  PROVE  [item[c] EXCEPT !.outcome = o] \in Item
<1>1. item[c] \in Item
  BY DEF TypeOK
<1>2. QED
  BY <1>1 DEF Item

LEMMA TypeInit == Init => TypeOK
<1> SUFFICES ASSUME Init PROVE TypeOK
  OBVIOUS
<1>1. surface \in [registered : BOOLEAN, generation : Generation]
  BY BoundsAssumption DEF Init
<1>2. queue \in [Generation -> Seq(Command)] /\ reports \in [Command -> Seq(Outcome)]
  BY EmptySeq DEF Init
<1>3. item \in [Command -> Item]
  BY BoundsAssumption DEF Init, NoItem, Item
<1>4. expired \in BOOLEAN /\ lease \in Lease \cup {None} /\ under \in [Command -> Lease \cup {None}]
  BY DEF Init
<1>5. arrival \in Seq(Command) /\ ran \in Seq(Command)
  BY EmptySeq DEF Init
<1>6. epoch \in Epoch /\ faults \in 0..MaxFaults /\ revision \in Nat /\ barrier \in Nat
  BY BoundsAssumption DEF Init, Epoch
<1>7. QED
  BY <1>1, <1>2, <1>3, <1>4, <1>5, <1>6 DEF Init, TypeOK

LEMMA TypeStep == TypeOK /\ QueueInv /\ ProgressInv /\ [Next]_vars => TypeOK'
<1> SUFFICES ASSUME TypeOK, QueueInv, ProgressInv, [Next]_vars PROVE TypeOK'
  OBVIOUS
<1> USE BoundsAssumption, CommandsAssumption
<1>1. CASE UNCHANGED vars
  BY <1>1 DEF vars, lane, items, history, TypeOK
<1>2. ASSUME NEW c \in Command, Enqueue(c) PROVE TypeOK'
  <2>1. PICK e \in 1..epoch, token \in granted \cup {None} :
          \/ /\ pc' = [pc EXCEPT ![c] = "queued"]
             /\ item' = [item EXCEPT ![c] = [key |-> Target, stamp |-> PrunedBarrier,
                                              token |-> token, outcome |-> None]]
             /\ queue' = [queue EXCEPT ![Target] = Append(@, c)]
             /\ arrival' = Append(arrival, c)
             /\ (NoFault /\ UNCHANGED refused) \/ (Fault /\ refused' = refused \cup {c})
             /\ UNCHANGED reports
          \/ /\ pc' = [pc EXCEPT ![c] = "done"]
             /\ \/ NoFault /\ reports' = [reports EXCEPT ![c] = Append(@, "rejected")]
                \/ Fault /\ UNCHANGED reports
             /\ UNCHANGED <<item, queue, refused, arrival>>
    BY <1>2 DEF Enqueue
  <2>2. pc' \in [Command -> {"new", "queued", "running", "terminal", "preempting", "done", "lost"}]
    BY <2>1 DEF TypeOK
  <2>3. [key |-> Target, stamp |-> PrunedBarrier, token |-> token, outcome |-> None] \in Item
    BY TargetType DEF TypeOK, Item
  <2>4. item' \in [Command -> Item]
    BY <2>1, <2>3, ItemType DEF TypeOK
  <2>5. Append(queue[Target], c) \in Seq(Command) /\ Append(arrival, c) \in Seq(Command)
    BY TargetType, AppendProperties DEF TypeOK
  <2>6. queue' \in [Generation -> Seq(Command)] /\ arrival' \in Seq(Command)
    <3>1. CASE queue' = [queue EXCEPT ![Target] = Append(@, c)] /\ arrival' = Append(arrival, c)
      BY <3>1, <2>5, TargetType DEF TypeOK
    <3>2. CASE UNCHANGED <<queue, arrival>>
      BY <3>2 DEF TypeOK
    <3>3. QED
      BY <2>1, <3>1, <3>2
  <2>7. reports' \in [Command -> Seq(Outcome)]
    BY <2>1, ReportType DEF TypeOK
  <2>8. faults' \in 0..MaxFaults /\ refused' \subseteq Command
    <3>1. NoFault \/ Fault
      BY <2>1
    <3>2. refused' = refused \/ refused' = refused \cup {c}
      BY <2>1
    <3>3. QED
      BY <3>1, <3>2, BoundsAssumption DEF TypeOK
  <2>9. QED
    BY <1>2, <2>2, <2>4, <2>6, <2>7, <2>8, TargetType DEF Enqueue, TypeOK, lane
<1>3. ASSUME NEW c \in Command, StartItem(c) PROVE TypeOK'
  <2>1. pc' \in [Command -> {"new", "queued", "running", "terminal", "preempting", "done", "lost"}]
    <3>1. pc' = [pc EXCEPT ![c] = "terminal"] \/ pc' = [pc EXCEPT ![c] = "running"]
      BY <1>3 DEF StartItem
    <3>2. QED
      BY <3>1 DEF TypeOK
  <2>2. item' \in [Command -> Item]
    <3>1. \/ item' = item
          \/ item' = [item EXCEPT ![c] = [item[c] EXCEPT !.outcome = "preempted"]]
          \/ item' = [item EXCEPT ![c] = [item[c] EXCEPT !.outcome = "failed"]]
      BY <1>3 DEF StartItem
    <3>2. QED
      BY <3>1, OutcomeType, ItemType DEF TypeOK
  <2>3. ran' \in Seq(Command)
    <3>1. Append(ran, c) \in Seq(Command)
      BY AppendProperties DEF TypeOK
    <3>2. ran' \in {ran, Append(ran, c)}
      BY <1>3 DEF StartItem
    <3>3. QED
      BY <3>1, <3>2 DEF TypeOK
  <2>4. under' \in [Command -> Lease \cup {None}]
    <3>1. under' = under \/ under' = [under EXCEPT ![c] = lease]
      BY <1>3 DEF StartItem
    <3>2. under \in [Command -> Lease \cup {None}] /\ lease \in Lease \cup {None}
      BY DEF TypeOK
    <3>3. [under EXCEPT ![c] = lease] \in [Command -> Lease \cup {None}]
      BY <3>2
    <3>4. QED
      BY <3>1, <3>2, <3>3
  <2>5. QED
    BY <1>3, <2>1, <2>2, <2>3, <2>4 DEF StartItem, TypeOK, lane
<1>4. ASSUME NEW c \in Command, EndEffect(c) PROVE TypeOK'
  <2>1. item' \in [Command -> Item]
    BY <1>4, OutcomeType, ItemType DEF EndEffect
  <2>2. QED
    BY <1>4, <2>1 DEF EndEffect, TypeOK, lane, history
<1>5. ASSUME NEW c \in Command, TerminalizeItem(c) PROVE TypeOK'
  <2>1. queue' \in [Generation -> Seq(Command)]
    BY <1>5, DequeueType DEF TerminalizeItem, QueueInv
  <2>2. reports' \in [Command -> Seq(Outcome)]
    BY <1>5, ReportType DEF TerminalizeItem, ProgressInv, TypeOK
  <2>3. faults' \in 0..MaxFaults
    BY <1>5 DEF TerminalizeItem, TypeOK
  <2>4. QED
    BY <1>5, <2>1, <2>2, <2>3 DEF TerminalizeItem, TypeOK, lane
<1>6. ASSUME NEW c \in Command, SkipItem(c) PROVE TypeOK'
  <2>1. queue' \in [Generation -> Seq(Command)]
    BY <1>6, DequeueType DEF SkipItem
  <2>2. pc' \in [Command -> {"new", "queued", "running", "terminal", "preempting", "done", "lost"}]
    BY <1>6 DEF SkipItem, TypeOK
  <2>3. QED
    BY <1>6, <2>1, <2>2 DEF SkipItem, TypeOK, lane, history
<1>7. ASSUME NEW o \in Takeover \cup Delegate, Request(o) PROVE TypeOK'
  <2>1. op' \in [Takeover \cup Delegate ->
                   {"new", "requested", "preempting", "leased", "answered", "failed"}]
    BY <1>7 DEF Request, TypeOK
  <2>2. faults' \in 0..MaxFaults /\ barrier' \in Nat
    BY <1>7, TargetType DEF Request, TypeOK
  <2>3. UNCHANGED <<epoch, surface, lane, items, waits, history>>
    BY <1>7 DEF Request
  <2>4. QED
    BY <2>1, <2>2, <2>3 DEF TypeOK, lane, items, history
<1>8. ASSUME NEW t \in Takeover, Bump(t) PROVE TypeOK'
  <2> DEFINE victims == {c \in Elements(queue[Target]) : Preemptable(c)}
  <2>1. pc' \in [Command -> {"new", "queued", "running", "terminal", "preempting", "done", "lost"}]
    BY <1>8 DEF Bump, TypeOK
  <2>2. item' \in [Command -> Item]
    <3>1. item' = [c \in Command |-> IF c \in victims
                      THEN [item[c] EXCEPT !.outcome = "preempted"] ELSE item[c]]
      BY <1>8 DEF Bump
    <3>2. \A c \in Command : item[c] \in Item /\ [item[c] EXCEPT !.outcome = "preempted"] \in Item
      BY OutcomeType DEF TypeOK
    <3>3. QED
      BY <3>1, <3>2
  <2>3. victims \subseteq Command
    BY DEF Preemptable
  <2>4. waits' \in [Takeover -> SUBSET Command]
    BY <1>8, <2>3 DEF Bump, TypeOK
  <2>5. QED
    BY <1>8, <2>1, <2>2, <2>4 DEF Bump, TypeOK, lane
<1>9. ASSUME NEW c \in Command, TerminalizePreempted(c) PROVE TypeOK'
  <2>1. reports' \in [Command -> Seq(Outcome)]
    BY <1>9, ReportType DEF TerminalizePreempted, ProgressInv, TypeOK
  <2>2. faults' \in 0..MaxFaults
    BY <1>9 DEF TerminalizePreempted, TypeOK
  <2>3. op' \in [Takeover \cup Delegate ->
                   {"new", "requested", "preempting", "leased", "answered", "failed"}]
    BY <1>9 DEF TerminalizePreempted, TypeOK
  <2>4. waits' \in [Takeover -> SUBSET Command]
    BY <1>9 DEF TerminalizePreempted, TypeOK
  <2>5. QED
    BY <1>9, <2>1, <2>2, <2>3, <2>4 DEF TerminalizePreempted, TypeOK, lane
<1>10. ASSUME NEW o \in Takeover \cup Delegate, TakeLease(o) PROVE TypeOK'
  <2>1. PICK kind \in {"human", "psyche"} : Replace(kind)
    BY <1>10 DEF TakeLease
  <2>2. [epoch |-> epoch, revision |-> revision + 1, kind |-> kind] \in Lease
    BY DEF TypeOK, Lease
  <2>3. revision' \in Nat /\ lease' \in Lease /\ granted' \subseteq Lease
    BY <2>1, <2>2 DEF Replace, TypeOK
  <2>4. expired' \in BOOLEAN
    BY <2>1 DEF Replace
  <2>5. op' \in [Takeover \cup Delegate ->
                   {"new", "requested", "preempting", "leased", "answered", "failed"}]
    BY <1>10 DEF TakeLease, TypeOK
  <2>6. UNCHANGED <<epoch, surface, barrier, items, waits, faults, arrival, ran, under, fenced, reports>>
    BY <1>10 DEF TakeLease
  <2>7. QED
    BY <2>3, <2>4, <2>5, <2>6 DEF TypeOK, items
<1>11. ASSUME NEW o \in Takeover \cup Delegate, Answer(o) PROVE TypeOK'
  <2>1. op' \in [Takeover \cup Delegate ->
                   {"new", "requested", "preempting", "leased", "answered", "failed"}]
    BY <1>11 DEF Answer, TypeOK
  <2>2. faults' \in 0..MaxFaults
    BY <1>11 DEF Answer, TypeOK
  <2>3. QED
    BY <1>11, <2>1, <2>2 DEF Answer, TypeOK, lane, items, history
<1>12. CASE SubmitElsewhere
  BY <1>12, TargetType DEF SubmitElsewhere, TypeOK, lane, items, history
<1>13. CASE Register \/ Withdraw
  <2>1. surface' \in [registered : BOOLEAN, generation : Generation]
    <3>1. surface.generation \in Generation
      BY DEF TypeOK
    <3>2. CASE Register
      <4>1. surface.generation + 1 \in Generation
        BY <3>1, <3>2 DEF Register
      <4>2. QED
        BY <3>2, <4>1 DEF Register
    <3>3. CASE Withdraw
      <4>1. surface' = [registered |-> FALSE, generation |-> surface.generation]
        BY <3>3 DEF Withdraw, TypeOK
      <4>2. QED
        BY <3>1, <4>1
    <3>4. QED
      BY <1>13, <3>2, <3>3
  <2>2. QED
    BY <1>13, <2>1 DEF Register, Withdraw, TypeOK, lane, items, history
<1>14. CASE Expire
  BY <1>14 DEF Expire, TypeOK, items, history
<1>15. CASE Restart
  <2>1. surface' \in [registered : BOOLEAN, generation : Generation]
    <3>1. surface' \in [registered : BOOLEAN, generation : {0, 1}]
      BY <1>15 DEF Restart
    <3>2. {0, 1} \subseteq Generation
      OBVIOUS
    <3>3. QED
      BY <3>1, <3>2
  <2>2. item' \in [Command -> Item]
    <3>1. item' = [c \in Command |-> [key |-> 0, stamp |-> 0, token |-> item[c].token,
                                             outcome |-> item[c].outcome]]
      BY <1>15 DEF Restart
    <3>2. \A c \in Command : item[c] \in Item
      BY DEF TypeOK
    <3>3. \A i \in Item : [key |-> 0, stamp |-> 0, token |-> i.token, outcome |-> i.outcome] \in Item
      BY DEF Item
    <3>4. QED
      BY <3>1, <3>2, <3>3
  <2>3. queue' \in [Generation -> Seq(Command)]
    BY <1>15, EmptySeq DEF Restart
  <2>4. epoch' \in Epoch /\ revision' \in Nat /\ barrier' \in Nat
    <3>1. epoch < MaxEpoch /\ epoch' = epoch + 1 /\ revision' = 0 /\ barrier' = 0
      BY <1>15 DEF Restart
    <3>2. QED
      BY <3>1 DEF TypeOK, Epoch
  <2>5. pc' \in [Command -> {"new", "queued", "running", "terminal", "preempting", "done", "lost"}]
    BY <1>15 DEF Restart, TypeOK
  <2>6. op' \in [Takeover \cup Delegate ->
                   {"new", "requested", "preempting", "leased", "answered", "failed"}]
    BY <1>15 DEF Restart, TypeOK
  <2>7. waits' \in [Takeover -> SUBSET Command] /\ refused' \subseteq Command
    BY <1>15 DEF Restart
  <2>8. expired' \in BOOLEAN /\ lease' \in Lease \cup {None}
    BY <1>15 DEF Restart
  <2>9. UNCHANGED <<faults, history>>
    BY <1>15 DEF Restart
  <2>10. QED
    BY <2>1, <2>2, <2>3, <2>4, <2>5, <2>6, <2>7, <2>8, <2>9 DEF TypeOK, history
<1>16. QED
  BY <1>1, <1>2, <1>3, <1>4, <1>5, <1>6, <1>7, <1>8, <1>9, <1>10, <1>11, <1>12, <1>13, <1>14,
     <1>15 DEF Next, Step

-----------------------------------------------------------------------------
(* Queues. *)

\* Taking the head from a queue leaves the other items and the other heads.
LEMMA DequeueKeeps ==
  ASSUME TypeOK, NEW c \in Command, Turn(c), Dequeue(c), NEW d \in Command, d # c
  PROVE  /\ d \in Elements(queue[item[d].key]) => d \in Elements(queue'[item[d].key])
         /\ Turn(d) => queue'[item[d].key] = queue[item[d].key]
<1>1. item[c].key \in Generation /\ item[d].key \in Generation
  BY DEF TypeOK, Item
<1>2. queue' = [queue EXCEPT ![item[c].key] = Tail(@)] /\ queue \in [Generation -> Seq(Command)]
  BY DEF Dequeue, TypeOK
<1>3. CASE item[d].key = item[c].key
  <2>1. queue[item[c].key] \in Seq(Command) /\ queue[item[c].key] # <<>> /\ Head(queue[item[c].key]) = c
    BY <1>1, <1>2 DEF Turn
  <2>2. queue'[item[d].key] = Tail(queue[item[c].key])
    BY <1>1, <1>2, <1>3
  <2>3. Elements(queue[item[c].key]) \subseteq Elements(Tail(queue[item[c].key])) \cup {c}
    BY <2>1, ElementsTail
  <2>4. QED
    BY <1>3, <2>1, <2>2, <2>3 DEF Turn
<1>4. CASE item[d].key # item[c].key
  BY <1>1, <1>2, <1>4
<1>5. QED
  BY <1>3, <1>4

LEMMA QueueStep == TypeOK /\ QueueInv /\ [Next]_vars => QueueInv'
<1> SUFFICES ASSUME TypeOK, QueueInv, [Next]_vars PROVE QueueInv'
  OBVIOUS
<1>1. ASSUME UNCHANGED <<queue, item, pc>> PROVE QueueInv'
  BY <1>1 DEF QueueInv, Turn
<1>2. ASSUME NEW c \in Command, Enqueue(c) PROVE QueueInv'
  <2>1. CASE UNCHANGED <<item, queue>> /\ pc' = [pc EXCEPT ![c] = "done"]
    BY <2>1 DEF QueueInv, Turn, TypeOK
  <2>2. CASE /\ pc' = [pc EXCEPT ![c] = "queued"]
             /\ item'[c].key = Target
             /\ \A d \in Command \ {c} : item'[d] = item[d]
             /\ queue' = [queue EXCEPT ![Target] = Append(@, c)]
    <3> SUFFICES ASSUME NEW d \in Command
                 PROVE  /\ pc'[d] = "queued" => d \in Elements(queue'[item'[d].key])
                        /\ pc'[d] \in {"running", "terminal"} => Turn(d)'
      BY DEF QueueInv
    <3>1. Target \in Generation /\ queue[Target] \in Seq(Command) /\ item[d].key \in Generation
      BY TargetType DEF TypeOK, Item
    <3>2. queue'[Target] = Append(queue[Target], c)
      BY <2>2, <3>1 DEF TypeOK
    <3>3. Elements(queue'[Target]) = Elements(queue[Target]) \cup {c}
      BY <3>1, <3>2, ElementsAppend
    <3>4. queue[Target] # <<>> => queue'[Target] # <<>> /\ Head(queue'[Target]) = Head(queue[Target])
      BY <3>1, <3>2, HeadTailAppend, AppendProperties
    <3>5. CASE d = c
      BY <2>2, <3>3, <3>5 DEF TypeOK
    <3>6. CASE d # c
      <4>1. pc'[d] = pc[d] /\ item'[d] = item[d]
        BY <2>2, <3>6 DEF TypeOK
      <4>2. CASE item[d].key = Target
        BY <3>3, <3>4, <4>1, <4>2 DEF QueueInv, Turn
      <4>3. CASE item[d].key # Target
        <5>1. queue'[item[d].key] = queue[item[d].key]
          BY <2>2, <3>1, <4>3 DEF TypeOK
        <5>2. QED
          BY <4>1, <5>1 DEF QueueInv, Turn
      <4>4. QED
        BY <4>2, <4>3
    <3>7. QED
      BY <3>5, <3>6
  <2>3. PICK token :
          \/ /\ pc' = [pc EXCEPT ![c] = "queued"]
             /\ item' = [item EXCEPT ![c] = [key |-> Target, stamp |-> PrunedBarrier,
                                              token |-> token, outcome |-> None]]
             /\ queue' = [queue EXCEPT ![Target] = Append(@, c)]
          \/ UNCHANGED <<item, queue>> /\ pc' = [pc EXCEPT ![c] = "done"]
    BY <1>2 DEF Enqueue
  <2>4. CASE item' = [item EXCEPT ![c] = [key |-> Target, stamp |-> PrunedBarrier,
                                           token |-> token, outcome |-> None]]
    <3>1. item'[c].key = Target /\ \A d \in Command \ {c} : item'[d] = item[d]
      BY <2>4 DEF TypeOK
    <3>2. QED
      BY <2>1, <2>2, <2>3, <3>1
  <2>5. QED
    BY <2>1, <2>3, <2>4
<1>3. ASSUME NEW c \in Command, StartItem(c) PROVE QueueInv'
  <2>1. UNCHANGED queue /\ \A d \in Command : item'[d].key = item[d].key
    <3>1. UNCHANGED queue /\ \/ item' = item
                             \/ \E o \in Outcome : item' = [item EXCEPT ![c].outcome = o]
      BY <1>3 DEF StartItem
    <3>2. ASSUME NEW o \in Outcome, item' = [item EXCEPT ![c].outcome = o]
          PROVE  \A d \in Command : item'[d].key = item[d].key
      BY <3>2 DEF TypeOK, Item
    <3>3. QED
      BY <3>1, <3>2
  <2>2. Turn(c) /\ \A d \in Command \ {c} : pc'[d] = pc[d]
    BY <1>3 DEF StartItem, TypeOK
  <2>3. pc'[c] \in {"running", "terminal"}
    BY <1>3 DEF StartItem, TypeOK
  <2>4. QED
    BY <2>1, <2>2, <2>3 DEF QueueInv, Turn
<1>4. ASSUME NEW c \in Command, EndEffect(c) PROVE QueueInv'
  <2>1. UNCHANGED queue /\ \A d \in Command : item'[d].key = item[d].key
    BY <1>4 DEF EndEffect, TypeOK, Item
  <2>2. pc[c] = "running" /\ pc'[c] = "terminal" /\ \A d \in Command \ {c} : pc'[d] = pc[d]
    BY <1>4 DEF EndEffect, TypeOK
  <2>3. QED
    BY <2>1, <2>2 DEF QueueInv, Turn
<1>5. ASSUME NEW c \in Command, TerminalizeItem(c) \/ SkipItem(c) PROVE QueueInv'
  <2>1. Turn(c) /\ Dequeue(c) /\ UNCHANGED item
    BY <1>5 DEF TerminalizeItem, SkipItem, QueueInv
  <2>2. pc'[c] \in {"preempting", "done"} /\ \A d \in Command \ {c} : pc'[d] = pc[d]
    BY <1>5 DEF TerminalizeItem, SkipItem, TypeOK
  <2>3. QED
    BY <2>1, <2>2, DequeueKeeps DEF QueueInv, Turn
<1>6. ASSUME NEW t \in Takeover, Bump(t) PROVE QueueInv'
  <2>1. UNCHANGED queue /\ \A d \in Command : item'[d].key = item[d].key
    BY <1>6 DEF Bump, TypeOK, Item
  <2>2. \A d \in Command : pc'[d] \in {pc[d], "preempting"}
    BY <1>6 DEF Bump
  <2>3. QED
    BY <2>1, <2>2 DEF QueueInv, Turn
<1>7. ASSUME NEW c \in Command, TerminalizePreempted(c) PROVE QueueInv'
  <2>1. UNCHANGED <<queue, item>> /\ \A d \in Command : pc'[d] \in {pc[d], "done"}
    BY <1>7 DEF TerminalizePreempted, TypeOK
  <2>2. QED
    BY <2>1 DEF QueueInv, Turn
<1>8. ASSUME Restart PROVE QueueInv'
  <2>1. \A c \in Command : pc'[c] \in {"new", "done", "lost"}
    BY <1>8 DEF Restart
  <2>2. QED
    BY <2>1 DEF QueueInv
<1>9. QED
  BY <1>1, <1>2, <1>3, <1>4, <1>5, <1>6, <1>7, <1>8
     DEF Next, Step, Request, TakeLease, Answer, SubmitElsewhere, Register, Withdraw, Expire,
         vars, items

-----------------------------------------------------------------------------
(* Outcomes and reports. *)

\* Starting an effect puts exactly its command among the effects.
LEMMA RanGrows ==
  ASSUME TypeOK, NEW c \in Command, ran' = Append(ran, c)
  PROVE  Elements(ran') = Elements(ran) \cup {c}
BY ElementsAppend DEF TypeOK

LEMMA OneReport ==
  ASSUME NEW o \in Outcome
  PROVE  Len(<<o>>) = 1 /\ <<o>> # <<>> /\ (<<o>> = <<"settled">> <=> o = "settled")
<1>1. <<o>>[1] = o /\ <<"settled">>[1] = "settled"
  OBVIOUS
<1>2. Len(<<o>>) = 1 /\ Len(<<>>) = 0
  OBVIOUS
<1>3. QED
  BY <1>1, <1>2

LEMMA ProgressStep ==
  TypeOK /\ ProgressInv /\ ReportsHold /\ [Next]_vars => ProgressInv' /\ ReportsHold'
<1> SUFFICES ASSUME TypeOK, ProgressInv, ReportsHold, [Next]_vars PROVE ProgressInv' /\ ReportsHold'
  OBVIOUS
<1>1. ASSUME UNCHANGED <<pc, item, ran, reports>> PROVE ProgressInv' /\ ReportsHold'
  BY <1>1 DEF ProgressInv, ReportsHold
<1>2. ASSUME NEW c \in Command, Enqueue(c) PROVE ProgressInv' /\ ReportsHold'
  <2>1. UNCHANGED ran /\ pc[c] = "new" /\ \A d \in Command \ {c} : pc'[d] = pc[d] /\ item'[d] = item[d]
    BY <1>2 DEF Enqueue, TypeOK
  <2>2. CASE pc'[c] = "queued" /\ UNCHANGED reports
    BY <2>1, <2>2 DEF ProgressInv, ReportsHold
  <2>3. CASE pc'[c] = "done" /\ (UNCHANGED reports \/ reports' = [reports EXCEPT ![c] = Append(@, "rejected")])
    <3>1. c \notin Elements(ran) /\ reports[c] = <<>>
      BY <2>1 DEF ProgressInv
    <3>2. reports'[c] \in {<<>>, <<"rejected">>} /\ \A d \in Command \ {c} : reports'[d] = reports[d]
      BY <2>3, <3>1 DEF TypeOK
    <3>3. Len(reports'[c]) <= 1 /\ (reports'[c] # <<>> => reports'[c] # <<"settled">>)
      <4>1. CASE reports'[c] = <<>>
        BY <4>1
      <4>2. CASE reports'[c] = <<"rejected">>
        <5>1. Len(<<"rejected">>) = 1 /\ <<"rejected">> # <<"settled">>
          BY OneReport
        <5>2. QED
          BY <4>2, <5>1
      <4>3. QED
        BY <3>2, <4>1, <4>2
    <3>4. QED
      BY <2>1, <2>3, <3>1, <3>2, <3>3 DEF ProgressInv, ReportsHold
  <2>4. QED
    BY <1>2, <2>2, <2>3 DEF Enqueue, TypeOK
<1>3. ASSUME NEW c \in Command, StartItem(c) PROVE ProgressInv' /\ ReportsHold'
  <2>1. UNCHANGED reports /\ pc[c] = "queued" /\ \A d \in Command \ {c} : pc'[d] = pc[d] /\ item'[d] = item[d]
    BY <1>3 DEF StartItem, TypeOK
  <2>2. CASE /\ pc'[c] = "terminal"
             /\ \E o \in {"preempted", "failed"} : item' = [item EXCEPT ![c].outcome = o]
             /\ UNCHANGED ran
    <3>1. item'[c].outcome \in {"preempted", "failed"}
      BY <2>2 DEF TypeOK, Item
    <3>2. QED
      BY <2>1, <2>2, <3>1 DEF ProgressInv, ReportsHold
  <2>3. CASE pc'[c] = "running" /\ ran' = Append(ran, c) /\ UNCHANGED item
    <3>1. Elements(ran') = Elements(ran) \cup {c}
      BY <2>3, RanGrows
    <3>2. reports[c] = <<>>
      BY <2>1 DEF ProgressInv
    <3>3. QED
      BY <2>1, <2>3, <3>1, <3>2 DEF ProgressInv, ReportsHold
  <2>4. QED
    BY <1>3, <2>2, <2>3 DEF StartItem, TypeOK
<1>4. ASSUME NEW c \in Command, EndEffect(c) PROVE ProgressInv' /\ ReportsHold'
  <2>1. /\ UNCHANGED <<ran, reports>> /\ pc[c] = "running" /\ pc'[c] = "terminal"
        /\ \A d \in Command \ {c} : pc'[d] = pc[d] /\ item'[d] = item[d]
    BY <1>4 DEF EndEffect, TypeOK, history
  <2>2. item'[c].outcome = "settled"
    BY <1>4 DEF EndEffect, TypeOK, Item
  <2>3. QED
    BY <2>1, <2>2 DEF ProgressInv, ReportsHold
<1>5. ASSUME NEW c \in Command, TerminalizeItem(c) \/ TerminalizePreempted(c)
      PROVE  ProgressInv' /\ ReportsHold'
  <2>1. /\ UNCHANGED <<ran, item>> /\ pc[c] \in {"terminal", "preempting"} /\ pc'[c] = "done"
        /\ \A d \in Command \ {c} : pc'[d] = pc[d]
    BY <1>5 DEF TerminalizeItem, TerminalizePreempted, TypeOK
  <2>2. UNCHANGED reports \/ reports' = [reports EXCEPT ![c] = Append(@, item[c].outcome)]
    BY <1>5 DEF TerminalizeItem, TerminalizePreempted
  <2>3. reports[c] = <<>> /\ (item[c].outcome = "settled" <=> c \in Elements(ran))
    BY <2>1 DEF ProgressInv
  <2>4. \A d \in Command \ {c} : reports'[d] = reports[d]
    BY <2>2 DEF TypeOK
  <2>5. reports'[c] \in {<<>>, <<item[c].outcome>>}
    BY <2>2, <2>3 DEF TypeOK
  <2>6. Len(reports'[c]) <= 1 /\ (reports'[c] # <<>> =>
                                    (reports'[c] = <<"settled">> <=> c \in Elements(ran)))
    <3>1. item[c].outcome \in Outcome
      BY <2>1 DEF ProgressInv
    <3>2. CASE reports'[c] = <<>>
      BY <3>2
    <3>3. CASE reports'[c] = <<item[c].outcome>>
      <4>1. /\ Len(<<item[c].outcome>>) = 1
            /\ <<item[c].outcome>> = <<"settled">> <=> item[c].outcome = "settled"
        BY <3>1, OneReport
      <4>2. QED
        BY <2>3, <3>3, <4>1
    <3>4. QED
      BY <2>5, <3>2, <3>3
  <2>7. QED
    BY <2>1, <2>4, <2>6 DEF ProgressInv, ReportsHold
<1>6. ASSUME NEW c \in Command, SkipItem(c) PROVE ProgressInv' /\ ReportsHold'
  <2>1. UNCHANGED <<item, ran, reports>>
    BY <1>6 DEF SkipItem, history
  <2>2. \A d \in Command : pc'[d] = pc[d] \/ (pc[d] = "queued" /\ pc'[d] = "done")
    BY <1>6 DEF SkipItem, TypeOK
  <2>3. QED
    BY <2>1, <2>2 DEF ProgressInv, ReportsHold
<1>7. ASSUME NEW t \in Takeover, Bump(t) PROVE ProgressInv' /\ ReportsHold'
  <2>1. UNCHANGED <<ran, reports>>
    BY <1>7 DEF Bump
  <2>2. \A c \in Command :
          \/ pc'[c] = pc[c] /\ item'[c] = item[c]
          \/ pc[c] = "queued" /\ pc'[c] = "preempting" /\ item'[c].outcome = "preempted"
    BY <1>7 DEF Bump, Preemptable, TypeOK, Item
  <2>3. QED
    BY <2>1, <2>2 DEF ProgressInv, ReportsHold
<1>8. ASSUME Restart PROVE ProgressInv' /\ ReportsHold'
  <2>1. UNCHANGED <<ran, reports>>
    BY <1>8 DEF Restart, history
  <2>2. \A c \in Command : pc'[c] = IF pc[c] \in {"new", "done"} THEN pc[c] ELSE "lost"
    BY <1>8 DEF Restart
  <2>3. QED
    BY <2>1, <2>2 DEF ProgressInv, ReportsHold
<1>9. QED
  BY <1>1, <1>2, <1>3, <1>4, <1>5, <1>6, <1>7, <1>8
     DEF Next, Step, Request, TakeLease, Answer, SubmitElsewhere, Register, Withdraw, Expire,
         vars, items, history

-----------------------------------------------------------------------------
(* The barrier. *)

\* The barrier is not dropped while an item waits.
LEMMA BarrierKept ==
  ASSUME TypeOK, QueueInv, NEW c \in Command, pc[c] = "queued"
  PROVE  PrunedBarrier = barrier
<1>1. item[c].key \in Generation /\ c \in Elements(queue[item[c].key])
  BY DEF TypeOK, Item, QueueInv
<1>2. c \in Queued
  BY <1>1 DEF Queued
<1>3. QED
  BY <1>2 DEF PrunedBarrier, Retired

LEMMA FenceStep ==
  TypeOK /\ QueueInv /\ ProgressInv /\ FenceInv /\ [Next]_vars => FenceInv'
<1> SUFFICES ASSUME TypeOK, QueueInv, ProgressInv, FenceInv, [Next]_vars PROVE FenceInv'
  OBVIOUS
<1> USE CommandsAssumption
<1>1. ASSUME UNCHANGED <<pc, item, ran, fenced>>, barrier' \in {barrier, PrunedBarrier}
      PROVE  FenceInv'
  <2>1. \A c \in Automation : pc[c] = "queued" => barrier' = barrier
    BY <1>1, BarrierKept
  <2>2. fenced \subseteq Automation
    BY DEF TypeOK
  <2>3. QED
    BY <1>1, <2>1, <2>2 DEF FenceInv
<1>2. ASSUME NEW c \in Command, Enqueue(c) PROVE FenceInv'
  <2>1. /\ UNCHANGED <<ran, fenced>> /\ pc[c] = "new" /\ barrier' = PrunedBarrier
        /\ pc'[c] \in {"queued", "done"}
        /\ \A d \in Command \ {c} : pc'[d] = pc[d] /\ item'[d] = item[d]
    BY <1>2 DEF Enqueue, TypeOK
  <2>2. pc'[c] = "queued" => item'[c].stamp = barrier'
    BY <1>2 DEF Enqueue, TypeOK
  <2>3. \A d \in Automation : pc[d] = "queued" => barrier' = barrier
    BY <2>1, BarrierKept
  <2>4. barrier' \in Nat /\ fenced \subseteq Automation
    BY <2>1, TargetType DEF TypeOK
  <2>5. c \notin fenced
    BY <2>1 DEF FenceInv
  <2>6. QED
    BY <2>1, <2>2, <2>3, <2>4, <2>5 DEF FenceInv
<1>3. ASSUME NEW c \in Command, StartItem(c) PROVE FenceInv'
  <2>1. /\ UNCHANGED <<barrier, fenced>> /\ pc[c] = "queued" /\ pc'[c] \in {"running", "terminal"}
        /\ \A d \in Command \ {c} : pc'[d] = pc[d] /\ item'[d] = item[d]
    BY <1>3 DEF StartItem, TypeOK
  <2>2. CASE c \in fenced
    <3>1. item[c].stamp < barrier /\ item[c].stamp \in Nat /\ barrier \in Nat /\ c \in Automation
      BY <2>1, <2>2 DEF FenceInv, TypeOK, Item
    <3>2. Stale(c)
      BY <3>1 DEF Stale
    <3>3. pc'[c] = "terminal" /\ UNCHANGED ran
      BY <1>3, <3>2 DEF StartItem, TypeOK
    <3>4. QED
      BY <2>1, <3>3 DEF FenceInv, TypeOK
  <2>3. CASE c \notin fenced
    <3>1. Elements(ran') \subseteq Elements(ran) \cup {c}
      BY <1>3, RanGrows DEF StartItem
    <3>2. QED
      BY <2>1, <2>3, <3>1 DEF FenceInv, TypeOK
  <2>4. QED
    BY <2>2, <2>3
<1>4. ASSUME NEW c \in Command, EndEffect(c) PROVE FenceInv'
  <2>1. /\ UNCHANGED <<barrier, fenced, ran>> /\ pc'[c] = "terminal"
        /\ \A d \in Command \ {c} : pc'[d] = pc[d] /\ item'[d] = item[d]
    BY <1>4 DEF EndEffect, TypeOK, history
  <2>2. QED
    BY <2>1 DEF FenceInv, TypeOK
<1>5. ASSUME NEW c \in Command, TerminalizeItem(c) \/ SkipItem(c) \/ TerminalizePreempted(c)
      PROVE  FenceInv'
  <2>1. UNCHANGED <<barrier, fenced, ran, item>>
    BY <1>5 DEF TerminalizeItem, SkipItem, TerminalizePreempted, history
  <2>2. \A d \in Command : pc'[d] \in {pc[d], "done"}
    BY <1>5 DEF TerminalizeItem, SkipItem, TerminalizePreempted, TypeOK
  <2>3. QED
    BY <2>1, <2>2 DEF FenceInv, TypeOK
<1>6. ASSUME NEW t \in Takeover, Bump(t) PROVE FenceInv'
  <2>1. /\ UNCHANGED ran /\ barrier' = barrier + 1
        /\ fenced' = fenced \cup {c \in Automation : pc[c] = "queued"}
    BY <1>6 DEF Bump
  <2>2. \A c \in Command : /\ pc'[c] = pc[c] \/ (pc[c] = "queued" /\ pc'[c] = "preempting")
                           /\ item'[c].stamp = item[c].stamp
    BY <1>6 DEF Bump, Preemptable, TypeOK, Item
  <2>3. barrier \in Nat /\ \A c \in Command : item[c].stamp \in Nat
    BY DEF TypeOK, Item
  <2>4. \A c \in Command : pc[c] = "queued" => c \notin Elements(ran)
    BY DEF ProgressInv
  <2>5. \A c \in Automation : pc'[c] = "queued" => item'[c].stamp <= barrier'
    <3> SUFFICES ASSUME NEW c \in Automation, pc'[c] = "queued" PROVE item'[c].stamp <= barrier'
      OBVIOUS
    <3>1. item[c].stamp <= barrier
      BY <2>2, CommandsAssumption DEF FenceInv
    <3>2. QED
      BY <2>1, <2>2, <2>3, <3>1
  <2>6. ASSUME NEW c \in fenced'
        PROVE  /\ pc'[c] \notin {"new", "running"} /\ c \notin Elements(ran')
               /\ pc'[c] = "queued" => item'[c].stamp < barrier'
    <3>1. c \in Command /\ item[c].stamp \in Nat
      BY <2>1, <2>3 DEF TypeOK
    <3>2. CASE c \in fenced
      <4>1. pc[c] = "queued" => item[c].stamp < barrier
        BY <3>2 DEF FenceInv
      <4>2. QED
        BY <2>1, <2>2, <2>3, <3>1, <3>2, <4>1 DEF FenceInv
    <3>3. CASE c \in Automation /\ pc[c] = "queued"
      <4>1. item[c].stamp <= barrier
        BY <3>3 DEF FenceInv
      <4>2. QED
        BY <2>1, <2>2, <2>3, <2>4, <3>1, <3>3, <4>1
    <3>4. QED
      BY <2>1, <3>2, <3>3
  <2>7. QED
    BY <2>5, <2>6 DEF FenceInv
<1>7. ASSUME Restart PROVE FenceInv'
  <2>1. UNCHANGED <<ran, fenced>>
    BY <1>7 DEF Restart, history
  <2>2. \A c \in Command : pc'[c] = IF pc[c] \in {"new", "done"} THEN pc[c] ELSE "lost"
    BY <1>7 DEF Restart
  <2>3. QED
    BY <2>1, <2>2 DEF FenceInv, TypeOK
<1>8. QED
  BY <1>1, <1>2, <1>3, <1>4, <1>5, <1>6, <1>7
     DEF Next, Step, Request, TakeLease, Answer, SubmitElsewhere, Register, Withdraw, Expire,
         vars, items, history

-----------------------------------------------------------------------------
(* The lane. *)

\* A lease that satisfies the check by revision is the lease that was presented.
LEMMA LeaseIdentified ==
  ASSUME LaneInv, NEW c \in Command, pc[c] = "queued", HoldsLane(c)
  PROVE  lease = item[c].token
<1>1. lease \in granted /\ item[c].token \in granted /\ lease.epoch = item[c].token.epoch
  BY DEF LaneInv, HoldsLane
<1>2. QED
  BY <1>1 DEF LaneInv, HoldsLane

LEMMA LaneStep ==
  TypeOK /\ ProgressInv /\ LaneInv /\ RunsUnderItsLease /\ [Next]_vars
    => LaneInv' /\ RunsUnderItsLease'
<1> SUFFICES ASSUME TypeOK, ProgressInv, LaneInv, RunsUnderItsLease, [Next]_vars
             PROVE  LaneInv' /\ RunsUnderItsLease'
  OBVIOUS
<1> USE CommandsAssumption
<1>1. ASSUME UNCHANGED <<epoch, granted, revision, lease, ran, under>>,
             \A c \in Command : item'[c].token = item[c].token,
             \A c \in Command : pc'[c] = "queued" => pc[c] = "queued"
      PROVE  LaneInv' /\ RunsUnderItsLease'
  BY <1>1 DEF LaneInv, RunsUnderItsLease
<1>2. ASSUME NEW c \in Command, Enqueue(c) PROVE LaneInv' /\ RunsUnderItsLease'
  <2>1. /\ UNCHANGED <<epoch, granted, revision, lease, ran, under>> /\ pc[c] = "new"
        /\ \A d \in Command \ {c} : pc'[d] = pc[d] /\ item'[d] = item[d]
    BY <1>2 DEF Enqueue, TypeOK, lane
  <2>2. c \notin Elements(ran)
    BY <2>1 DEF ProgressInv
  <2>3. pc'[c] = "queued" /\ item'[c].token # None =>
          item'[c].token \in granted /\ item'[c].token.epoch = epoch
    BY <1>2 DEF Enqueue, TypeOK, Current
  <2>4. RunsUnderItsLease'
    BY <2>1, <2>2 DEF RunsUnderItsLease
  <2>5. QED
    BY <2>1, <2>3, <2>4 DEF LaneInv
<1>3. ASSUME NEW c \in Command, StartItem(c) PROVE LaneInv' /\ RunsUnderItsLease'
  <2>1. /\ UNCHANGED <<epoch, granted, revision, lease>> /\ pc[c] = "queued"
        /\ pc'[c] \in {"running", "terminal"}
        /\ \A d \in Command \ {c} : pc'[d] = pc[d] /\ item'[d] = item[d]
    BY <1>3 DEF StartItem, TypeOK, lane
  <2>2. LaneInv'
    BY <2>1 DEF LaneInv
  <2>3. CASE UNCHANGED <<ran, under>>
    <3>1. c \notin Elements(ran)
      BY <2>1 DEF ProgressInv
    <3>2. QED
      BY <2>1, <2>2, <2>3, <3>1 DEF RunsUnderItsLease
  <2>4. CASE /\ ran' = Append(ran, c) /\ under' = [under EXCEPT ![c] = lease] /\ UNCHANGED item
             /\ c \in Leased => HoldsLane(c)
    <3>1. Elements(ran') = Elements(ran) \cup {c}
      BY <2>4, RanGrows
    <3>2. c \in Leased => lease = item[c].token
      BY <2>1, <2>4, LeaseIdentified
    <3>3. under'[c] = lease /\ \A d \in Command \ {c} : under'[d] = under[d]
      BY <2>4 DEF TypeOK
    <3>4. QED
      BY <2>2, <2>4, <3>1, <3>2, <3>3 DEF RunsUnderItsLease
  <2>5. QED
    BY <1>3, <2>3, <2>4 DEF StartItem
<1>4. ASSUME NEW c \in Command, EndEffect(c) PROVE LaneInv' /\ RunsUnderItsLease'
  <2>1. \A d \in Command : item'[d].token = item[d].token
    BY <1>4 DEF EndEffect, TypeOK, Item
  <2>2. UNCHANGED <<epoch, granted, revision, lease, ran, under>>
    BY <1>4 DEF EndEffect, lane, history
  <2>3. \A d \in Command : pc'[d] = "queued" => pc[d] = "queued"
    BY <1>4 DEF EndEffect, TypeOK
  <2>4. QED
    BY <1>1, <2>1, <2>2, <2>3
<1>5. ASSUME NEW c \in Command, TerminalizeItem(c) \/ SkipItem(c) \/ TerminalizePreempted(c)
      PROVE  LaneInv' /\ RunsUnderItsLease'
  <2>1. UNCHANGED <<epoch, granted, revision, lease, ran, under, item>>
    BY <1>5 DEF TerminalizeItem, SkipItem, TerminalizePreempted, lane, history
  <2>2. \A d \in Command : pc'[d] = "queued" => pc[d] = "queued"
    BY <1>5 DEF TerminalizeItem, SkipItem, TerminalizePreempted, TypeOK
  <2>3. QED
    BY <1>1, <2>1, <2>2
<1>6. ASSUME NEW t \in Takeover, Bump(t) PROVE LaneInv' /\ RunsUnderItsLease'
  <2>1. UNCHANGED <<epoch, granted, revision, lease, ran, under>>
    BY <1>6 DEF Bump, lane
  <2>2. \A c \in Command : item'[c].token = item[c].token /\ (pc'[c] = "queued" => pc[c] = "queued")
    BY <1>6 DEF Bump, TypeOK, Item
  <2>3. QED
    BY <1>1, <2>1, <2>2
<1>7. ASSUME NEW o \in Takeover \cup Delegate, TakeLease(o) PROVE LaneInv' /\ RunsUnderItsLease'
  <2>1. PICK kind \in {"human", "psyche"} : Replace(kind)
    BY <1>7 DEF TakeLease
  <2> DEFINE next == [epoch |-> epoch, revision |-> revision + 1, kind |-> kind]
  <2>2. revision' = revision + 1 /\ lease' = next /\ granted' = granted \cup {next}
    BY <2>1 DEF Replace
  <2>3. UNCHANGED <<epoch, pc, item, ran, under>>
    BY <1>7 DEF TakeLease, items
  <2>4. revision \in Nat /\ epoch \in Nat /\ granted \subseteq Lease
    BY DEF TypeOK, Epoch
  <2>5. next.epoch = epoch /\ next.revision = revision + 1
    OBVIOUS
  <2>6. \A g \in granted : g.epoch <= epoch /\ (g.epoch = epoch => g.revision <= revision)
                           /\ g.revision \in Nat
    BY <2>4 DEF LaneInv, Lease
  <2>7. \A g \in granted' : g.epoch <= epoch /\ (g.epoch = epoch => g.revision <= revision')
    BY <2>2, <2>4, <2>5, <2>6
  <2>8. \A g, h \in granted' : g.epoch = h.epoch /\ g.revision = h.revision => g = h
    <3>1. \A g \in granted : ~(g.epoch = next.epoch /\ g.revision = next.revision)
      BY <2>4, <2>5, <2>6
    <3>2. \A g, h \in granted : g.epoch = h.epoch /\ g.revision = h.revision => g = h
      BY DEF LaneInv
    <3> HIDE DEF next
    <3>3. QED
      BY <2>2, <3>1, <3>2
  <2>9. RunsUnderItsLease'
    BY <2>3 DEF RunsUnderItsLease
  <2> HIDE DEF next
  <2>10. QED
    BY <2>2, <2>3, <2>5, <2>7, <2>8, <2>9 DEF LaneInv
<1>8. ASSUME Restart PROVE LaneInv' /\ RunsUnderItsLease'
  <2>1. /\ epoch' = epoch + 1 /\ revision' = 0 /\ lease' = None
        /\ UNCHANGED <<granted, ran, under>>
        /\ \A c \in Command : pc'[c] # "queued" /\ item'[c].token = item[c].token
    BY <1>8 DEF Restart, history
  <2>2. epoch \in Nat /\ \A g \in granted : g.epoch \in Nat
    BY DEF TypeOK, Epoch, Lease
  <2>3. QED
    BY <2>1, <2>2 DEF LaneInv, RunsUnderItsLease
<1>9. QED
  BY <1>1, <1>2, <1>3, <1>4, <1>5, <1>6, <1>7, <1>8
     DEF Next, Step, Request, Answer, SubmitElsewhere, Register, Withdraw, Expire,
         vars, lane, items, history

-----------------------------------------------------------------------------
(* The theorems. *)

\* The inductive invariant holds in every reachable state.
THEOREM Inductive == Spec => []IInv
<1>1. Init => IInv
  <2> SUFFICES ASSUME Init PROVE IInv
    OBVIOUS
  <2>1. Elements(<<>>) = {}
    BY EmptySeq DEF Elements
  <2>2. /\ \A c \in Command : pc[c] = "new" /\ reports[c] = <<>>
        /\ Elements(ran) = {} /\ fenced = {} /\ granted = {} /\ lease = None
    BY <2>1 DEF Init
  <2>3. QueueInv
    BY <2>2 DEF QueueInv
  <2>4. ProgressInv
    BY <2>2 DEF ProgressInv
  <2>5. FenceInv
    BY <2>2, CommandsAssumption DEF FenceInv
  <2>6. LaneInv
    BY <2>2 DEF LaneInv
  <2>7. ReportsHold
    BY <2>2, EmptySeq DEF ReportsHold
  <2>8. RunsUnderItsLease
    BY <2>2 DEF RunsUnderItsLease
  <2>9. QED
    BY <2>3, <2>4, <2>5, <2>6, <2>7, <2>8, TypeInit DEF IInv
<1>2. IInv /\ [Next]_vars => IInv'
  BY TypeStep, QueueStep, ProgressStep, FenceStep, LaneStep DEF IInv
<1>3. QED
  BY <1>1, <1>2, PTL DEF Spec

\* Every reachable state is well typed.
THEOREM TypeCorrect == Spec => []TypeOK
<1>1. IInv => TypeOK
  BY DEF IInv
<1>2. QED
  BY <1>1, Inductive, PTL

\* Automation that was waiting when a takeover raised the barrier never runs.
THEOREM Fences == Spec => []TakeoverFences
<1>1. IInv => TakeoverFences
  BY DEF IInv, FenceInv, TakeoverFences
<1>2. QED
  BY <1>1, Inductive, PTL

\* A command is reported at most once, and as what happened to it.
THEOREM Reported == Spec => []ReportsHold
<1>1. IInv => ReportsHold
  BY DEF IInv
<1>2. QED
  BY <1>1, Inductive, PTL

\* Input runs under the lease its client was given.
THEOREM LaneHeld == Spec => []RunsUnderItsLease
<1>1. IInv => RunsUnderItsLease
  BY DEF IInv
<1>2. QED
  BY <1>1, Inductive, PTL

-----------------------------------------------------------------------------
(* The order of effects. *)

\* c comes before d.
Before(seq, c, d) ==
    \E i, j \in 1..Len(seq) : i < j /\ seq[i] = c /\ seq[j] = d

NoRepeats(seq) == \A i, j \in 1..Len(seq) : seq[i] = seq[j] => i = j

\* Submission comes first and once, the effect later and once.
ArrivalInv ==
    /\ NoRepeats(arrival) /\ NoRepeats(ran)
    /\ \A c \in Command : pc[c] = "new" => c \notin Elements(arrival)
    /\ Elements(ran) \subseteq Elements(arrival)
    /\ \A g \in Generation : Elements(queue[g]) \subseteq Elements(arrival)

\* Queues are in the order of submission, and what had its turn precedes what waits or
\* has its turn now.
OrderInv ==
    /\ \A g \in Generation : \A i, j \in 1..Len(queue[g]) : i < j => Before(arrival, queue[g][i], queue[g][j])
    /\ \A c \in Elements(ran) : \A d \in Command :
         c # d /\ pc[d] \in {"queued", "running"} /\ item[c].key = item[d].key => Before(arrival, c, d)

SerialInv == ArrivalInv /\ OrderInv

\* A command is submitted.
Joins(c) ==
    /\ pc[c] = "new" /\ pc' = [pc EXCEPT ![c] = "queued"]
    /\ arrival' = Append(arrival, c) /\ ran' = ran
    /\ queue' = [queue EXCEPT ![Target] = Append(@, c)]
    /\ item'[c].key = Target
    /\ \A d \in Command \ {c} : item'[d] = item[d]

\* Its effect starts.
Starts(c) ==
    /\ pc[c] = "queued" /\ Turn(c) /\ pc' = [pc EXCEPT ![c] = "running"]
    /\ ran' = Append(ran, c)
    /\ UNCHANGED <<arrival, queue, item>>

\* Nothing is submitted, and nothing starts.
Goes ==
    /\ UNCHANGED <<arrival, ran>>
    /\ \A d \in Command : /\ item'[d].key = item[d].key
                          /\ pc'[d] \in {"new", "queued", "running", "lost"} => pc'[d] = pc[d]
    /\ queue' = queue \/ \E c \in Command : Turn(c) /\ Dequeue(c)

LEMMA Moves ==
  ASSUME TypeOK, QueueInv, [Next]_vars
  PROVE  Goes \/ Restart \/ \E c \in Command : Joins(c) \/ Starts(c)
<1> item \in [Command -> Item] /\ pc \in [Command -> {"new", "queued", "running", "terminal", "preempting", "done", "lost"}]
  BY DEF TypeOK
<1>1. ASSUME NEW c \in Command, Enqueue(c) PROVE Goes \/ Joins(c)
  <2>1. CASE UNCHANGED <<item, queue, arrival>> /\ pc' = [pc EXCEPT ![c] = "done"]
    BY <1>1, <2>1 DEF Enqueue, Goes
  <2>2. ASSUME NEW token \in Lease \cup {None},
               item' = [item EXCEPT ![c] = [key |-> Target, stamp |-> PrunedBarrier,
                                            token |-> token, outcome |-> None]],
               pc' = [pc EXCEPT ![c] = "queued"], arrival' = Append(arrival, c),
               queue' = [queue EXCEPT ![Target] = Append(@, c)]
        PROVE  Joins(c)
    BY <1>1, <2>2 DEF Enqueue, Joins
  <2>3. QED
    BY <1>1, <2>1, <2>2 DEF Enqueue, TypeOK
<1>2. ASSUME NEW c \in Command, StartItem(c) PROVE Goes \/ Starts(c)
  <2>1. CASE pc' = [pc EXCEPT ![c] = "running"]
    BY <1>2, <2>1 DEF StartItem, Starts
  <2>2. CASE \E o : /\ pc' = [pc EXCEPT ![c] = "terminal"] /\ ran' = ran
                    /\ item' = [item EXCEPT ![c].outcome = o]
    BY <1>2, <2>2 DEF StartItem, Goes, Item
  <2>3. QED
    BY <1>2, <2>1, <2>2 DEF StartItem
<1>3. ASSUME NEW c \in Command, EndEffect(c) PROVE Goes
  BY <1>3 DEF EndEffect, Goes, Item, history
<1>4. ASSUME NEW c \in Command, TerminalizeItem(c) PROVE Goes
  BY <1>4 DEF TerminalizeItem, QueueInv, Goes
<1>5. ASSUME NEW c \in Command, SkipItem(c) PROVE Goes
  BY <1>5 DEF SkipItem, Goes, history
<1>6. ASSUME NEW c \in Command, TerminalizePreempted(c) PROVE Goes
  BY <1>6 DEF TerminalizePreempted, Goes
<1>7. ASSUME NEW t \in Takeover, Bump(t) PROVE Goes
  BY <1>7 DEF Bump, Goes, Item
<1>8. ASSUME UNCHANGED <<items, arrival, ran>> PROVE Goes
  BY <1>8 DEF items, Goes
<1>9. QED
  BY <1>1, <1>2, <1>3, <1>4, <1>5, <1>6, <1>7, <1>8
     DEF Next, Step, TakeLease, Request, Answer, SubmitElsewhere, Register, Withdraw, Expire,
         vars, lane, items, history

\* What was submitted before stays so.
LEMMA BeforeKept ==
  ASSUME TypeOK, NEW e \in Command, arrival' = arrival \/ arrival' = Append(arrival, e)
  PROVE  /\ \A c, d : Before(arrival, c, d) => Before(arrival', c, d)
         /\ Elements(arrival) \subseteq Elements(arrival)'
<1>1. arrival \in Seq(Command)
  BY DEF TypeOK
<1>2. \A i \in 1..Len(arrival) : i \in 1..Len(arrival') /\ arrival'[i] = arrival[i]
  BY <1>1, AppendProperties
<1>3. QED
  BY <1>2 DEF Before, Elements

LEMMA AppendOnce ==
  ASSUME NEW seq \in Seq(Command), NEW c \in Command, NoRepeats(seq), c \notin Elements(seq)
  PROVE  NoRepeats(Append(seq, c))
<1>1. Len(seq) \in Nat /\ Len(Append(seq, c)) = Len(seq) + 1
  BY AppendProperties, LenProperties
<1>2. /\ \A i \in 1..Len(seq) : Append(seq, c)[i] = seq[i]
      /\ Append(seq, c)[Len(seq) + 1] = c
  BY AppendProperties
<1>3. QED
  BY <1>1, <1>2 DEF NoRepeats, Elements

LEMMA GoesSerial == IInv /\ SerialInv /\ Goes => SerialInv'
<1> SUFFICES ASSUME IInv, SerialInv, Goes PROVE SerialInv'
  OBVIOUS
<1> USE DEF IInv, SerialInv
<1>1. UNCHANGED <<arrival, ran>>
  BY DEF Goes
<1>2. ASSUME NEW g \in Generation
      PROVE  \/ queue'[g] = queue[g]
             \/ /\ Len(queue'[g]) \in Nat /\ Len(queue[g]) = Len(queue'[g]) + 1
                /\ \A i \in 1..Len(queue'[g]) : queue'[g][i] = queue[g][i + 1]
  <2>1. SUFFICES ASSUME NEW c \in Command, Turn(c), Dequeue(c)
                 PROVE  \/ queue'[g] = queue[g]
                        \/ /\ Len(queue'[g]) \in Nat /\ Len(queue[g]) = Len(queue'[g]) + 1
                           /\ \A i \in 1..Len(queue'[g]) : queue'[g][i] = queue[g][i + 1]
    BY DEF Goes
  <2>2. queue[g] \in Seq(Command)
    BY DEF TypeOK
  <2>3. CASE g = item[c].key
    <3>1. queue[g] # <<>> /\ queue'[g] = Tail(queue[g])
      BY <2>1, <2>3 DEF Turn, Dequeue, TypeOK
    <3>2. Len(queue[g]) \in Nat \ {0}
      BY <2>2, <3>1, EmptySeq, LenProperties
    <3>3. QED
      BY <2>2, <3>1, <3>2, HeadTailProperties
  <2>4. CASE g # item[c].key
    BY <2>1, <2>4 DEF Dequeue, TypeOK
  <2>5. QED
    BY <2>3, <2>4
<1>3. ASSUME NEW g \in Generation
      PROVE  /\ Elements(queue'[g]) \subseteq Elements(queue[g])
             /\ \A i, j \in 1..Len(queue'[g]) : i < j => Before(arrival, queue'[g][i], queue'[g][j])
  <2>1. CASE queue'[g] = queue[g]
    BY <2>1 DEF OrderInv
  <2>2. CASE /\ Len(queue'[g]) \in Nat /\ Len(queue[g]) = Len(queue'[g]) + 1
             /\ \A i \in 1..Len(queue'[g]) : queue'[g][i] = queue[g][i + 1]
    <3>1. \A i \in 1..Len(queue'[g]) : i + 1 \in 1..Len(queue[g]) /\ queue'[g][i] = queue[g][i + 1]
      BY <2>2
    <3>2. \A i, j \in 1..Len(queue'[g]) : i < j => i + 1 < j + 1
      OBVIOUS
    <3>3. QED
      BY <3>1, <3>2 DEF OrderInv, Elements
  <2>3. QED
    BY <1>2, <2>1, <2>2
<1>4. ArrivalInv'
  BY <1>1, <1>3 DEF Goes, ArrivalInv
<1>5. Elements(ran) \subseteq Command
  BY ElementsIn DEF TypeOK
<1>6. OrderInv'
  BY <1>1, <1>3, <1>5 DEF Goes, OrderInv
<1>7. QED
  BY <1>4, <1>6

LEMMA JoinsSerial ==
  ASSUME IInv, SerialInv, NEW c \in Command, Joins(c)
  PROVE  SerialInv'
<1> USE DEF IInv, SerialInv
<1> arrival \in Seq(Command) /\ arrival' = Append(arrival, c) /\ c \notin Elements(arrival)
  BY DEF TypeOK, Joins, ArrivalInv
<1>1. /\ \A d, e : Before(arrival, d, e) => Before(arrival', d, e)
      /\ Elements(arrival)' = Elements(arrival) \cup {c}
  BY BeforeKept, ElementsAppend
<1>2. \A d \in Elements(arrival) : Before(arrival', d, c)
  <2>1. Len(arrival) \in Nat /\ Len(arrival') = Len(arrival) + 1
    BY AppendProperties, LenProperties
  <2>2. /\ \A i \in 1..Len(arrival) : arrival'[i] = arrival[i]
        /\ arrival'[Len(arrival) + 1] = c
    BY AppendProperties
  <2>3. QED
    BY <2>1, <2>2 DEF Elements, Before
<1>3. ASSUME NEW g \in Generation
      PROVE  /\ Elements(queue'[g]) \subseteq Elements(queue[g]) \cup {c}
             /\ \A i, j \in 1..Len(queue'[g]) : i < j => Before(arrival', queue'[g][i], queue'[g][j])
  <2>0. queue[g] \in Seq(Command)
    BY DEF TypeOK
  <2>1. CASE g = Target
    <3>1. queue'[g] = Append(queue[g], c)
      BY <2>1 DEF Joins, TypeOK
    <3>2. Len(queue[g]) \in Nat /\ Len(queue'[g]) = Len(queue[g]) + 1
      BY <2>0, <3>1, AppendProperties, LenProperties
    <3>3. /\ \A i \in 1..Len(queue[g]) : queue'[g][i] = queue[g][i]
          /\ queue'[g][Len(queue[g]) + 1] = c
      BY <2>0, <3>1, AppendProperties
    <3>4. \A i \in 1..Len(queue[g]) : queue[g][i] \in Elements(arrival)
      BY DEF ArrivalInv, Elements
    <3>5. \A i, j \in 1..Len(queue'[g]) : i < j => Before(arrival', queue'[g][i], queue'[g][j])
      <4>1. SUFFICES ASSUME NEW i \in 1..Len(queue'[g]), NEW j \in 1..Len(queue'[g]), i < j
                     PROVE  Before(arrival', queue'[g][i], queue'[g][j])
        OBVIOUS
      <4>2. i \in 1..Len(queue[g])
        BY <3>2, <4>1
      <4>3. PICK d : d = queue[g][i] /\ d = queue'[g][i]
        BY <3>3, <4>2
      <4>4. CASE j \in 1..Len(queue[g])
        <5>1. PICK e : e = queue[g][j] /\ e = queue'[g][j]
          BY <3>3, <4>4
        <5>2. Before(arrival, d, e)
          BY <4>1, <4>2, <4>3, <4>4, <5>1 DEF OrderInv
        <5>3. QED
          BY <1>1, <4>3, <5>1, <5>2 DEF Before
      <4>5. CASE j = Len(queue[g]) + 1
        <5>1. d \in Elements(arrival) /\ queue'[g][j] = c
          BY <3>3, <3>4, <4>2, <4>3, <4>5
        <5>2. QED
          BY <1>2, <4>3, <5>1 DEF Before
      <4>6. QED
        BY <3>2, <4>4, <4>5
    <3>6. QED
      BY <2>0, <3>1, <3>5, ElementsAppend
  <2>2. CASE g # Target
    <3>1. queue'[g] = queue[g]
      BY <2>2 DEF Joins, TypeOK
    <3>2. QED
      BY <1>1, <3>1 DEF OrderInv
  <2>3. QED
    BY <2>1, <2>2
<1>4. ArrivalInv'
  <2>1. NoRepeats(arrival)'
    BY AppendOnce DEF ArrivalInv
  <2>2. ran' = ran /\ \A d \in Command : pc'[d] = "new" => d # c /\ pc[d] = "new"
    BY DEF Joins, TypeOK
  <2>3. QED
    BY <1>1, <1>3, <2>1, <2>2 DEF ArrivalInv, NoRepeats
<1>5. ASSUME NEW d \in Elements(ran), NEW e \in Command,
             d # e, pc'[e] \in {"queued", "running"}, item'[d].key = item'[e].key
      PROVE  Before(arrival', d, e)
  <2>1. CASE e = c
    BY <1>2, <2>1 DEF ArrivalInv
  <2>2. CASE e # c
    <3>1. d \in Command /\ d # c
      BY ElementsIn DEF TypeOK, ArrivalInv
    <3>2. item'[d] = item[d] /\ item'[e] = item[e] /\ pc'[e] = pc[e]
      BY <2>2, <3>1 DEF Joins, TypeOK
    <3>3. Before(arrival, d, e)
      BY <1>5, <3>2 DEF OrderInv
    <3>4. QED
      BY <1>1, <3>3
  <2>3. QED
    BY <2>1, <2>2
<1>6. OrderInv'
  BY <1>3, <1>5 DEF OrderInv, Joins
<1>7. QED
  BY <1>4, <1>6

LEMMA StartsSerial ==
  ASSUME IInv, SerialInv, NEW c \in Command, Starts(c)
  PROVE  SerialInv'
<1> USE DEF IInv, SerialInv
<1> DEFINE key == item[c].key
<1>0. key \in Generation /\ queue[key] \in Seq(Command) /\ queue[key] # <<>> /\ Head(queue[key]) = c
  BY DEF Starts, Turn, TypeOK, Item
<1>1. Len(queue[key]) \in Nat \ {0} /\ queue[key][1] = c
  BY <1>0, EmptySeq, LenProperties
<1>2. Elements(ran') = Elements(ran) \cup {c} /\ ran \in Seq(Command)
  BY ElementsAppend DEF Starts, TypeOK
<1>3. c \in Elements(arrival)
  BY <1>0, ElementsHead DEF ArrivalInv
<1>4. ArrivalInv'
  <2>1. NoRepeats(ran')
    BY <1>2, AppendOnce DEF Starts, ProgressInv, ArrivalInv
  <2>2. \A d \in Command : pc'[d] = "new" => pc[d] = "new"
    BY DEF Starts, TypeOK
  <2>3. QED
    BY <1>2, <1>3, <2>1, <2>2 DEF ArrivalInv, Starts
<1>5. ASSUME NEW d \in Elements(ran'), NEW e \in Command,
             d # e, pc'[e] \in {"queued", "running"}, item[d].key = item[e].key
      PROVE  Before(arrival, d, e)
  <2>1. CASE d = c
    <3>1. pc[e] \in {"queued", "running"}
      BY <1>5, <2>1 DEF Starts, TypeOK
    <3>2. pc[e] # "running"
      BY <1>0, <1>5, <2>1 DEF QueueInv, Turn
    <3>3. PICK j \in 1..Len(queue[key]) : queue[key][j] = e
      BY <1>5, <2>1, <3>1, <3>2 DEF QueueInv, Elements
    <3>4. 1 \in 1..Len(queue[key]) /\ 1 < j
      BY <1>1, <1>5, <2>1, <3>3
    <3>5. QED
      BY <1>0, <1>1, <2>1, <3>3, <3>4 DEF OrderInv
  <2>2. CASE d \in Elements(ran)
    <3>1. pc[e] \in {"queued", "running"}
      BY <1>5 DEF Starts, TypeOK
    <3>2. QED
      BY <1>5, <2>2, <3>1 DEF OrderInv
  <2>3. QED
    BY <1>2, <2>1, <2>2
<1>6. OrderInv'
  BY <1>5 DEF OrderInv, Starts, Before
<1>7. QED
  BY <1>4, <1>6

LEMMA SerialStep == IInv /\ SerialInv /\ [Next]_vars => SerialInv'
<1> SUFFICES ASSUME IInv, SerialInv, [Next]_vars PROVE SerialInv'
  OBVIOUS
<1>1. CASE Restart
  <2>1. UNCHANGED <<arrival, ran>> /\ \A g \in Generation : queue'[g] = <<>>
    BY <1>1 DEF Restart, history
  <2>2. \A c \in Command : pc'[c] \in {"new", "done", "lost"} /\ (pc'[c] = "new" => pc[c] = "new")
    BY <1>1 DEF Restart, IInv, TypeOK
  <2>3. Elements(<<>>) = {} /\ Len(<<>>) = 0
    BY EmptySeq DEF Elements
  <2>4. ArrivalInv'
    BY <2>1, <2>2, <2>3 DEF SerialInv, ArrivalInv
  <2>5. OrderInv'
    BY <2>1, <2>2, <2>3 DEF OrderInv
  <2>6. QED
    BY <2>4, <2>5 DEF SerialInv
<1>2. QED
  BY <1>1, Moves, GoesSerial, JoinsSerial, StartsSerial DEF IInv

LEMMA InitSerial == Init => SerialInv
<1> SUFFICES ASSUME Init PROVE SerialInv
  OBVIOUS
<1>1. Elements(<<>>) = {} /\ Len(<<>>) = 0
  BY EmptySeq DEF Elements
<1>2. arrival = <<>> /\ ran = <<>> /\ \A g \in Generation : queue[g] = <<>>
  BY DEF Init
<1>3. QED
  BY <1>1, <1>2 DEF SerialInv, ArrivalInv, OrderInv, NoRepeats

\* enqueuePaneCommand: for any commands, queues and restarts, effects on a surface
\* start in the order of submission, one after the other.
THEOREM InOrder == Spec => []Serialized
<1>1. IInv /\ SerialInv => Serialized
  <2> SUFFICES ASSUME IInv, SerialInv, NEW i \in 1..Len(ran), NEW j \in 1..Len(ran),
                      i < j, item[ran[i]].key = item[ran[j]].key, pc[ran[j]] = "running"
               PROVE  /\ Position(arrival, ran[i]) < Position(arrival, ran[j])
                      /\ pc[ran[i]] # "running"
    BY DEF Serialized
  <2> USE DEF IInv, SerialInv
  <2>1. PICK c \in Command, d \in Command :
          c = ran[i] /\ d = ran[j] /\ c \in Elements(ran) /\ d \in Elements(ran)
    BY ElementOfSeq DEF TypeOK, Elements
  <2>2. c # d
    BY <2>1 DEF ArrivalInv, NoRepeats
  <2>3. PICK m \in 1..Len(arrival), n \in 1..Len(arrival) : m < n /\ arrival[m] = c /\ arrival[n] = d
    BY <2>1, <2>2 DEF OrderInv, Before
  <2>4. \A k \in 1..Len(arrival) : /\ arrival[k] = c => k = m
                                   /\ arrival[k] = d => k = n
    BY <2>3 DEF ArrivalInv, NoRepeats
  <2>5. Position(arrival, c) = m
    BY <2>3, <2>4 DEF Position
  <2>6. Position(arrival, d) = n
    BY <2>3, <2>4 DEF Position
  <2>7. pc[c] # "running"
    BY <2>1, <2>2 DEF QueueInv, Turn
  <2>8. QED
    BY <2>1, <2>3, <2>5, <2>6, <2>7
<1>2. QED
  BY <1>1, InitSerial, SerialStep, Inductive, PTL DEF Spec

-----------------------------------------------------------------------------
(* Nobody waits for ever. *)

\* What is in a queue was submitted to it by this owner.
KeyInv ==
    \A g \in Generation : \A c \in Elements(queue[g]) :
        item[c].key = g /\ pc[c] \notin {"new", "lost"}

\* A takeover waits for items that are being reported.
WaitsInv ==
    \A t \in Takeover : op[t] = "preempting" => \A c \in waits[t] : pc[c] = "preempting"

\* The command whose turn it is on the generation that c waits for.
Front(c) == Head(queue[item[c].key])

\* The event loop has a step for c, or its handler runs.
AtWork(c) ==
    \/ pc[c] \in {"running", "terminal", "preempting"}
    \/ pc[c] \in {"queued", "done"} /\ c \in Queued /\ Turn(c)

\* Whoever waits, waits for somebody at work: a queued command for the head of its queue,
\* a takeover for items that are being reported, other operations for nobody.
NobodyStuck ==
    /\ \A c \in Command : pc[c] = "queued" => Front(c) \in Command /\ AtWork(Front(c))
    /\ \A t \in Takeover : op[t] = "preempting" => Preempted(t) \/ \E c \in waits[t] : AtWork(c)

\* How many steps a command or an operation may still take, at most.
Rank(stage) ==
    CASE stage = "new" -> 6
      [] stage \in {"requested", "queued"} -> 5
      [] stage = "running" -> 4
      [] stage = "terminal" -> 3
      [] stage = "preempting" -> 2
      [] stage = "leased" -> 1
      [] stage \in {"answered", "failed", "done", "lost"} -> 0

\* Each step of the event loop moves a command or an operation on, or takes a command
\* out of its queue for good; no step moves one back.
FewSteps ==
    [][/\ \A c \in Command : /\ pc'[c] # pc[c] => Rank(pc'[c]) < Rank(pc[c])
                             /\ c \in Queued' \ Queued => pc[c] = "new"
       /\ \A o \in Takeover \cup Delegate : op'[o] # op[o] => Rank(op'[o]) < Rank(op[o])
       /\ Step => \/ \E c \in Command : pc'[c] # pc[c] \/ c \in Queued \ Queued'
                  \/ \E o \in Takeover \cup Delegate : op'[o] # op[o]]_vars

\* Taking the head from a queue leaves nobody new in any.
LEMMA DequeueShrinks ==
  ASSUME TypeOK, NEW c \in Command, Turn(c), Dequeue(c)
  PROVE  \A g \in Generation : Elements(queue'[g]) \subseteq Elements(queue[g])
<1> SUFFICES ASSUME NEW g \in Generation
             PROVE  Elements(queue'[g]) \subseteq Elements(queue[g])
  OBVIOUS
<1>1. CASE g = item[c].key
  <2>1. queue[g] \in Seq(Command) /\ queue[g] # <<>> /\ queue'[g] = Tail(queue[g])
    BY <1>1 DEF TypeOK, Turn, Dequeue
  <2>2. QED
    BY <2>1, ElementsTail
<1>2. CASE g # item[c].key
  BY <1>2 DEF TypeOK, Dequeue
<1>3. QED
  BY <1>1, <1>2

LEMMA KeyStep == IInv /\ SerialInv /\ KeyInv /\ [Next]_vars => KeyInv'
<1> SUFFICES ASSUME IInv, SerialInv, KeyInv, [Next]_vars,
                    NEW g \in Generation, NEW d \in Elements(queue'[g])
             PROVE  item'[d].key = g /\ pc'[d] \notin {"new", "lost"}
  BY DEF KeyInv
<1> USE DEF IInv
<1>0. \A h \in Generation : Elements(queue[h]) \subseteq Command
  BY ElementsIn DEF TypeOK
<1>1. CASE Goes
  <2>1. d \in Elements(queue[g])
    BY <1>1, DequeueShrinks DEF Goes
  <2>2. d \in Command /\ item[d].key = g /\ pc[d] \notin {"new", "lost"}
    BY <1>0, <2>1 DEF KeyInv
  <2>3. QED
    BY <1>1, <2>2 DEF Goes
<1>2. ASSUME NEW c \in Command, Joins(c)
      PROVE  item'[d].key = g /\ pc'[d] \notin {"new", "lost"}
  <2>1. d \in Elements(queue[g]) \/ (d = c /\ g = Target)
    <3>1. CASE g = Target
      <4>1. queue[g] \in Seq(Command) /\ queue'[g] = Append(queue[g], c)
        BY <1>2, <3>1 DEF TypeOK, Joins
      <4>2. QED
        BY <3>1, <4>1, ElementsAppend
    <3>2. CASE g # Target
      BY <1>2, <3>2 DEF TypeOK, Joins
    <3>3. QED
      BY <3>1, <3>2
  <2>2. CASE d = c /\ g = Target
    BY <1>2, <2>2 DEF Joins, TypeOK
  <2>3. CASE d \in Elements(queue[g])
    <3>1. d \in Command /\ d # c /\ item[d].key = g /\ pc[d] \notin {"new", "lost"}
      BY <1>0, <1>2, <2>3 DEF KeyInv, Joins
    <3>2. QED
      BY <1>2, <3>1 DEF Joins, TypeOK
  <2>4. QED
    BY <2>1, <2>2, <2>3
<1>3. ASSUME NEW c \in Command, Starts(c)
      PROVE  item'[d].key = g /\ pc'[d] \notin {"new", "lost"}
  BY <1>3 DEF Starts, KeyInv, TypeOK
<1>4. CASE Restart
  <2>1. queue'[g] = <<>>
    BY <1>4 DEF Restart
  <2>2. QED
    BY <2>1, EmptySeq DEF Elements
<1>5. QED
  BY <1>1, <1>2, <1>3, <1>4, Moves

LEMMA WaitsStep == TypeOK /\ WaitsInv /\ [Next]_vars => WaitsInv'
<1> SUFFICES ASSUME TypeOK, WaitsInv, [Next]_vars, NEW t \in Takeover,
                    op'[t] = "preempting", NEW c \in waits'[t]
             PROVE  pc'[c] = "preempting"
  BY DEF WaitsInv
<1>1. ASSUME op[t] = "preempting", c \in waits[t], c \in Command => pc'[c] = pc[c]
      PROVE  pc'[c] = "preempting"
  BY <1>1 DEF WaitsInv, TypeOK
<1>2. ASSUME NEW d \in Command, Enqueue(d) \/ StartItem(d) \/ EndEffect(d) \/ TerminalizeItem(d) \/ SkipItem(d)
      PROVE  pc'[c] = "preempting"
  <2>1. op[t] = "preempting" /\ c \in waits[t]
    BY <1>2 DEF Enqueue, StartItem, EndEffect, TerminalizeItem, SkipItem
  <2>2. c \in Command /\ pc[c] = "preempting"
    BY <2>1 DEF WaitsInv, TypeOK
  <2>3. \/ /\ pc[d] # "preempting"
           /\ \E s \in {"queued", "running", "terminal", "done"} : pc' = [pc EXCEPT ![d] = s]
        \/ pc' = pc
    <3>1. CASE Enqueue(d) \/ StartItem(d)
      BY <3>1 DEF Enqueue, StartItem
    <3>2. CASE EndEffect(d) \/ TerminalizeItem(d) \/ SkipItem(d)
      BY <3>2 DEF EndEffect, TerminalizeItem, SkipItem
    <3>3. QED
      BY <1>2, <3>1, <3>2
  <2>4. QED
    BY <2>2, <2>3 DEF TypeOK
<1>3. ASSUME NEW u \in Takeover, Bump(u)
      PROVE  pc'[c] = "preempting"
  <2>1. CASE t = u
    <3>1. c \in {e \in Elements(queue[Target]) : Preemptable(e)}
      BY <1>3, <2>1 DEF Bump, TypeOK
    <3>2. c \in Command
      BY <3>1, CommandsAssumption DEF Preemptable
    <3>3. QED
      BY <1>3, <3>1, <3>2 DEF Bump
  <2>2. CASE t # u
    <3>1. op[t] = "preempting" /\ c \in waits[t]
      BY <1>3, <2>2 DEF Bump, TypeOK
    <3>2. c \in Command /\ pc[c] = "preempting"
      BY <3>1 DEF WaitsInv, TypeOK
    <3>3. QED
      BY <1>3, <3>2 DEF Bump
  <2>3. QED
    BY <2>1, <2>2
<1>4. ASSUME NEW d \in Command, TerminalizePreempted(d)
      PROVE  pc'[c] = "preempting"
  <2>1. op[t] = "preempting" /\ c \in waits[t] \ {d}
    BY <1>4 DEF TerminalizePreempted, TypeOK
  <2>2. c \in Command /\ pc[c] = "preempting"
    BY <2>1 DEF WaitsInv, TypeOK
  <2>3. QED
    BY <1>4, <2>1, <2>2 DEF TerminalizePreempted, TypeOK
<1>5. ASSUME NEW o \in Takeover \cup Delegate, Request(o) \/ TakeLease(o) \/ Answer(o)
      PROVE  pc'[c] = "preempting"
  <2>1. pc' = pc /\ waits' = waits /\ \E s \in {"requested", "leased", "answered", "failed"} : op' = [op EXCEPT ![o] = s]
    BY <1>5 DEF Request, TakeLease, Answer, items
  <2>2. op[t] = "preempting"
    BY <2>1 DEF TypeOK
  <2>3. QED
    BY <1>1, <2>1, <2>2
<1>6. CASE Restart
  BY <1>6 DEF Restart
<1>7. CASE SubmitElsewhere \/ Register \/ Withdraw \/ Expire \/ UNCHANGED vars
  BY <1>1, <1>7 DEF SubmitElsewhere, Register, Withdraw, Expire, vars, items
<1>8. QED
  BY <1>2, <1>3, <1>4, <1>5, <1>6, <1>7 DEF Next, Step

LEMMA WaitersKept == Spec => [](IInv /\ SerialInv /\ KeyInv /\ WaitsInv)
<1>1. Init => SerialInv
  BY InitSerial
<1>2. Init => KeyInv /\ WaitsInv
  <2> SUFFICES ASSUME Init PROVE KeyInv /\ WaitsInv
    OBVIOUS
  <2>1. Elements(<<>>) = {}
    BY EmptySeq DEF Elements
  <2>2. QED
    BY <2>1 DEF Init, KeyInv, WaitsInv
<1>3. IInv /\ SerialInv /\ KeyInv /\ WaitsInv /\ [Next]_vars => SerialInv' /\ KeyInv' /\ WaitsInv'
  BY SerialStep, KeyStep, WaitsStep DEF IInv
<1>4. QED
  BY <1>1, <1>2, <1>3, Inductive, PTL DEF Spec

\* enqueuePaneCommand, runQueuedItem and preemptQueuedAutomation: refused appends,
\* preemptions, withdrawn surfaces and takeovers at the same time never leave a queue
\* behind an item that is gone, nor a takeover waiting for one.
THEOREM NobodyIsStuck == Spec => []NobodyStuck
<1>1. IInv /\ SerialInv /\ KeyInv /\ WaitsInv => NobodyStuck
  <2> SUFFICES ASSUME IInv, KeyInv, WaitsInv PROVE NobodyStuck
    OBVIOUS
  <2> USE DEF IInv
  <2>1. ASSUME NEW c \in Command, pc[c] = "queued"
        PROVE  Front(c) \in Command /\ AtWork(Front(c))
    <3> DEFINE g == item[c].key
               q == queue[g]
               h == Head(q)
    <3>1. g \in Generation /\ q \in Seq(Command)
      BY DEF TypeOK, Item
    <3>2. q # <<>>
      BY <2>1, EmptySeq DEF QueueInv, Elements
    <3>3. h \in Elements(q) /\ h \in Command
      BY <3>1, <3>2, ElementsHead, ElementsIn
    <3>4. item[h].key = g /\ pc[h] \notin {"new", "lost"}
      BY <3>1, <3>3 DEF KeyInv
    <3>5. h \in Queued /\ Turn(h)
      BY <3>1, <3>2, <3>3, <3>4 DEF Queued, Turn
    <3>6. pc[h] \in {"new", "queued", "running", "terminal", "preempting", "done", "lost"}
      BY <3>3 DEF TypeOK
    <3>7. QED
      BY <3>3, <3>4, <3>5, <3>6 DEF Front, AtWork
  <2>2. ASSUME NEW t \in Takeover, op[t] = "preempting"
        PROVE  Preempted(t) \/ \E c \in waits[t] : AtWork(c)
    BY <2>2 DEF WaitsInv, Preempted, AtWork
  <2>3. QED
    BY <2>1, <2>2 DEF NobodyStuck
<1>2. QED
  BY <1>1, WaitersKept, PTL

\* The stages that a command goes through.
LEMMA CommandCourse ==
  ASSUME TypeOK, QueueInv, [Next]_vars, NEW c \in Command, pc'[c] # pc[c]
  PROVE  Rank(pc'[c]) < Rank(pc[c])
<1>1. ASSUME NEW d \in Command, NEW from, NEW to, pc' = [pc EXCEPT ![d] = to], pc[d] = from,
             \/ from = "new" /\ to \in {"queued", "done"}
             \/ from = "queued" /\ to \in {"running", "terminal", "done"}
             \/ from = "running" /\ to = "terminal"
             \/ from \in {"terminal", "preempting"} /\ to = "done"
      PROVE  Rank(pc'[c]) < Rank(pc[c])
  <2>1. c = d /\ pc'[c] = to
    BY <1>1 DEF TypeOK
  <2>2. QED
    BY <1>1, <2>1 DEF Rank
<1>2. ASSUME NEW d \in Command, Enqueue(d) \/ StartItem(d)
      PROVE  Rank(pc'[c]) < Rank(pc[c])
  BY <1>1, <1>2 DEF Enqueue, StartItem
<1>3. ASSUME NEW d \in Command, EndEffect(d) \/ TerminalizeItem(d) \/ SkipItem(d) \/ TerminalizePreempted(d)
      PROVE  Rank(pc'[c]) < Rank(pc[c])
  BY <1>1, <1>3 DEF EndEffect, TerminalizeItem, SkipItem, TerminalizePreempted
<1>4. ASSUME NEW t \in Takeover, Bump(t)
      PROVE  Rank(pc'[c]) < Rank(pc[c])
  <2>1. pc[c] = "queued" /\ pc'[c] = "preempting"
    BY <1>4 DEF Bump, Preemptable
  <2>2. QED
    BY <2>1 DEF Rank
<1>5. CASE Restart
  <2>1. pc[c] \notin {"new", "done", "lost"} /\ pc'[c] = "lost"
    BY <1>5 DEF Restart
  <2>2. pc[c] \in {"new", "queued", "running", "terminal", "preempting", "done", "lost"}
    BY DEF TypeOK
  <2>3. QED
    BY <2>1, <2>2 DEF Rank
<1>6. ASSUME UNCHANGED pc
      PROVE  FALSE
  BY <1>6
<1>7. QED
  BY <1>2, <1>3, <1>4, <1>5, <1>6
     DEF Next, Step, Request, TakeLease, Answer, SubmitElsewhere, Register, Withdraw, Expire, vars, items

\* The stages that a takeover or a delegation goes through.
LEMMA OperationCourse ==
  ASSUME TypeOK, [Next]_vars, NEW o \in Takeover \cup Delegate, op'[o] # op[o]
  PROVE  Rank(op'[o]) < Rank(op[o])
<1>1. ASSUME NEW u \in Takeover \cup Delegate, NEW from, NEW to,
             op' = [op EXCEPT ![u] = to], op[u] = from,
             \/ from = "new" /\ to \in {"requested", "failed"}
             \/ from = "requested" /\ to \in {"preempting", "leased"}
             \/ from = "preempting" /\ to = "leased"
             \/ from = "leased" /\ to \in {"answered", "failed"}
      PROVE  Rank(op'[o]) < Rank(op[o])
  <2>1. o = u /\ op'[o] = to
    BY <1>1 DEF TypeOK
  <2>2. QED
    BY <1>1, <2>1 DEF Rank
<1>2. ASSUME NEW u \in Takeover \cup Delegate, Request(u) \/ TakeLease(u) \/ Answer(u)
      PROVE  Rank(op'[o]) < Rank(op[o])
  BY <1>1, <1>2 DEF Request, TakeLease, Answer
<1>3. ASSUME NEW t \in Takeover, Bump(t)
      PROVE  Rank(op'[o]) < Rank(op[o])
  BY <1>1, <1>3 DEF Bump
<1>4. ASSUME NEW c \in Command, TerminalizePreempted(c)
      PROVE  Rank(op'[o]) < Rank(op[o])
  <2>1. op[o] = "preempting" /\ op'[o] = "failed"
    BY <1>4 DEF TerminalizePreempted, TypeOK
  <2>2. QED
    BY <2>1 DEF Rank
<1>5. CASE Restart
  <2>1. op[o] \notin {"new", "answered", "failed"} /\ op'[o] = "failed"
    BY <1>5 DEF Restart, TypeOK
  <2>2. op[o] \in {"new", "requested", "preempting", "leased", "answered", "failed"}
    BY DEF TypeOK
  <2>3. QED
    BY <2>1, <2>2 DEF Rank
<1>6. ASSUME UNCHANGED op
      PROVE  FALSE
  BY <1>6
<1>7. QED
  BY <1>2, <1>3, <1>4, <1>5, <1>6
     DEF Next, Step, Enqueue, StartItem, EndEffect, TerminalizeItem, SkipItem,
         SubmitElsewhere, Register, Withdraw, Expire, vars

\* A command joins a queue when it is submitted.
LEMMA JoinsOnce ==
  ASSUME IInv, SerialInv, [Next]_vars, NEW c \in Command, c \in Queued', c \notin Queued
  PROVE  pc[c] = "new"
<1> USE DEF IInv
<1>1. PICK g \in Generation : c \in Elements(queue'[g]) /\ c \notin Elements(queue[g])
  BY DEF Queued
<1>2. CASE Goes
  BY <1>1, <1>2, DequeueShrinks DEF Goes
<1>3. ASSUME NEW d \in Command, Joins(d)
      PROVE  pc[c] = "new"
  <2>1. CASE g = Target
    <3>1. queue[g] \in Seq(Command) /\ queue'[g] = Append(queue[g], d)
      BY <1>3, <2>1 DEF TypeOK, Joins
    <3>2. c = d
      BY <1>1, <3>1, ElementsAppend
    <3>3. QED
      BY <1>3, <3>2 DEF Joins
  <2>2. CASE g # Target
    BY <1>1, <1>3, <2>2 DEF TypeOK, Joins
  <2>3. QED
    BY <2>1, <2>2
<1>4. ASSUME NEW d \in Command, Starts(d)
      PROVE  pc[c] = "new"
  BY <1>1, <1>4 DEF Starts
<1>5. CASE Restart
  BY <1>1, <1>5, EmptySeq DEF Restart, Elements
<1>6. QED
  BY <1>2, <1>3, <1>4, <1>5, Moves

\* An item whose turn is over is in no queue any more.
LEMMA LeavesForGood ==
  ASSUME IInv, SerialInv, KeyInv, NEW c \in Command, Turn(c), Dequeue(c)
  PROVE  c \in Queued \ Queued'
<1> USE DEF IInv
<1> DEFINE k == item[c].key
           q == queue[k]
<1>1. k \in Generation /\ q \in Seq(Command) /\ q # <<>> /\ Head(q) = c /\ queue'[k] = Tail(q)
  BY DEF TypeOK, Item, Turn, Dequeue
<1>2. c \in Queued
  BY <1>1, ElementsHead DEF Queued
<1>3. \A g \in Generation : c \in Elements(queue'[g]) => g = k
  BY DequeueShrinks DEF KeyInv
<1>4. c \notin Elements(Tail(q))
  <2> SUFFICES ASSUME NEW i \in 1..Len(Tail(q)), Tail(q)[i] = c PROVE FALSE
    BY DEF Elements
  <2>1. Len(q) \in Nat /\ Len(Tail(q)) = Len(q) - 1 /\ Tail(q)[i] = q[i + 1]
    BY <1>1, HeadTailProperties, LenProperties
  <2>2. i + 1 \in 1..Len(q) /\ 1 \in 1..Len(q) /\ 1 < i + 1
    BY <2>1
  <2>3. Before(arrival, q[1], q[i + 1])
    BY <1>1, <2>2 DEF SerialInv, OrderInv
  <2>4. Before(arrival, c, c)
    BY <1>1, <2>1, <2>3
  <2>5. QED
    BY <2>4 DEF Before, SerialInv, ArrivalInv, NoRepeats
<1>5. QED
  BY <1>1, <1>2, <1>3, <1>4 DEF Queued

LEMMA StepMoves ==
  ASSUME IInv, SerialInv, KeyInv, Step
  PROVE  \/ \E c \in Command : pc'[c] # pc[c] \/ c \in Queued \ Queued'
         \/ \E o \in Takeover \cup Delegate : op'[o] # op[o]
<1> USE DEF IInv
<1>1. ASSUME NEW c \in Command, StartItem(c) \/ TerminalizeItem(c) \/ TerminalizePreempted(c)
      PROVE  pc'[c] # pc[c]
  BY <1>1 DEF StartItem, TerminalizeItem, TerminalizePreempted, TypeOK
<1>2. ASSUME NEW c \in Command, SkipItem(c)
      PROVE  c \in Queued \ Queued'
  BY <1>2, LeavesForGood DEF SkipItem
<1>3. ASSUME NEW t \in Takeover, Bump(t)
      PROVE  op'[t] # op[t]
  BY <1>3 DEF Bump, TypeOK
<1>4. ASSUME NEW o \in Takeover \cup Delegate, TakeLease(o) \/ Answer(o)
      PROVE  op'[o] # op[o]
  BY <1>4 DEF TakeLease, Answer, TypeOK
<1>5. QED
  BY <1>1, <1>2, <1>3, <1>4 DEF Step

\* ControlRuntime's pane commands have no loop of retries: a command takes at most six
\* steps and leaves its queue once, and each step of the event loop is one of these.
THEOREM StepsAreFew == Spec => FewSteps
<1>1. ASSUME IInv, SerialInv, KeyInv, [Next]_vars
      PROVE  /\ \A c \in Command : /\ pc'[c] # pc[c] => Rank(pc'[c]) < Rank(pc[c])
                                   /\ c \in Queued' \ Queued => pc[c] = "new"
             /\ \A o \in Takeover \cup Delegate : op'[o] # op[o] => Rank(op'[o]) < Rank(op[o])
             /\ Step => \/ \E c \in Command : pc'[c] # pc[c] \/ c \in Queued \ Queued'
                        \/ \E o \in Takeover \cup Delegate : op'[o] # op[o]
  BY <1>1, CommandCourse, OperationCourse, JoinsOnce, StepMoves DEF IInv
<1>2. IInv /\ SerialInv /\ KeyInv /\ [Next]_vars =>
        [/\ \A c \in Command : /\ pc'[c] # pc[c] => Rank(pc'[c]) < Rank(pc[c])
                               /\ c \in Queued' \ Queued => pc[c] = "new"
         /\ \A o \in Takeover \cup Delegate : op'[o] # op[o] => Rank(op'[o]) < Rank(op[o])
         /\ Step => \/ \E c \in Command : pc'[c] # pc[c] \/ c \in Queued \ Queued'
                    \/ \E o \in Takeover \cup Delegate : op'[o] # op[o]]_vars
  BY <1>1
<1>3. QED
  BY <1>2, WaitersKept, PTL DEF Spec, FewSteps

=============================================================================
