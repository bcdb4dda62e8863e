------------------------------ MODULE PaneLanes ------------------------------
(***************************************************************************)
(* Who may drive a pane.                                                   *)
(*                                                                         *)
(* Commands to one pane wait in a queue of ControlRuntime                  *)
(* (src/src/control/runtime.ts); input needs the pane's lane lease         *)
(* (src/src/control/leases.ts), which a human may take over or delegate to *)
(* automation.  A takeover raises a barrier and terminalizes the automation*)
(* still queued before it takes the lease.  Queues are keyed by the        *)
(* generation of the pane's surface (src/src/control/surfaces.ts), which   *)
(* the daemon registers, rebinds and withdraws while commands wait.        *)
(*                                                                         *)
(* One pane is modelled: panes share nothing but the journal.  Leases,     *)
(* queues, barrier and surfaces live in memory; a restart empties them and *)
(* raises the owner epoch.  Appends to the journal may be refused.  Surface*)
(* actions, which wait in the same queues, and the blockers of             *)
(* blockPaneQueue, which only tests set, are left out.                     *)
(***************************************************************************)
EXTENDS Naturals, Sequences, FiniteSets

CONSTANTS
    Command,       \* queued pane commands
    Automation,    \* ... whose actor kind is 'psyche'
    Leased,        \* ... that need the lane lease: prompt, input, interrupt
    Takeover,      \* pane.takeover commands
    Delegate,      \* pane.delegate commands of human actors
    None,          \* no value
    MaxGeneration, \* bound of the model: surface generations
    MaxEpoch,      \* bound of the model: owner epochs
    MaxFaults      \* bound of the model: refused appends

ASSUME CommandsAssumption ==
    /\ Automation \subseteq Command /\ Leased \subseteq Command
    /\ Command \cap (Takeover \cup Delegate) = {} /\ Takeover \cap Delegate = {}
    /\ None \notin Command

ASSUME BoundsAssumption ==
    MaxGeneration \in Nat \ {0} /\ MaxEpoch \in Nat \ {0} /\ MaxFaults \in Nat

VARIABLES
    epoch,     \* ownerEpoch
    surface,   \* SurfaceRegistry: is the pane registered, and its last generation
    revision,  \* LaneLeaseStore.revisions
    lease,     \* LaneLeaseStore.leases
    expired,   \* the lease is past its expiresAt
    barrier,   \* paneBarrierGenerations
    queue,     \* resourceQueues: per generation, the commands chained on the tail
    pc,        \* progress of each command
    item,      \* QueuedCommand: queueKey, generation, lease presented, outcome
    refused,   \* commands whose command.requested append was refused
    op,        \* progress of takeovers and delegations
    waits,     \* preemptions each takeover awaits
    faults,
    \* what happened
    granted,   \* leases clients have been told of
    arrival,   \* commands in the order they were queued
    ran,       \* commands in the order their effects started
    under,     \* the lease under which each effect started
    fenced,    \* automation that a takeover's barrier found waiting
    reports    \* terminal events journalled for each command

lane == <<revision, lease, expired>>
items == <<queue, pc, item, refused>>
history == <<granted, arrival, ran, under, fenced, reports>>
vars == <<epoch, surface, lane, barrier, items, op, waits, faults, history>>

Generation == 0..MaxGeneration
Epoch == 1..MaxEpoch

\* A lease is unique by its epoch and revision; the epoch is not part of LaneLease.
Lease == [epoch : Epoch, revision : Nat, kind : {"human", "psyche"}]

\* "settled" stands for what the handler made of an effect: succeeded, failed or
\* unknown; "failed" for a lease that is not there.
Outcome == {"settled", "failed", "preempted", "rejected"}

Item == [key : Generation, stamp : Nat, token : Lease \cup {None}, outcome : Outcome \cup {None}]

NoItem == [key |-> 0, stamp |-> 0, token |-> None, outcome |-> None]

Elements(seq) == {seq[i] : i \in 1..Len(seq)}

TypeOK ==
    /\ epoch \in Epoch
    /\ surface \in [registered : BOOLEAN, generation : Generation]
    /\ revision \in Nat /\ lease \in Lease \cup {None} /\ expired \in BOOLEAN
    /\ barrier \in Nat
    /\ queue \in [Generation -> Seq(Command)]
    /\ pc \in [Command -> {"new", "queued", "running", "terminal", "preempting", "done", "lost"}]
    /\ item \in [Command -> Item]
    /\ refused \subseteq Command
    /\ op \in [Takeover \cup Delegate ->
                 {"new", "requested", "preempting", "leased", "answered", "failed"}]
    /\ waits \in [Takeover -> SUBSET Command]
    /\ faults \in 0..MaxFaults
    /\ granted \subseteq Lease
    /\ arrival \in Seq(Command) /\ ran \in Seq(Command)
    /\ under \in [Command -> Lease \cup {None}]
    /\ fenced \subseteq Automation
    /\ reports \in [Command -> Seq(Outcome)]

Init ==
    /\ epoch = 1
    /\ surface \in [registered : BOOLEAN, generation : {0, 1}]
    /\ surface.registered <=> surface.generation = 1
    /\ revision = 0 /\ lease = None /\ expired = FALSE
    /\ barrier = 0
    /\ queue = [g \in Generation |-> <<>>]
    /\ pc = [c \in Command |-> "new"]
    /\ item = [c \in Command |-> NoItem]
    /\ refused = {}
    /\ op = [o \in Takeover \cup Delegate |-> "new"]
    /\ waits = [t \in Takeover |-> {}]
    /\ faults = 0
    /\ granted = {}
    /\ arrival = <<>> /\ ran = <<>>
    /\ under = [c \in Command |-> None]
    /\ fenced = {}
    /\ reports = [c \in Command |-> <<>>]

Fault == faults < MaxFaults /\ faults' = faults + 1
NoFault == UNCHANGED faults

-----------------------------------------------------------------------------
(* Queues and barrier. *)

\* resourceTargetForPane
Target == IF surface.registered THEN surface.generation ELSE 0

Queued == UNION {Elements(queue[g]) : g \in Generation}

\* Mutant: a pane without a surface gives up its barrier, queue or not.
RetiredUnqueued == ~surface.registered

\* pruneRetiredPaneBarriers: neither a surface nor a queue of any generation.
Retired == ~surface.registered /\ Queued = {}

\* Mutant: a bump is taken back instead of the counter being dropped.
PrunedByOne == IF Retired THEN barrier - 1 ELSE barrier

\* pruneInactiveResourceQueues, which every submit() begins with.
PrunedBarrier == IF Retired THEN 0 ELSE barrier

\* Mutant: items do not wait for the tail they were chained on.
AnyTurn(c) ==
    /\ c \in Elements(queue[item[c].key])
    /\ Head(queue[item[c].key]) = c \/ (pc[c] = "queued" /\ c \notin refused)

\* The tail before this item has settled.
Turn(c) == queue[item[c].key] # <<>> /\ Head(queue[item[c].key]) = c

\* Mutant: an item whose request was refused keeps its place.
DequeueRequested(c) ==
    queue' = IF c \in refused THEN queue ELSE [queue EXCEPT ![item[c].key] = Tail(@)]

\* The item at the head of its queue, which is c, leaves it.
Dequeue(c) == queue' = [queue EXCEPT ![item[c].key] = Tail(@)]

\* isStaleAutomationGeneration
Stale(c) == c \in Automation /\ item[c].stamp # barrier

Kind(c) == IF c \in Automation THEN "psyche" ELSE "human"

\* LaneLeaseStore.assert
HoldsLane(c) ==
    /\ lease # None /\ item[c].token # None
    /\ lease.revision = item[c].token.revision
    /\ lease.kind = Kind(c)
    /\ ~expired

-----------------------------------------------------------------------------
(* Queued commands. *)

\* Mutant: commands of an earlier owner epoch are let through.
CurrentEver(e) == TRUE

\* submitFresh's fence.
Current(e) == e = epoch

\* submitFresh: a command of an earlier epoch is rejected; enqueuePaneCommand
\* chains it on the queue of the pane's present generation.  A client presents a
\* lease it was told of together with the epoch that granted it.
Enqueue(c) ==
    /\ pc[c] = "new"
    /\ barrier' = PrunedBarrier
    /\ \E e \in 1..epoch, token \in granted \cup {None} :
         /\ c \notin Leased => token = None
         /\ token # None => token.epoch = e
         /\ \/ /\ Current(e)
               /\ pc' = [pc EXCEPT ![c] = "queued"]
               /\ item' = [item EXCEPT ![c] = [key |-> Target, stamp |-> PrunedBarrier,
                                                token |-> token, outcome |-> None]]
               /\ queue' = [queue EXCEPT ![Target] = Append(@, c)]
               /\ arrival' = Append(arrival, c)
               /\ \/ NoFault /\ UNCHANGED refused
                  \/ Fault /\ refused' = refused \cup {c}
               /\ UNCHANGED reports
            \/ /\ ~Current(e)
               /\ pc' = [pc EXCEPT ![c] = "done"]
               /\ \/ NoFault /\ reports' = [reports EXCEPT ![c] = Append(@, "rejected")]
                  \/ Fault /\ UNCHANGED reports
               /\ UNCHANGED <<item, queue, refused, arrival>>
    /\ UNCHANGED <<epoch, surface, lane, op, waits, granted, ran, under, fenced>>

\* runQueuedItem up to the start of the effect; the lease check and the call of
\* the handler follow the barrier check without a break.
StartItem(c) ==
    /\ pc[c] = "queued" /\ Turn(c) /\ c \notin refused
    /\ IF Stale(c) \/ (c \in Leased /\ ~HoldsLane(c))
       THEN /\ pc' = [pc EXCEPT ![c] = "terminal"]
            /\ item' = [item EXCEPT ![c].outcome = IF Stale(c) THEN "preempted" ELSE "failed"]
            /\ UNCHANGED <<ran, under>>
       ELSE /\ pc' = [pc EXCEPT ![c] = "running"]
            /\ ran' = Append(ran, c)
            /\ under' = [under EXCEPT ![c] = lease]
            /\ UNCHANGED item
    /\ UNCHANGED <<epoch, surface, lane, barrier, queue, refused, op, waits, faults,
                   granted, arrival, fenced, reports>>

\* The handler's promise settles.
EndEffect(c) ==
    /\ pc[c] = "running"
    /\ item' = [item EXCEPT ![c].outcome = "settled"]
    /\ pc' = [pc EXCEPT ![c] = "terminal"]
    /\ UNCHANGED <<epoch, surface, lane, barrier, queue, refused, op, waits, faults, history>>

\* terminalizeQueuedItem for the item whose turn it is; the item leaves the queue
\* whether or not the journal takes its terminal event.
TerminalizeItem(c) ==
    /\ pc[c] = "terminal"
    /\ \/ NoFault /\ reports' = [reports EXCEPT ![c] = Append(@, item[c].outcome)]
       \/ Fault /\ UNCHANGED reports
    /\ pc' = [pc EXCEPT ![c] = "done"]
    /\ Dequeue(c)
    /\ UNCHANGED <<epoch, surface, lane, barrier, item, refused, op, waits,
                   granted, arrival, ran, under, fenced>>

\* An item that a takeover has terminalized, or whose request the journal refused,
\* leaves the queue when its turn comes.
SkipItem(c) ==
    /\ c \in Queued /\ Turn(c)
    /\ pc[c] \in {"preempting", "done"} \/ (pc[c] = "queued" /\ c \in refused)
    /\ pc' = IF pc[c] = "queued" THEN [pc EXCEPT ![c] = "done"] ELSE pc
    /\ Dequeue(c)
    /\ UNCHANGED <<epoch, surface, lane, barrier, item, refused, op, waits, faults, history>>

-----------------------------------------------------------------------------
(* Takeover and delegation. *)

\* Appending command.requested; a command of an earlier epoch goes no further.
Request(o) ==
    /\ op[o] = "new"
    /\ barrier' = PrunedBarrier
    /\ \/ NoFault /\ op' = [op EXCEPT ![o] = "requested"]
       \/ Fault /\ op' = [op EXCEPT ![o] = "failed"]
       \/ epoch > 1 /\ NoFault /\ op' = [op EXCEPT ![o] = "failed"]
    /\ UNCHANGED <<epoch, surface, lane, items, waits, history>>

\* Mutant: items whose effect has started are preempted too.
PreemptableStarted(c) == c \in Automation /\ pc[c] \in {"queued", "running"}

Preemptable(c) == c \in Automation /\ pc[c] = "queued"

\* bumpPaneBarrier and preemptQueuedAutomation, which looks at one queue.
Bump(t) ==
    LET victims == {c \in Elements(queue[Target]) : Preemptable(c)}
    IN  /\ op[t] = "requested"
        /\ op' = [op EXCEPT ![t] = "preempting"]
        /\ barrier' = barrier + 1
        /\ pc' = [c \in Command |-> IF c \in victims THEN "preempting" ELSE pc[c]]
        /\ item' = [c \in Command |-> IF c \in victims
                      THEN [item[c] EXCEPT !.outcome = "preempted"] ELSE item[c]]
        /\ waits' = [waits EXCEPT ![t] = victims]
        /\ fenced' = fenced \cup {c \in Automation : pc[c] = "queued"}
        /\ UNCHANGED <<epoch, surface, lane, queue, refused, faults,
                       granted, arrival, ran, under, reports>>

\* terminalizeQueuedItem on behalf of a takeover, which fails with the append.
TerminalizePreempted(c) ==
    LET failing == {t \in Takeover : op[t] = "preempting" /\ c \in waits[t]}
    IN  /\ pc[c] = "preempting"
        /\ pc' = [pc EXCEPT ![c] = "done"]
        /\ waits' = [t \in Takeover |-> waits[t] \ {c}]
        /\ \/ /\ c \notin refused
              /\ NoFault
              /\ reports' = [reports EXCEPT ![c] = Append(@, item[c].outcome)]
              /\ UNCHANGED op
           \/ /\ IF c \in refused THEN NoFault ELSE Fault
              /\ op' = [o \in DOMAIN op |-> IF o \in failing THEN "failed" ELSE op[o]]
              /\ UNCHANGED reports
        /\ UNCHANGED <<epoch, surface, lane, barrier, queue, item, refused,
                       granted, arrival, ran, under, fenced>>

\* Mutant: a takeover awaits every automation item of the pane, running or not.
PreemptedIdle(t) == \A c \in Automation : pc[c] \notin {"preempting", "running"}

\* Promise.all of the preemptions.
Preempted(t) == waits[t] = {}

\* LaneLeaseStore.replace
Replace(kind) ==
    LET next == [epoch |-> epoch, revision |-> revision + 1, kind |-> kind]
    IN  /\ revision' = revision + 1
        /\ lease' = next
        /\ expired' = FALSE
        /\ granted' = granted \cup {next}

TakeLease(o) ==
    /\ \/ o \in Takeover /\ op[o] = "preempting" /\ Preempted(o) /\ Replace("human")
       \/ o \in Delegate /\ op[o] = "requested" /\ Replace("psyche")
    /\ op' = [op EXCEPT ![o] = "leased"]
    /\ UNCHANGED <<epoch, surface, barrier, items, waits, faults, arrival, ran, under, fenced, reports>>

\* The lease event and the terminal event; the lease stays taken if one is refused.
Answer(o) ==
    /\ op[o] = "leased"
    /\ \/ NoFault /\ op' = [op EXCEPT ![o] = "answered"]
       \/ Fault /\ op' = [op EXCEPT ![o] = "failed"]
    /\ UNCHANGED <<epoch, surface, lane, barrier, items, waits, history>>

-----------------------------------------------------------------------------
(* What happens around the runtime. *)

\* A command to another pane prunes too.
SubmitElsewhere ==
    /\ barrier' = PrunedBarrier
    /\ UNCHANGED <<epoch, surface, lane, items, op, waits, faults, history>>

\* upsertPane of an absent pane, or of one bound to another tmux pane.
Register ==
    /\ surface.generation < MaxGeneration
    /\ surface' = [registered |-> TRUE, generation |-> surface.generation + 1]
    /\ UNCHANGED <<epoch, lane, barrier, items, op, waits, faults, history>>

\* invalidatePaneSurfaces, and refreshPaneSurfaces for a pane that is gone.
Withdraw ==
    /\ surface.registered
    /\ surface' = [surface EXCEPT !.registered = FALSE]
    /\ UNCHANGED <<epoch, lane, barrier, items, op, waits, faults, history>>

Expire ==
    /\ lease # None /\ ~expired
    /\ expired' = TRUE
    /\ UNCHANGED <<epoch, surface, revision, lease, barrier, items, op, waits, faults, history>>

\* The owner process ends and another one acquires the next epoch.
Restart ==
    /\ epoch < MaxEpoch
    /\ epoch' = epoch + 1
    /\ surface' \in {s \in [registered : BOOLEAN, generation : {0, 1}] :
                       s.registered <=> s.generation = 1}
    /\ revision' = 0 /\ lease' = None /\ expired' = FALSE
    /\ barrier' = 0
    /\ queue' = [g \in Generation |-> <<>>]
    /\ pc' = [c \in Command |-> IF pc[c] \in {"new", "done"} THEN pc[c] ELSE "lost"]
    /\ item' = [c \in Command |->
                  [key |-> 0, stamp |-> 0, token |-> item[c].token, outcome |-> item[c].outcome]]
    /\ refused' = {}
    /\ op' = [o \in DOMAIN op |-> IF op[o] \in {"new", "answered"} THEN op[o] ELSE "failed"]
    /\ waits' = [t \in Takeover |-> {}]
    /\ UNCHANGED <<faults, history>>

-----------------------------------------------------------------------------

\* Steps the event loop takes by itself; handlers may take for ever.
Step ==
    \/ \E c \in Command :
         \/ StartItem(c) \/ TerminalizeItem(c) \/ SkipItem(c) \/ TerminalizePreempted(c)
    \/ \E t \in Takeover : Bump(t)
    \/ \E o \in Takeover \cup Delegate : TakeLease(o) \/ Answer(o)

Next ==
    \/ \E c \in Command : Enqueue(c) \/ EndEffect(c)
    \/ \E o \in Takeover \cup Delegate : Request(o)
    \/ Step
    \/ SubmitElsewhere \/ Register \/ Withdraw \/ Expire \/ Restart

Spec == Init /\ [][Next]_vars

\* The event loop runs what is ready.  Each step above is taken at most once per
\* command, so fairness of their disjunction is fairness of each of them.
FairSpec == Spec /\ WF_vars(Step)

-----------------------------------------------------------------------------
(* Properties. *)

\* Automation that was waiting, in a queue of any generation, when a takeover
\* raised the barrier never starts its effect, leased or not
\* (executeTakeover, isStaleAutomationGeneration, pruneRetiredPaneBarriers).
TakeoverFences == fenced \cap Elements(ran) = {}

\* An effect that needs the lane runs under the very lease its client was given,
\* although revisions start again from one in every owner process.
RunsUnderItsLease ==
    \A c \in Leased \cap Elements(ran) : under[c] = item[c].token

\* Preemption and the item's own turn race to terminalize it: there is one report,
\* and it tells a command that has had an effect from one that has not.
ReportsHold ==
    \A c \in Command :
        /\ Len(reports[c]) <= 1
        /\ reports[c] # <<>> => (reports[c] = <<"settled">> <=> c \in Elements(ran))

Position(seq, c) == CHOOSE i \in 1..Len(seq) : seq[i] = c

\* While the pane keeps its surface, effects start in the order of submission, one
\* after the other.
Serialized ==
    \A i, j \in 1..Len(ran) :
        i < j /\ item[ran[i]].key = item[ran[j]].key /\ pc[ran[j]] = "running"
        => /\ Position(arrival, ran[i]) < Position(arrival, ran[j])
           /\ pc[ran[i]] # "running"

\* A takeover is answered even if the effect that is running never ends.
TakeoverSettles ==
    \A t \in Takeover : op[t] = "requested" ~> op[t] \in {"answered", "failed"}

\* If effects end, every queued command is settled, behind any number of preempted,
\* refused and failing ones.
CommandsSettle ==
    (\A c \in Command : []<>(pc[c] # "running"))
    => \A c \in Command : pc[c] = "queued" ~> pc[c] \in {"done", "lost"}

=============================================================================
