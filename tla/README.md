# Verification of the psyche control plane

psyche drives coding agents in tmux panes, browser surfaces and file roots. A
daemon on the developer's machine owns each project: it takes the project's owner
lock, opens a journal, and runs every command of humans and agents through one
runtime, which must not repeat an effect, must keep agents out of a pane a human
has taken over, and must survive crashes and full disks. This directory holds TLA+
models of that code, their TLC configurations, and proofs checked by TLAPS.

Source paths below are relative to the repository's `src/src/` unless they start
with `docs/` or `__tests__/`. `PROJECT.json` maps each definition to source lines.

## 1. Inventory

### The control plane (the program's core logic, `control/`)

| component | state | operations | what must be right |
|---|---|---|---|
| owner lock, `ownerLock.ts` | directory `owner.lock` with `owner.json`, `owner-epoch.json`, one candidate directory per contender | acquire (candidate, rename, judge, quarantine, epoch, final record, reap), release | one owner; an epoch is never handed out twice; a dead owner is replaced; attempts end |
| journal, `journal.ts` | journal file, snapshot, an outcome sidecar per idempotency key; the retained events in memory | append with rollback and repair, replay, publish and replace outcomes, compact, recover open transactions | a refused append leaves no trace or one that is accounted for; a crash at any step loses no outcome |
| runtime: durability, `runtime.ts` | in-flight calls by key, hot outcomes, dirty outcomes, the running compaction | submit, lookup, durability gate, reservation, request/effect/terminal, compaction, create | a retried key runs once; callers agree; every call settles; the dirty map has room for what runs |
| runtime: panes, `runtime.ts`, `leases.ts`, `surfaces.ts` | a queue per pane and surface generation, takeover barrier, lane lease with revision, surface registry | enqueue, run, terminalize, takeover, delegate, register and withdraw surfaces | preempted automation never runs; input runs under its own lease; one truthful report per command |
| runtime: capability leases and approvals, `capabilityLeases.ts`, `approvals.ts`, `policy.ts` | lease requests, leases with revisions, approvals, pending contexts, quarantined queues | request, grant, release, revoke, prepare, approve or deny, perform with timeout | an approval is spent once, for what was approved, under the lease it was given under |
| host, `host.ts`, `hostProcess.ts` | lock, journal and runtime of one process | start, close | the fence is held while effects run |
| server, client, protocol, scope | sockets, stream cursors | submit, stream events, resume | a reader that resumes below the retained journal learns of the gap |
| credentials, task identity | credential files, tombstones, the mutation lock | issue, revoke | a revoked task cannot act |
| browser broker and semantic snapshots | pending requests, snapshots by generation | request, response, timeout, invalidate | a late answer is not taken for another request's |
| prompt dispatch | none (one hash check) | dispatch | a prompt whose fate is unknown is not sent again |

### Around it

| component | state | what must be right |
|---|---|---|
| daemon and bridge, `daemon/` | connections, spawns by client request, pane surfaces | surfaces follow the panes that exist; a spawn is idempotent |
| worktree operation lease and Git supervisor, `services/WorktreeOperationLease.ts`, `services/GitMutationSupervisor*.ts` | a lease directory per worktree with record, release markers and child files, shared by processes; the supervised Git | one process at a time mutates a worktree, also when a client, its supervisor or Git dies; a lease is given back |
| worktree cleanup, `services/WorktreeCleanupService.ts` | trash entries | cleanup never races a pane that is being reopened |
| slug registry and reservation, recovery marker, `services/PaneSlug*.ts`, `services/WorktreeRecoveryMarker.ts` | ownership records per slug of a session, recovery markers per target project, locks of both | a slug has one owner, also after a crash; cleanup is blocked while anything may be left of a creation |
| adoption of untracked panes, `services/UntrackedPaneAdoptionGate.ts` | none | a pane that a creation is about to save, or has saved, is not adopted as well |
| project pane configuration, `services/ProjectPaneConfig.ts` | the pane list in a JSON file | no lost update between processes |
| transactional pane creation, `utils/` | worktree, tmux pane, record | a failing step is compensated |
| status and attention, orchestration | trackers, lanes | (heuristic; later, if at all) |
| TUI, actions, layout, MCP server, snapshots, native apps | projections, user interface | not modelled: pure I/O or separate programs |

### Interaction

A process starts in `host.ts`: owner lock, then journal (stamped with the epoch), then
`ControlRuntime.create`, which repairs and republishes what the last process left. TUI processes, the
daemon and the hooks mutate worktrees under a worktree operation lease, which is a protocol among
processes of its own. The daemon registers pane surfaces with the runtime's `SurfaceRegistry`, from
tmux polls and lifecycle signals, without going through the runtime's queues. Commands reach
`ControlRuntime.submit` from sockets; all of one process run on one event loop and interleave at every
`await`. Processes meet only in the file system. The journal and its sidecars are what one owner hands
to the next.

### What is hard

- *Interleaving at awaits.* Lookups of a key read sidecars before executing; takeover
  and queue both terminalize an item; compaction runs beside terminal publications.
- *Crashes.* Every file operation of acquisition, compaction and recovery can be the
  last. Leases, queues and barriers are lost; journal and sidecars are not.
- *Files as locks.* A rename, a read and a write by path are each atomic and never
  together: every protocol over them races at each step.
- *Partial failure.* An append may fail, fail to roll back, or be refused after the
  effect has happened; a publication may fail after its rename.
- *Staleness.* Surface generations, barriers and leases change while commands wait.
- *Bounds.* The dirty map has a budget; compaction that cannot proceed blocks callers.

`PROJECT.json` lists each hazard with its line and the properties that watch it.

## 2. Modules

| module | what it is |
|---|---|
| `OwnerLock` | any number of processes and one project's lock directory |
| `OwnerLock_proofs` | its theorems |
| `DurableOutcomes` | one owner process after another over the journal, snapshot and sidecars |
| `CommandContract` | what a client that retries may rely on; `DurableOutcomes` implements it |
| `DurableOutcomes_proofs` | its theorems, the refinement among them |
| `DurableApprovals` | `DurableOutcomes` with surface actions that need an approval |
| `DurableBudget_proofs` | the durability budget |
| `PaneLanes` | one pane: queues, barrier, takeover, delegation, lane lease, surfaces |
| `PaneLanes_proofs` | its theorems |
| `SurfaceApprovals` | one browser tab: capability leases, approvals, the tab's queue, receipts |
| `OneTimeConsent` | what an operator may rely on; `SurfaceApprovals` implements it |
| `SurfaceApprovals_proofs` | its theorems, the refinement among them |
| `SurfaceQueues_proofs` | ... and those about the queues and the receipts |
| `WorktreeLease` | the processes around one worktree's lease directory |
| `WorktreeLease_proofs` | its theorems |
| `PaneSlugs` | one session's pane names: reservations, recovery markers, reconciliation, adoption |
| `PaneSlugs_proofs` | its theorems |
| `MC...` | constants for TLC |

The modules meet at named points. `OwnerLock` gives out the epochs that
`PaneLanes` counts at a restart and stamps on commands (`Current`).
The stage of a command that `PaneLanes` and `SurfaceApprovals` call running is the effect
between the request and the terminal event in `DurableOutcomes`, where any interleaving of
commands is allowed; what these two know of the journal is that an append may be
refused. `WorktreeLease` and `PaneSlugs` share nothing with them: they are what effects (and
the TUI) do on disk.

### OwnerLock

A contender is one call of `acquireOwnerLock` in one process; its name is the nonce
and the pid of its record. `pc` is the place in the code and each action one file
operation, because another process may run between any two:
`MakeCandidate`, `WriteCandidate`, `RenameCandidate` (the winning rename, ENOENT or
ENOTEMPTY), `JudgeOwner`, `QuarantineStale` (a rename by path, of whatever is there by
then), `ReadEpoch`/`WriteEpoch` of `nextEpoch`, `OpenRecordTemp`, `SwapRecord`,
and `Release`. The recursive removal of the lock is its entries, one by one if
there are two (`UnlinkFirst`, `UnlinkSecond`), and then the directory. `reapOrphans` removes
all candidates of others at once and each of them in the steps Node takes (`removal`): after
`ListOrphans`, `RemoveOrphan` tries to remove the directory, which succeeds if it is empty, else
`UnlinkOrphan` unlinks the record and `RemoveOrphan` tries again; `ReapDone` follows when nothing is
left of what was listed. It stands outside the try block: a removal that fails throws out of
`acquireOwnerLock` with the lock in place ("kept"). `DiskFault` is an exception in the try
block or in that removal, `Crash` the end of the process at any step.
Three history variables: `displaced`, some contender renamed away the directory of a
process that is running; `unrecorded`, a candidate whose record somebody had unlinked
became the lock; `misread`, an epoch file that is there could not be read, which
the code takes for 0.

Left out: reuse of pids (the probe is exact).

### DurableOutcomes

An attempt is one call of `submit()`; an outcome is the name of the attempt that ran the effect, so
two executions never look alike. On disk: `journal` (whole lines), `torn` (what a failed append and a
failed rollback left behind), `snapshot`, `sidecar` per key, and `cut`, the last sequence the file no
longer holds, which a failing compaction may have moved ahead of memory's `dropped`. In memory:
`pending`, `hot`, `dirty`, `compaction`, `blocked`, `recovered`. `mode` follows
`ControlRuntime.create`: open, recover each open transaction, publish, restore, up; "broken" is a
start that throws whenever it is repeated.

`Submit` is the synchronous prefix of `submit()`; the steps of an attempt after it are
cut at the awaits: sidecar lookup, durability gate, reservation with its flush,
request, effect, terminal, publication. `performCompaction` is cut in the same
way into flush, snapshot, batch, one marker per key, truncation and end, each step
with the abort test the code makes there.

Left out: framing and checksums of the files, receipts, legacy formats, subscriptions, the completed
keys a snapshot lists (after a restart they turn a lookup without a sidecar into an error; the model
runs such a command afresh, and `AtMostOnce` holds without that net), and a publication whose rename
succeeds, fails its verification and is undone by unlinking the file. The second terminal event of an
action that needed an approval is in `DurableApprovals`: here each command has one, and
`TerminalOnce`, `AnswersAgree` and `KeepsContract` speak of such commands. Three disjuncts that stand
for defensive code are never taken without decisions, and none is an action of its own: a retained
terminal event whose outcome has left the memory and has no sidecar (`LookupRetained`, third disjunct)
needs a key that is not dirty although its publication failed; a full dirty map in `AppendTerminal` is
what `TerminalHasRoom` excludes; and a sidecar that changed between verification and marking
(`MarkCompacted`) is caught by the abort test before it. In `DurableApprovals` the first two are
taken.

### DurableApprovals

The execution of a `Gated` command ends with a terminal event that says an approval is
required. When the approval is denied, used up, invalidated or has expired, `rememberReceipt` and
`appendTerminal` run a second time for the same command (`runtime.ts:908`, `932`, `1416`). For that
event nothing was reserved: `AppendDecision` appends it and makes its key dirty beside those the
budget counts (`MarksDirty`), or finds the dirty map full, which throws (1903) in the call
of whoever decided. `PersistDecision` publishes its sidecar. A decision may come at any
step while the approval is pending (`approvals`); what an approval is for, and who decides, is
`SurfaceApprovals`' subject.

Left out: a second event that falls into a lookup of its key or into the publication of the first
one's sidecar, both of which are one step here, and the events that
`recoverRestartedApprovalReceipts` appends at a start.

### PaneLanes

One pane, since panes share nothing but the journal. `queue[g]` is the promise chain of the pane's
queue under surface generation `g`; only its head runs. A command's `pc` goes from
queued to running to terminal to done; "preempting" is an item a takeover has
terminalized and whose report is being written while it still stands in its queue. `StartItem` is
`runQueuedItem` from the barrier test through the lease test to the call of the handler: no
await separates them. `Bump` is the two synchronous calls of `executeTakeover`,
`TakeLease` what follows `Promise.all`. `Enqueue`, `Request` and `SubmitElsewhere`
begin with `submit()`'s pruning of retired barriers. `Register`, `Withdraw` and `Expire` happen
at any time. `Restart` is a new owner: epoch up, memory empty, revisions from zero.

Left out: queue blockers (only tests set them), surface actions in the same queues and the
revocation of capability leases a takeover also awaits (`SurfaceApprovals` has
`RevokeLease`, for a tab), and actor ids beyond the actor's kind.

### SurfaceApprovals

One browser tab, one task subject, and one lease request per owner process. Actions of
the agent, an operator's `approval.resolve` and `lease.grant` commands are processes;
`pc` is the await each is at. Most checks of `executeSurfaceControlCommand` come in two halves
around the read of the task's credential file: the synchronous part before it is in the
action that enters a stage (`Submit`, `StartResolve`, `StartGrant`, `TakeTurn`), the part
after it in the one that leaves it (`RequestApproval`, `EnqueueAction`, `Consume`,
`StartEffect`, `Grant`). `reading` is what makes a read that began before the credential was withdrawn see
it or not. `Report` is `rememberReceipt` with `appendTerminal`: the
receipt in memory changes in any case, the journal's copy (`durable`) may not. `queue[g]` is the
resource queue of generation `g` with the count of `pendingEffects`, `quarantined` and
`Pruned` its quarantine. `EndEffect` and `Timeout` race. `ChangeTab` is what the provider does to
the tab, with the revocations `revokeTarget` makes in the same step; `Deactivate` lets the
credential file go, after which `WithdrawLease` takes back leases and approvals of the
subject wherever a command finds out. `Poll` is `refreshApprovalState`, `Expire` the clock.
`Restart` is a new owner with `recoverRestartedApprovalReceipts`.

History: `told` and `ended` are the leases the agent has heard of and those that are over;
`runs`, `consented`, `denied`, `stuck`, `late` say what happened; `doubtful` and `cut` mark
the actions which the code itself reports wrongly (disagreements 5 and 7).

Left out: the classification of actions and payload digests (`policy.ts`), redaction, a
command's own deadline, `lease.release` (to others it is `lease.revoke`), several subjects,
surface actions on panes, and the limits on stored records. `queue_full` is
modelled and its disjunct is not taken with two actions and a depth of two.

### WorktreeLease

Each client has a process `C(c)` and may fork a supervisor `S(c)`; `goal` is which function
of `WorktreeOperationLease.ts` a process is in and `stage` the file operation it has come
to. A read of the lease is three (`ReadRecord`, `ReadMarker`, `ReadChild`), so a view may mix
two states. `Decide` is the test made on the view; `ClaimRecord`, `MoveDirectory` and
`Restore` are `quarantineDeadLease` and `finalizeOwnedLeaseRelease` alike: rename the record
away, then the directory, or put the record back. `ReadRaw` and `Replace` are
`updateOwnedLeaseRecord`, whose write goes to whatever directory is there by then. `Fork`,
`StartGit`, `TrackGit`, `NoticeLoss`, `NoticeClose` and `ClearChild` are the supervisor: it claims the
pending mutation, starts Git stopped, writes the child file, lets Git go, and kills
it if the parent is lost. `Acquire` renames a candidate into place. `Die` ends any process between any two
steps, `Return` may be an error of the channel while the supervisor goes on. `Fork` names a
process that has not run yet, which its guard says.

History: `robbed`, a directory or a record went from under a supervisor or Git that was at
work (disagreements 8 and 9); `missed`, releases that found no record (10); `cut`, a death
between claim and move (11).

Left out: leases of several paths in one command, pid reuse, unreadable files, signals to the
supervisor, the wait's timeout, a second clean-up on 'exit' after a broken channel, and
`retainPendingGitMutationLease`. The project lifecycle lease is the same code.

### PaneSlugs

A creation is one call of `createTransactionalPane`, an adoption one poller of `useShellDetection.ts`
with one pane; each is a process and its name is the id of its reservation. `pc` is the point it has
come to and `phase` the part of its operation that decides where an exception leads (`ThrownTo`):
creating, made durable, compensating, settling, or settling "blind", that is without a teardown.
`record` and `marker` are the files of a reservation: a record is "reserved" before it names a pane,
"bound" after, "quarantined" or "unresolved" once somebody gave up on it; `slugLock` and `targetLock`
are the session's slug lock and each project's recovery lock. A section under these locks with one
write is one step, and one with several holds the locks between them (`Choose` to `Write`, `Mark` over
`Shut` to `Stamp`, `AckRecord` to `AckMarker`), so that a process may die in the middle; a dead
holder's lock is free. `recordPaneEffect` takes no lock, hence `BindRead` and `BindWrite`. `Ensure`,
`Judge`, `Clear` and `Mark` with a `subject` other than the process itself are a reconciler's, which
compares the record with the listing it made (`Unchanged`). `Poll`, `Gate`, `Decide` and `ReadSaved`
are the poller's way to a pane: panes it found in tmux and not in the configuration it had read
before, the records, and the configuration once more. The gate passes over the record of a live owner
if it is older than five minutes or stamped in the future: any record `InFlight` may be found so
(`late` in `Decision`), and what a poll passed over and may adopt is in `passed`. `Raise` is a lock
timeout or a failed read or write, `Die` the end of a process, `PaneDies` a pane that goes by itself,
`Forget` its removal from the configuration.

Left out: unreadable records, pane ids used again by another tmux server, a split that fails although
it made a pane, background windows, and the files of the project locks, which are taken to exclude.
They do not quite: a contender that has read the lock record of an owner which then releases and exits
renames away the lock of the next one (`ProjectPaneConfig.ts:326`).

## 3. What TLC checks

| run | instance | result |
|---|---|---|
| `OwnerLock` | three contenders, any disk faults and crashes; fair | safety and liveness hold |
| `OwnerLockStaleRace` | the same | **violated**: `OneLiveOwner` |
| `OwnerLockHalfRemoved` | two contenders | **violated**: `DeadOwnerReplaced` |
| `DurableOutcomes` | two calls for a surface key, one for another; compaction beyond two events, one retained; two crashes, two faults | safety and the refinement of `CommandContract` hold |
| `DurableApprovals` | the same keys, the surface key gated; budget one, compaction beyond two events, one crash, two faults; fair | `DurabilityBudget`, `SubmitsSettle` hold |
| `DurableOutcomesTwice` | one fault | **violated**: `NeverTwice` |
| `DurableOutcomesNonSurface` | no surface key, no fault, one crash | **violated**: `NonSurfaceStarts` |
| `PaneLanes` | one automation command, one human command that needs the lane, a takeover, a delegation, two owner processes, one fault; fair | safety and liveness hold |
| `SurfaceApprovals` | a guarded and a free action, two resolvers, two grants, two generations, one restart, one fault | safety and the refinement of `OneTimeConsent` hold |
| `SurfaceApprovalsRecovery` | one of each, one restart, no fault | **violated**: `RecoveryReportsUnknown` |
| `WorktreeLease` | a client with a Git command, two contenders, one death or broken channel | safety holds |
| `PaneSlugs` | a creation and a poller in one project, a poller in another, two names, two deaths, one fault; fair | safety and liveness hold |

The properties that hold:

- `ExclusiveUnlessDisturbed`, `EpochsFence`, `OwnerKeepsRecord`: while nobody's live
  directory is renamed away and no half-reaped candidate becomes the lock (disagreements 1 and
  15) there is one holder, epochs are never reused unless a read of
  the epoch file failed, the owner has the epoch of the file even then, and no reaping,
  failed start or late rmdir takes the record from a live owner.
- `LoneContenderAcquires`, `AttemptsSettle`: crashed processes do not lock a
  survivor out (but for the case below), and contenders do not keep each other in the loop.
- `AtMostOnce`, `CrashSafe`, `AnswersAgree`, `TerminalOnce`: a key's effect runs once
  unless the journal refused the terminal event of its run; the files show every effect
  performed; callers of a key are told one outcome; recovery terminalizes a
  transaction once.
- `DurabilityBudget`, `SubmitsSettle`: running executions and the dirty outcomes of executions
  fit the budget together, second outcomes coming on top of it (disagreement 16);
  and every call settles, with compactions that abort or fail, before a crash and after the
  restart, also when decisions fill the dirty map.
- `TakeoverFences`, `ReportsHold`, `Serialized`: automation that waited when the barrier
  rose never runs; a command has one report, which says whether it ran; effects
  of one queue run one after the other in order of submission.
- `RunsUnderItsLease`: an effect that needs the lane runs under the lease its client was
  given, though revision numbers repeat across owner processes.
- `KeepsContract`: with journal, sidecars, compaction and crashes hidden, the runtime is
  `CommandContract`: an effect is the key's first and comes before every answer that names it,
  and all answers agree, but for keys whose effect the journal refused to record.
- `ConsentedOnce`, `KeepsConsent`: an approval lets one action start once, a denial never;
  what was refused, has expired or was revoked with its lease, tab, subject or owner does
  not come back.
- `Authorized`: an effect starts only under a lease that was handed out and has not been
  revoked, renewed or expired, on the generation of the tab it names, although every check
  awaits a file.
- `NotRunStays`: what a receipt calls not run does not run later (but see below).
- `OneAtATime`: of the effects on a tab that have not timed out at most one is running, and what
  enters the queue after a timeout never starts. What had been queued before it does
  (disagreement 14).
- `IdleMeansSettled`: a command that has a step of its own (`Ready`) finds the event loop
  able to take one, and when none has, no command is left half-way: no item waits for a
  predecessor that was denied, failed or timed out.
- `Exclusive`: whoever may touch the worktree, client or Git, has the directory, and nobody
  else may, for any reads, claims and updates others make between two steps of the holder.
- `NeverStranded`: a lease without a record is in the hands of a process that will move it
  or give the record back.
- `ReleaseTakesEffect`: once a client has released and its supervisor and Git are gone,
  a contender finds the lease gone or free to take, though the client lives on.
- `UniqueSlug`, `CleanupFailsClosed`: a slug has one owner in the session, saved or not; and
  wherever a process dies, what it leaves (a record, or a pane nobody saved) has a marker that
  blocks cleanup of its project, until the operator has acknowledged it.
- `AdoptsStrays`: a poller does not adopt a pane whose creation is under way, has saved it or
  has had it quarantined, though it detected the pane long before it decides; unless that very
  poll found the creation's record too old (disagreement 17).
- `SettledStays`, `ProducerUndisturbed`: a settled reservation is not written anew, and nobody
  else touches the provisional record of a live process, which reads and writes it without a lock.
- `OrphansReported`: a pane whose creation died between the split and the save is settled or
  quarantined while a poller lives.
- `TakeoverSettles`, `CommandsSettle`: a takeover does not wait for the running effect;
  commands behind preempted, refused and failing ones are settled.

Every property of a passing run has a mutant in `PROJECT.json`: a plausible bug of a
mapped definition under which TLC finds the property violated on the same instance.

### Disagreements with the documentation

1. `OneLiveOwner`. Two contenders judge the same dead owner. The first replaces it; the
   second then renames away the directory at the path, which is now the first one's.
   Both own the project. (`ownerLock.ts:76`; `docs/CONTROL-PLANE.md:163`.)
2. `DeadOwnerReplaced`. A start fails after opening its temporary record and its
   process dies in the removal that follows, between the record and the temporary file. The directory
   then has no record and is not empty: every later acquisition throws. (`ownerLock.ts:70`.)
3. `NeverTwice`. When the terminal append is refused after the effect, nothing in memory or
   on disk holds an outcome, and a retry in the same process runs the effect again.
   (`runtime.ts:1686`; `docs/CONTROL-PLANE.md:79`.)
4. `NonSurfaceStarts`. A compaction during the effect drops the request that names the
   command's kind; after a crash before the sidecar, the retained terminal event cannot be
   reconstructed and no start succeeds. (`runtime.ts:2825`; `docs/CONTROL-PLANE.md:100`.)
5. `RecoveryReportsUnknown`. The receipt of an approved action stays approval_required in
   the journal until its effect's terminal event. An effect that was running when the owner
   died is reported invalidated, that is not run, by the next one.
   (`runtime.ts:1459`; `docs/AGENT-SURFACE-CONTROL.md:232`.)

Met while modelling and excepted by name from a property, without a run of their own:

6. Two commands to one pane wait in different queues if its surface is withdrawn and
   registered between them, and the later one may start first. `Serialized` speaks of one
   generation. (`runtime.ts:2288`; `docs/CONTROL-PLANE.md:88`.)
7. Receipts (`doubtful`). A second `approval.resolve` that comes while the first
   awaits its lease check makes `finalizeApproval` write action_invalidated for an action
   that is then performed (`runtime.ts:883`). A refused append of approval.requested
   reports an action failed whose approval can still be given (`runtime.ts:746`). An approval whose
   time ends between approval and consumption, or inside the revocation of its subject, leaves a
   receipt of approval_required for ever (`runtime.ts:932`, `approvals.ts:314`).
8. `quarantineDeadLease` repeats its liveness check on the view it had read before it
   claimed the record, not on what it claimed: a supervisor that has claimed its mutation in
   between loses its lease. The comment says "A live lease is never moved."
   (`WorktreeOperationLease.ts:798`, comment at 789; `robbed`.)
9. An update that read its record before the record was renamed away puts it back, or replaces
   the next holder's, which the comment at 713-717 means to exclude.
   (`WorktreeOperationLease.ts:742`; `robbed`.)
10. A release that finds no record, because a contender has just renamed it away, gives up;
    if the contender puts it back, the lease stays with a live process that is done with it.
    (`WorktreeOperationLease.ts:1291`; `missed`.)
11. A process that dies between renaming the record away and moving the directory leaves a lease
    without a record, which nobody can read or take. (`WorktreeOperationLease.ts:1332`; `cut`.)
12. A supervisor killed while Git is stopped leaves a stopped process: it is alive, and keeps
    the lease until somebody ends it. `ReleaseTakesEffect` asks for Git to have ended.
13. Two `lease.grant` commands for one request both pass the pending check, and the second
    renews the lease of the first, which the tests expect to be refused
    (`runtime.ts:657`; `__tests__/controlRuntime.test.ts:2297`). `Authorized` holds all the same.
14. Quarantine is tested when an action enters the queue only: what was queued before a
    timeout starts while the timed-out effect may still run (`runtime.ts:943`). `OneAtATime` says so.
15. A winner removes a rival's candidate entry by entry, the record first. If it dies then, the rival
    renames the empty directory to `owner.lock`, and a third contender's rename succeeds over it,
    since an empty directory may be replaced: two hold the lock, and the record either writes goes to
    the same place. (`ownerLock.ts:151-164`; `docs/CONTROL-PLANE.md:163`; `unrecorded`.)
16. The second terminal event of an action that needed an approval makes its key dirty without a
    reservation (`runtime.ts:908`, `932`, `1416`). While sidecars cannot be written, such keys fill
    the dirty map although executions were promised room in it; the terminal event of one of these, an
    `approval.resolve` for example, then throws after its effect (1903). "Fresh execution shares one
    256-slot durability budget" (`docs/CONTROL-PLANE.md:107-111`) does not hold for them.
    `DurabilityBudget` counts what was reserved.
17. A creation still at work after five minutes may have its pane adopted, which the comment of
    `UntrackedPaneAdoptionGate.ts:57-62` accepts (`passed`). But it does not leave "two records for
    one tmux pane": the save refuses a pane of the same tmux server generation that is in the
    configuration (`ProjectPaneConfig.ts:1292-1310`), and the creation that fails there compensates by
    tearing the pane down, which is what the comment says must not happen.

### Bounds, and why they are enough

Three contenders are one to die with the lock and two to race for it; each acquires
once, and a third acquisition meets no file state that two do not leave. `EpochsFence` needs
no bound on epochs: there are as many as acquisitions.

With three contenders one reaps another's candidate, dies in the middle, and the two others win with
what is left.

Two calls of one key and a third of another are a retry, the call it duplicates, and
the traffic that fills the journal and the budget. `Trigger` and `Retain` are small, so
that a compaction runs after each command and cuts between a request and its terminal
event. Two faults let an append and its rollback
fail and then a second operation, such as a publication or a truncation, with or without the
crash. Calls that come after a restart are calls not yet submitted before it.

Two crashes are one to lose the memory of a running compaction and one to interrupt the
recovery from it.

In `DurableApprovals` a budget of one is enough for a second outcome to take the slot of a running
execution, and for an execution to end with the map full; a decision may also come while a
compaction runs, and before the crash or after a caller's failure.

In `PaneLanes` one takeover raises a barrier over what waits, and a delegation and a restart change
who has the lane; `MaxEpoch = 2` lets a revision number recur in another epoch. What a second takeover
and a second generation add (a barrier dropped with a withdrawn pane and raised to the same number
again, a lane that passes twice) is beyond this run: the safety properties are proved for any number
of them.

In `SurfaceApprovals` two resolvers and two grants are a pair for every check that is
followed by an await; the free action is what a guarded one waits for, or makes wait, in
the tab's queue; two generations are a tab and its replacement, and after the restart there
is one. One fault is a refused append or an unreadable credential.

In `WorktreeLease` one client has a Git command, and two contenders are enough for one to
read an old view, another to take the lease in the meantime, and the first to act on its view. One death
or broken channel can strike any process at any step; a second one is covered for
the safety properties by the proofs.

In `PaneSlugs` a creation, a poller that shares its project and one that does not are the three roles
at a name: who owns it, who reconciles under the same recovery lock, and who meets the first only at
the slug lock. One fault is a failing step or lock, or a poll that finds records too old. Two names
let a slug be taken and another be free; two deaths are that of an owner and of the one who cleans up
after it. Of liveness the run says that one orphan is reported; of safety the proofs say the rest.

`CHECK_DEADLOCK FALSE` stands in every configuration: once every call is
settled nothing need happen. Symmetry is used for safety only, over calls of one key, over
resolvers and over grants, and over contenders; `Authorized` and the
refinements are safety properties that are symmetric in them.

### Fairness

Only steps the event loop or a running process takes by itself are fair, and weakly: `Run(p)` of a
contender that is not killed, `Step(a)` and `Compact` of the owner process, `Step` of a pane's
runtime; in `PaneSlugs` the next step of a process that lives, the polling, which an interval timer
repeats, and the operator's second write. Nothing obliges a client to submit, a process to crash, be
restarted or release its lock, a lease to expire or a handler to end; where a liveness property needs
effects to end (`CommandsSettle`) it says so as an antecedent, and `TakeoverSettles` does not need it.
In `DurableOutcomes` the effect is fair: how long it takes is `PaneLanes`' subject. Nobody is obliged
to decide an approval or to call again. `SurfaceApprovals` and `WorktreeLease` have no fair
specification: `IdleMeansSettled` says as an invariant that no command is stuck when the event loop
has nothing left to do, and `ReleaseTakesEffect` that only a contender's own steps stand between it
and the lease.

## 4. What TLAPS proves

For every value of the constants that satisfies the named assumptions: in `OwnerLock`,
that `NoOne` is no contender; in `DurableOutcomes`, that calls, keys and outcomes are
told apart, that `None` is no dirty entry, that compaction retains less than triggers it and the
budget has room for one; in `DurableApprovals`, that gated keys are surface keys and `Verdict` is no
other outcome; in `PaneLanes`, that the sets of commands, takeovers and
delegations do not overlap and that the bounds are numbers, at least one generation
and one epoch; in `SurfaceApprovals`, that the kinds of commands do not overlap and
the queue has room for one; in `WorktreeLease`, that mutators are clients and `None` is nothing else; in
`PaneSlugs`, that creations, pollers and other panes are different and each has a project.

`OwnerLock_proofs`: `TypeCorrect`, `Exclusion`, `Fence`, `RecordKept`. Exclusion alone is not
inductive: it says nothing of the directory. The invariant adds that, while nothing was displaced and
no candidate without its record has become the lock, a process that has the lock finds its own nonce
in the record. Two holders would read two names there. From this the read and the write of the epoch
file have no other holder between them: what a holder has been given is what the file says
(`NumberInv`), and without a misread the counter never falls behind (`EpochInv`). The cases that need
the condition are `QuarantineStale`, where the directory it takes away either belongs to nobody or
sets `displaced`, and `RenameCandidate`, which sets `unrecorded` if the candidate is empty. That both
conditions are needed TLC shows: a behaviour with either alone has two holders.

`NotLockedOut` is `LoneContenderAcquires`, a proof of liveness under the fairness of `FairSpec`, for
each process by its own (`LoneAcquires`). Nobody has anything of its own in the lock directory
before its winning rename (`NotMine`), so what a lone process finds there is not itself: the first
round ends in a win or in the quarantine of a dead owner, the second, over an empty directory, in a
win, and five steps later it is the owner. Each of the thirteen places leads only to the next, or to
a failure or its death (`FirstRound`, `SecondRound`, `Won`). That it can step from each place is
`ENABLED`, hence a hypothesis of the theorem, `[]CallsGoOn`. It holds by the shape of the actions, of
which there is one for whatever a step may find, so no run checks it by itself; TLC's evaluation of the
same fairness in `LoneContenderAcquires` does not need it.

`DurableOutcomes_proofs`: `TypeCorrect`, `EffectsShow`, `RunsAtMostOnce`, `TerminatesOnce`,
`OneAnswer`, and `ImplementsCommandContract`, the refinement. The journal in memory is read as a
map from sequence numbers (`Span`) to events (`At`), since a compaction drops a prefix and
an append adds one at the end. The invariant has seven parts:

- `Positions`: file, snapshot and memory agree on which prefix is gone, and a compaction
  under way covers no more than it leaves.
- `Ordered`: a transaction's terminal event is its last, also for the torn line and
  for the transactions the snapshot keeps open. `TerminalOnce` is its visible part.
- `Progress`: what the place of a call says of its request and of who owns its key.
- `Shown` (with `Strong` and `Demands`): every effect that has happened has a trace that
  neither a truncation nor a restart takes away; while a compaction runs, each sidecar it
  relies on is on the list it verifies. `CrashSafe` follows, and is not inductive alone: it does
  not say that the evidence outlives the next step.
- `Closed`: recovery has an open transaction for whatever it finds under way.
- `Agreed`: for a key whose effects the journal did not refuse, everything anybody could
  learn of its outcome (answers, hot, sidecars, events, `Source`) is one outcome, and
  while a call could still run the effect nothing is known. From it come `AtMostOnce` and
  `AnswersAgree`.

`DurableBudget_proofs`: `WithinBudget` and `TerminalHasRoom`, for behaviours of `ApprovalSpec` in which no
approval is decided (`[][NoDecision]_all`). Without that condition the full sum exceeds the budget
(disagreement 16), and that what was reserved still fits (`DurabilityBudget`) is model-checked.
A reservation counts the keys that are
dirty and those that run, so the sum stays within the budget unless something else makes a key dirty
(`BudgetStep`). A terminal event does, but its execution was counted. A lookup that finds a retained
event without a sidecar does too, and this is where the argument leaves the memory: such a key must
be dirty already (`Replayable`). At the start, `restoreRetainedOutcomes` has entered the keys of all
events beyond the recovery's baseline, and of the others a key without a sidecar has a later event
beyond it (`Covered`), since a snapshot covers a terminal event only with its outcome published. So
the third disjunct of `LookupRetained` adds nothing, and the dirty map is never full when an
execution ends: as long as nothing is decided, the error `AppendTerminal` raises there is unreachable.

In `DurableOutcomes_proofs` most steps leave the log alone (`Quiet`) and preserve all of this by one
argument (`QuietNext`); the seven that perform, append, drop, reread or list events have lemmas of
their own. For the refinement `HistoryStep`, `Performed` and `Excused` say what a step does to
effects and answers, and these are the actions of `CommandContract`.

`CallersAreServed` and `CallsStepForward` are what `SubmitsSettle` rests on. The promise a call
waits for is in `pending`, and whoever is entered there is executing, in the running process
(`CallerInv`); a settlement answers all that joined. Each step of a call lowers its `Rank`, and no
other step raises it.

`PaneLanes_proofs`: `TypeCorrect`, `Fences`, `Reported`, `LaneHeld` and `InOrder`. The first four
come from one invariant with four parts that need each other:

- `QueueInv`: a waiting item stands in its queue and a started one at its head. So a barrier
  under which something waits is not dropped (`Retired`), which is what keeps stamps
  comparable.
- `FenceInv`: no stamp is ahead of the barrier, and fenced automation that still waits
  has one strictly below it. `Bump` establishes it for every generation's queue, although it walks
  only one.
- `ProgressInv`: what the place of a command says of its effect, outcome and reports; without
  it `ReportsHold` is not preserved by the two ways to terminalize an item.
- `LaneInv`: epoch and revision together identify a lease, and what waits presents one of
  this epoch. `HoldsLane` compares revisions only.

`InOrder` (`Serialized`) needs `SerialInv` beside it: queues are in the order of submission, nobody
is submitted or started twice, and what has had its turn was submitted before what waits in the same
queue. Every step is one of four kinds (`Moves`): something joins a queue, its head starts, the
owner restarts, or nothing of the order changes; and a head that has started precedes the rest.

`NobodyIsStuck` and `StepsAreFew` are what `CommandsSettle` and `TakeoverSettles` rest on. An item
is in the queue it was submitted to and has not been lost (`KeyInv`), so the head that a queued
command waits for runs, reports or has its turn; the items a takeover waits for are being reported
(`WaitsInv`), which waits for no turn. Commands and operations only move on (`Rank`), and an item
leaves its queue for good.

`SurfaceApprovals_proofs`: `TypeCorrect`, `Consented`, `AuthorizedEffects`, and
`ImplementsOneTimeConsent`, the refinement. `StageInv` says what a command under way holds,
`LeaseInv` that the lease in the store is the newest of its id, has been told, fits the tab and, if
it has not expired, has not ended; `ConsentInv` that an approval is consumed before its action is
queued, so that the one start a consumed approval allows is the only one. For the
refinement each action is mapped to a phase, computed from its effect, its approval and its place;
a step either lets one action be consented to or performed, or refuses several at once, or maps to a
stutter, and the lemmas follow these three.

`SurfaceQueues_proofs`: `OneEffectAtATime` (of effects that have not timed out) and
`ReportedNotRunStays`, on top of that invariant. An action stands once in the queue of the tab it
names and has had its turn only as the head (`QueueInv`); what is queued after a timeout names a
generation of the tab that has passed (`LateInv`), so that it fails its check instead of starting.
What was reported not run has reached a point from which no effect starts (`ReportInv`), but for the
actions marked `doubtful` and `cut`.

`NobodyIsStuck`, `StepsAreFew` and `IdleSettled` are about the same queues. A command comes only to
the stages of its kind (`KindInv`), and at each of them it has a step of its own or is queued behind
one that has; so when none has (`~Ready`), every command is settled. `IdleMeansSettled` follows with
the hypothesis `[]ReadyMeansEnabled`, its other half, which is `ENABLED` and part of what the run
checks. Every step of the event loop moves a command on, at most nine times (`FewSteps`), so that
the loop does become idle.

`WorktreeLease_proofs`: `TypeCorrect`, `Exclusion`, `Stranding`, `ReleaseEffective`. What a process
has read or renamed away must be known at each of its stages (`Processes`, with `Sound`).
`Exclusive` alone is not inductive, because a directory goes in two steps, the first by nonce and
the second by path: the invariant adds that nobody sets out to take a lease whose client is not
through with it (`Marks`), that unless robbed the record in hand is the record of the directory that
is there and no other process has one (`Held`), and, for `NeverStranded`, that whoever has it in
hand is still there (`Kept`). So what `MoveDirectory` takes away is the directory whose record was
claimed, and its client is through.

`ReleaseTakesEffect` needs more of what is left behind than of who is at work. Nobody sets out to take
the directory of a client that neither died nor asked for the release, except that client (`Spoken`,
stronger than `Marks`, which lets a client in the middle of its release pass for one that is
through). So, unless robbed, a client has its directory until the last step of its own release,
reads its own record there, and ends by moving the directory away or with its marker in it
(`Owned`). A release that found the record missing ends in `missed`. That nothing stays pending of
a client which never forked a supervisor is `Unpending`.

`PaneSlugs_proofs`: `TypeCorrect`, `SlugsAreUnique`, `CleanupIsBlocked`, `OnlyStraysAdopted`,
`SettledForGood`, `ProducersUndisturbed`: all its safety properties. A process at work on its own
reservation finds its record provisional (`AtWork`), because whoever settles another's record has
seen that its process is dead (`Settles`), and processes end once (`Lives`). A reconciler that has
compared the record holds the slug lock until it has written it (`Locked`), so what it compared is
what it overwrites. From these follow that a chosen name has no other owner until it is written
(`NamedFreely`), that what a marker protected is saved or gone when it is removed (`Cleared`), and
that a pane a poller has decided on remains unaccounted for (`Strays`): unless that poll passed over
its creation's record, the only process that could
still save it is dead, and nobody else saves a pane under its name. What concerns one process or
record is proved action by action, together with what any step may do to a record, a marker, the
configuration or a choice (`RecordMove`, `MarkerMove`, ...); the properties that relate several of
them need these moves only.

`NoLockCircle`: whoever holds a recovery lock or the slug lock lives, and is at one of the three
steps between taking it and letting go (`Holders`). Of these only the owner's quarantine asks for a
second lock, for the slug after its target's, whose holder asks for nothing. Where the code takes
both locks before it does anything, the model takes them in one step, so it does not show that those
sections agree on an order.

Model-checked only, in whole or in part: the half of `IdleMeansSettled` named `ReadyMeansEnabled`, which
is about `ENABLED`; `DurabilityBudget` once approvals are decided; and the liveness properties but for
`LoneContenderAcquires`, which is proved given `CallsGoOn`. Of `SubmitsSettle`, `CommandsSettle` and
`TakeoverSettles` the safety core is proved, that nobody is stuck and that steps are few; concluding
that each settles needs induction over the length of the queue or the sum of the ranks.
`AttemptsSettle` and `OrphansReported` rest on several processes' fairness at once and stay with
TLC. Every other property of a passing run is proved. Induction over recursively defined data is out
of the prover's reach here; no module declares a RECURSIVE operator.

## 5. Order of the work, and what is not modelled

Written, in this order: `OwnerLock` (who may act at all), `DurableOutcomes` (what an act leaves
behind; with `DurableApprovals`, when it takes two answers), `PaneLanes` (whose act a pane takes),
`SurfaceApprovals` (what an agent may do to a tab), `WorktreeLease` (who may mutate a worktree),
`PaneSlugs` (who owns a pane's name and what it leaves), and the two abstract specifications,
`CommandContract` and `OneTimeConsent`.

Next would come, with what holds each of them back:

- *Control host.* `close()` gives up the fence without draining (`host.ts:57`); the
  composition of `OwnerLock` with the effects of the runtime would show that an effect of the old
  owner may end under the new one, which no document excludes.
- *Credentials, broker.* Each is a small protocol over files or
  sockets. `SurfaceApprovals` has of them what the runtime sees: whether the
  subject is active, and that an effect ends, fails or times out.
- *The project locks* (`ProjectPaneConfig.ts`). `PaneSlugs` takes them to exclude; their files are
  a third protocol of records, candidates and renames, after `OwnerLock` and `WorktreeLease`.
- *Worktree cleanup.* A long sequence of Git and file system calls under the lease of
  `WorktreeLease`, whose decisions depend mostly on Git's answers. `PaneSlugs` has what it consults, the
  recovery markers, and not the check itself.
- *Server, client, protocol.* Framing and streams. *Policy and redaction.* Pure
  classification of payloads, better tested than modelled.
- *Status, attention, orchestration.* Heuristics over terminal text; no protocol.

The models cover a small share of the repository's lines, and it cannot be large: most of
its 160 000 are the terminal user interface, native applications, build scripts, a
diagnostics bundle and views of other components' state, in which no step of two actors
meets. The part with shared state and failure is the control plane and a few services, and of
these the modules take the files named in `PROJECT.json`.
