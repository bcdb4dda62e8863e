---------------------------- MODULE WorktreeLease ----------------------------
(***************************************************************************)
(* The lease that lets one process at a time mutate a worktree             *)
(* (src/src/services/WorktreeOperationLease.ts).                           *)
(*                                                                         *)
(* The lease is a directory at a fixed path: a client writes its record to *)
(* a candidate directory and renames that into place.  While it holds the  *)
(* lease a client may have a supervisor process (GitMutationSupervisor.ts, *)
(* GitMutationSupervisorChild.ts) run a Git command, which may outlive     *)
(* both; record, release marker and child file tell others who is alive.   *)
(* Whoever takes the directory away, to release it or to quarantine a dead *)
(* owner's, renames its record away first.  No file operation excludes     *)
(* another, and every path is resolved anew by each: processes interleave  *)
(* and die between any two.                                                *)
(*                                                                         *)
(* Each client takes the lease once and runs at most one Git command; its  *)
(* name is the nonce of its lease and of that command.  Left out: leases   *)
(* of several paths in one command, pid reuse, unreadable files, signals   *)
(* to the supervisor, the wait's timeout, the second clean-up on 'exit'    *)
(* after a broken channel, and retainPendingGitMutationLease (it writes the*)
(* record back with a diagnosis).  Writing a temporary file and renaming it*)
(* into place is one step.                                                 *)
(***************************************************************************)
EXTENDS Naturals

CONSTANTS
    Client,      \* processes that want the lease
    Mutator,     \* ... and have a Git command to run under it
    None,        \* no value
    MaxFaults    \* bound of the model: processes that die and IPC channels that break

ASSUME ClientsAssumption == Mutator \subseteq Client

ASSUME BoundsAssumption == MaxFaults \in Nat

VARIABLES
    lock,        \* the directory at lockDir, None if there is none
    stale,       \* nonces with a quarantine directory
    released,    \* nonces with a release tombstone
    goal,        \* what each process is doing
    stage,       \* ... and how far it is
    seen,        \* what it has read
    claim,       \* the record it has renamed away
    git,         \* the Git process of each mutator
    past,        \* mutators whose pendingMutation.deadline has passed
    reported,    \* ... whose supervisor has reported its claim
    lost,        \* ... whose supervisor has lost its parent
    broken,      \* ... whose channel to the supervisor broke
    faults,
    \* what happened
    robbed,      \* a lease went, or its record was replaced, under a process still at work
    missed,      \* clients that found no record when they came to release
    cut          \* a process died between renaming a record away and the directory

files == <<lock, stale, released>>
events == <<past, lost, broken, faults>>
history == <<robbed, missed, cut>>
vars == <<files, goal, stage, seen, claim, git, reported, events, history>>

\* A client and the supervisor it forks.
Process == {"client", "supervisor"} \X Client
C(c) == <<"client", c>>
S(c) == <<"supervisor", c>>
Nonce(p) == p[2]
IsClient(p) == p[1] = "client"

\* WorktreeOperationLeaseRecord.
Record == [nonce : Client, pending : {"none", "unclaimed", "claimed"}]

\* What readLeaseRecord returns.
View == [nonce : Client, pending : {"none", "unclaimed", "claimed"}, marker : BOOLEAN, child : BOOLEAN]

\* A directory is known by the client whose candidate it was; it holds lease.json, the
\* release-requested markers and the child files, which name the nonce they are for.
Directory == [holder : Client, record : Record \cup {None}, marker : SUBSET Client, child : SUBSET Client]

\* A record that has been renamed away, and the directory it was in.
Claim == [holder : Client, record : Record]

ASSUME NoneAssumption == None \notin Record \cup View \cup Claim /\ \A d \in Directory : d # None

\* "deferClear" and "defer" are releaseDeferredLeaseIfIdle after "clear", of the child
\* file, and after "drop", of the pending mutation.
Goal == {"acquire", "hold", "prepare", "fork", "wait", "drop", "defer", "release", "done",
         "none", "claim", "track", "run", "clear", "deferClear", "exited", "dead"}

Stage == {"ready", "marker", "child", "deciding", "replacing", "writing",
          "claiming", "moving", "restoring"}

TypeOK ==
    /\ lock \in Directory \cup {None}
    /\ stale \subseteq Client /\ released \subseteq Client
    /\ goal \in [Process -> Goal] /\ stage \in [Process -> Stage]
    /\ seen \in [Process -> View \cup {None}]
    /\ claim \in [Process -> Claim \cup {None}]
    /\ git \in [Client -> {"none", "stopped", "running", "signalled", "closed"}]
    /\ past \subseteq Mutator /\ reported \subseteq Mutator /\ lost \subseteq Mutator /\ broken \subseteq Mutator
    /\ faults \in 0..MaxFaults
    /\ robbed \in BOOLEAN /\ missed \subseteq Client /\ cut \in BOOLEAN

Init ==
    /\ lock = None /\ stale = {} /\ released = {}
    /\ goal = [p \in Process |-> IF IsClient(p) THEN "acquire" ELSE "none"]
    /\ stage = [p \in Process |-> "ready"]
    /\ seen = [p \in Process |-> None] /\ claim = [p \in Process |-> None]
    /\ git = [c \in Client |-> "none"]
    /\ past = {} /\ reported = {} /\ lost = {} /\ broken = {} /\ faults = 0
    /\ robbed = FALSE /\ missed = {} /\ cut = FALSE

Fault == faults < MaxFaults /\ faults' = faults + 1

At(p, g, s) == goal[p] = g /\ stage[p] = s

\* The process goes on to another goal, or to another stage of this one.
Turn(p, g) ==
    /\ goal' = [goal EXCEPT ![p] = g]
    /\ stage' = [stage EXCEPT ![p] = "ready"]
    /\ seen' = [seen EXCEPT ![p] = None]
    /\ claim' = [claim EXCEPT ![p] = None]

Step(p, s) ==
    /\ stage' = [stage EXCEPT ![p] = s]
    /\ UNCHANGED goal

-----------------------------------------------------------------------------
(* Who is alive. *)

ClientAlive(c) == goal[C(c)] # "dead"
SupervisorAlive(c) == goal[S(c)] \notin {"none", "exited", "dead"}
GitAlive(c) == git[c] \in {"stopped", "running", "signalled"}

\* hasLiveOrUnverifiableMutation
LiveMutation(v) ==
    \/ v.pending = "unclaimed" /\ v.nonce \notin past
    \/ v.pending = "claimed" /\ SupervisorAlive(v.nonce)
    \/ v.child /\ GitAlive(v.nonce)

\* Mutant: a release request changes nothing.
StaleIfDead(v) == ~LiveMutation(v) /\ ~ClientAlive(v.nonce)

\* isLeaseOwnerStale
Stale(v) == ~LiveMutation(v) /\ (v.marker \/ ~ClientAlive(v.nonce))

-----------------------------------------------------------------------------
(* Reading the lease: readLeaseRecord. *)

HasRecord == lock # None /\ lock.record # None

\* Where a process goes that does not take the directory away.
Otherwise(p) ==
    CASE goal[p] = "acquire" -> "acquire"
      [] goal[p] = "release" -> "done"
      [] goal[p] \in {"clear", "deferClear"} -> "drop"
      [] goal[p] = "defer" -> IF IsClient(p) THEN "release" ELSE "exited"

\* The record is not there: nothing to release.
NotFound(p) ==
    /\ Turn(p, Otherwise(p))
    /\ missed' = IF goal[p] \in {"release", "defer"} THEN missed \cup {Nonce(p)} ELSE missed

Reads(p) == goal[p] \in {"acquire", "release", "clear", "deferClear", "defer"}

\* A contender that finds no lease to read tries again, and nothing has changed.
ReadRecord(p) ==
    /\ Reads(p) /\ stage[p] = "ready"
    /\ \/ /\ HasRecord
          /\ seen' = [seen EXCEPT ![p] = [nonce |-> lock.record.nonce, pending |-> lock.record.pending,
                                          marker |-> FALSE, child |-> FALSE]]
          /\ Step(p, "marker")
          /\ UNCHANGED <<claim, missed>>
       \/ ~HasRecord /\ goal[p] # "acquire" /\ NotFound(p)
    /\ UNCHANGED <<files, git, reported, events, robbed, cut>>

ReadMarker(p) ==
    /\ stage[p] = "marker"
    /\ seen' = [seen EXCEPT ![p].marker = lock # None /\ seen[p].nonce \in lock.marker]
    /\ Step(p, "child")
    /\ UNCHANGED <<files, claim, git, reported, events, history>>

ReadChild(p) ==
    /\ stage[p] = "child"
    /\ seen' = [seen EXCEPT ![p].child = lock # None /\ seen[p].nonce \in lock.child]
    /\ Step(p, "deciding")
    /\ UNCHANGED <<files, claim, git, reported, events, history>>

\* What follows from the view: to take the directory away, to write or remove a file,
\* or to leave it.  What is stale stays stale, so the check that quarantineDeadLease
\* repeats on this view, after renaming the record away, always succeeds.
Wants(p) ==
    LET v == seen[p]
        own == v.nonce = Nonce(p)
    IN  CASE goal[p] = "acquire" -> IF Stale(v) THEN "claiming" ELSE "ready"
          [] goal[p] = "release" -> IF ~own THEN "ready" ELSE IF LiveMutation(v) THEN "writing" ELSE "claiming"
          [] goal[p] = "clear" -> IF own /\ v.child THEN "writing" ELSE "ready"
          [] goal[p] \in {"deferClear", "defer"} ->
               IF own /\ v.marker /\ v.pending = "none" /\ ~v.child THEN "claiming" ELSE "ready"

Decide(p) ==
    /\ stage[p] = "deciding"
    /\ IF Wants(p) = "ready" THEN Turn(p, Otherwise(p)) ELSE Step(p, Wants(p)) /\ UNCHANGED <<seen, claim>>
    /\ UNCHANGED <<files, git, reported, events, history>>

-----------------------------------------------------------------------------
(* Taking the directory away: quarantineDeadLease, finalizeOwnedLeaseRelease. *)

\* Git is to run or runs under the lease, or the supervisor is rewriting the record.
AtWork(c) ==
    goal[S(c)] \in {"claim", "track", "run"} \/ At(S(c), "drop", "replacing") \/ GitAlive(c)

\* The holder of the directory loses it too early.
Robbed == robbed \/ AtWork(lock.holder)

\* Mutant: a record is taken for the one that was read.
ClaimsAny(p) == TRUE

\* The claimed record has the nonce that was read.
ClaimsRead(p) == lock.record.nonce = seen[p].nonce

\* claimActiveLeaseRecord
ClaimRecord(p) ==
    /\ stage[p] = "claiming"
    /\ \/ /\ HasRecord
          /\ claim' = [claim EXCEPT ![p] = [holder |-> lock.holder, record |-> lock.record]]
          /\ lock' = [lock EXCEPT !.record = None]
          /\ Step(p, IF ClaimsRead(p) THEN "moving" ELSE "restoring")
          /\ robbed' = IF ClaimsRead(p) THEN Robbed ELSE robbed
          /\ UNCHANGED <<seen, missed>>
       \/ ~HasRecord /\ NotFound(p) /\ UNCHANGED <<lock, robbed>>
    /\ UNCHANGED <<stale, released, git, reported, events, cut>>

\* The directory is renamed, whichever it is by now; the tombstone of a release is
\* removed if that succeeds.
MoveDirectory(p) ==
    LET n == seen[p].nonce
        taken == IF goal[p] = "acquire" THEN stale ELSE released
    IN  /\ stage[p] = "moving"
        /\ \/ /\ lock # None /\ n \notin taken
              /\ lock' = None
              /\ IF goal[p] = "acquire"
                 THEN stale' = stale \cup {n} /\ UNCHANGED released
                 ELSE released' \in {released, released \cup {n}} /\ UNCHANGED stale
              /\ robbed' = Robbed
              /\ Turn(p, Otherwise(p))
           \/ /\ lock = None \/ n \in taken
              /\ IF lock = None THEN Turn(p, Otherwise(p)) ELSE Step(p, "restoring") /\ UNCHANGED <<seen, claim>>
              /\ UNCHANGED <<files, robbed>>
        /\ UNCHANGED <<git, reported, events, missed, cut>>

\* Mutant: a claim that was not meant is dropped.
RestoreNothing(p) ==
    /\ stage[p] = "restoring"
    /\ Turn(p, Otherwise(p))
    /\ UNCHANGED <<files, git, reported, events, history>>

\* restoreActiveLeaseRecordClaim
Restore(p) ==
    /\ stage[p] = "restoring"
    /\ lock' = IF lock # None /\ lock.holder = claim[p].holder
               THEN [lock EXCEPT !.record = claim[p].record] ELSE lock
    /\ Turn(p, Otherwise(p))
    /\ UNCHANGED <<stale, released, git, reported, events, history>>

-----------------------------------------------------------------------------
(* Rewriting the record: updateOwnedLeaseRecord. *)

Updates(p) == goal[p] \in {"prepare", "claim", "track", "drop"}

\* The mutation does not throw: a supervisor claims what is pending and unclaimed, and
\* tracks Git under its own claim.
Allowed(p) ==
    /\ goal[p] = "claim" => lock.record.pending = "unclaimed"
    /\ goal[p] = "track" => lock.record.pending = "claimed"

\* A client drops what was never claimed, a supervisor its own claim.
Pending(p, pending) ==
    CASE goal[p] = "prepare" -> "unclaimed"
      [] goal[p] \in {"claim", "track"} -> "claimed"
      [] goal[p] = "drop" -> IF pending = (IF IsClient(p) THEN "unclaimed" ELSE "claimed") THEN "none" ELSE pending

\* The update fails: the record is another's or gone, or the mutation throws.  Git that
\* cannot be tracked is killed.
Fails(p) ==
    /\ Turn(p, CASE goal[p] = "prepare" -> "release"
                 [] goal[p] = "claim" -> "exited"
                 [] goal[p] = "track" -> "run"
                 [] goal[p] = "drop" -> IF IsClient(p) THEN "release" ELSE "exited")
    /\ git' = IF goal[p] = "track" /\ GitAlive(Nonce(p)) THEN [git EXCEPT ![Nonce(p)] = "signalled"] ELSE git

\* readRawLeaseRecord and the mutation; a supervisor that knows its parent is lost does
\* not start.
ReadRaw(p) ==
    /\ Updates(p) /\ stage[p] = "ready"
    /\ IF HasRecord /\ lock.record.nonce = Nonce(p) /\ Allowed(p) /\ ~(goal[p] = "claim" /\ Nonce(p) \in lost)
       THEN /\ seen' = [seen EXCEPT ![p] = [nonce |-> Nonce(p), pending |-> Pending(p, lock.record.pending),
                                            marker |-> FALSE, child |-> FALSE]]
            /\ Step(p, "replacing")
            /\ UNCHANGED <<claim, git>>
       ELSE Fails(p)
    /\ UNCHANGED <<files, reported, events, history>>

\* The supervisor reports its claim and starts Git, which stops itself at once.
StartGit(p) ==
    LET c == Nonce(p)
    IN  IF c \in lost THEN Turn(p, "drop") /\ UNCHANGED <<git, reported>>
        ELSE /\ Turn(p, "track")
             /\ git' = [git EXCEPT ![c] = "stopped"]
             /\ reported' = reported \cup {c}

\* The new record replaces whatever record is there by now, also another's, and is
\* there again if it has been renamed away.
Replace(p) ==
    /\ stage[p] = "replacing"
    /\ \/ /\ lock # None
          /\ lock' = [lock EXCEPT !.record = [nonce |-> seen[p].nonce, pending |-> seen[p].pending]]
          /\ CASE goal[p] = "prepare" -> Turn(p, "fork") /\ UNCHANGED <<git, reported>>
               [] goal[p] = "claim" -> StartGit(p)
               [] goal[p] = "track" -> Step(p, "writing") /\ UNCHANGED <<seen, claim, git, reported>>
               [] goal[p] = "drop" -> Turn(p, "defer") /\ UNCHANGED <<git, reported>>
          /\ robbed' = (robbed \/ lock.record = None \/ lock.record.nonce # Nonce(p))
       \/ lock = None /\ Fails(p) /\ UNCHANGED <<lock, reported, robbed>>
    /\ UNCHANGED <<stale, released, events, missed, cut>>

-----------------------------------------------------------------------------
(* Child file and release marker. *)

\* replaceChildLeaseRecord; then Git goes on, unless the parent is lost: then it has
\* been killed, and the supervisor leaves before or after its end.
TrackGit(p) ==
    LET c == Nonce(p)
    IN  /\ At(p, "track", "writing")
        /\ \/ /\ lock # None /\ lock' = [lock EXCEPT !.child = @ \cup {c}]
              /\ IF c \in lost THEN Turn(p, IF git[c] = "closed" THEN "clear" ELSE "exited") /\ UNCHANGED git
                 ELSE Turn(p, "run") /\ git' = [git EXCEPT ![c] = IF @ = "stopped" THEN "running" ELSE @]
           \/ lock = None /\ Fails(p) /\ UNCHANGED lock
        /\ UNCHANGED <<stale, released, reported, events, history>>

\* clearPendingGitMutationChildLease
ClearChild(p) ==
    /\ At(p, "clear", "writing")
    /\ lock' = IF lock # None THEN [lock EXCEPT !.child = @ \ {Nonce(p)}] ELSE lock
    /\ Turn(p, "deferClear")
    /\ UNCHANGED <<stale, released, git, reported, events, history>>

\* markReleaseRequested
MarkRelease(p) ==
    /\ At(p, "release", "writing")
    /\ lock' = IF lock # None THEN [lock EXCEPT !.marker = @ \cup {Nonce(p)}] ELSE lock
    /\ Turn(p, "done")
    /\ UNCHANGED <<stale, released, git, reported, events, history>>

-----------------------------------------------------------------------------
(* Clients. *)

\* The candidate is renamed into place.
Acquire(c) ==
    /\ At(C(c), "acquire", "ready") /\ lock = None
    /\ lock' = [holder |-> c, record |-> [nonce |-> c, pending |-> "none"], marker |-> {}, child |-> {}]
    /\ Turn(C(c), "hold")
    /\ UNCHANGED <<stale, released, git, reported, events, history>>

\* The holder mutates the worktree itself and releases, or has Git do it first.
Use(c) ==
    /\ goal[C(c)] = "hold"
    /\ \/ Turn(C(c), "release")
       \/ c \in Mutator /\ Turn(C(c), "prepare")
    /\ UNCHANGED <<files, git, reported, events, history>>

\* runGitMutationWithSupervisor forks a process that was not there, once the pending
\* mutation is on disk.
Fork(c) ==
    /\ goal[C(c)] = "fork" /\ At(S(c), "none", "ready")
    /\ goal' = [goal EXCEPT ![C(c)] = "wait", ![S(c)] = "claim"]
    /\ UNCHANGED <<files, stage, seen, claim, git, reported, events, history>>

\* The supervisor's exit, or an error of the channel while it may still be at work;
\* what has not been reported claimed is dropped, and the caller releases.
Return(c) ==
    /\ goal[C(c)] = "wait"
    /\ \/ ~SupervisorAlive(c) /\ UNCHANGED <<broken, faults>>
       \/ SupervisorAlive(c) /\ Fault /\ broken' = broken \cup {c}
    /\ Turn(C(c), IF c \in reported THEN "release" ELSE "drop")
    /\ UNCHANGED <<files, git, reported, past, lost, history>>

-----------------------------------------------------------------------------
(* Git, the clock, and faults. *)

\* The close event of Git.
NoticeClose(c) ==
    /\ goal[S(c)] = "run" /\ git[c] = "closed"
    /\ Turn(S(c), "clear")
    /\ UNCHANGED <<files, git, reported, events, history>>

GitCloses(c) ==
    /\ git[c] \in {"running", "signalled"}
    /\ git' = [git EXCEPT ![c] = "closed"]
    /\ UNCHANGED <<files, goal, stage, seen, claim, reported, events, history>>

\* Mutant: the handler is there before there is a supervisor.
NoticeLossUnforked(c) ==
    /\ c \notin lost /\ ~ClientAlive(c)
    /\ lost' = lost \cup {c}
    /\ UNCHANGED <<files, goal, stage, seen, claim, git, reported, past, broken, faults, history>>

\* The supervisor's disconnect event: Git, stopped or running, is told to end.
NoticeLoss(c) ==
    /\ goal[S(c)] \in {"claim", "track", "run"} /\ c \notin lost
    /\ ~ClientAlive(c) \/ c \in broken
    /\ lost' = lost \cup {c}
    /\ git' = IF git[c] \in {"stopped", "running"} THEN [git EXCEPT ![c] = "signalled"] ELSE git
    /\ UNCHANGED <<files, goal, stage, seen, claim, reported, past, broken, faults, history>>

PassDeadline(c) ==
    /\ c \in Mutator \ past /\ goal[C(c)] \notin {"acquire", "hold"}
    /\ past' = past \cup {c}
    /\ UNCHANGED <<files, goal, stage, seen, claim, git, reported, lost, broken, faults, history>>

\* A supervisor's Git command goes on without it.
Die(p) ==
    /\ Fault
    /\ goal[p] \notin {"none", "exited", "dead"}
    /\ Turn(p, "dead")
    /\ cut' = (cut \/ stage[p] \in {"moving", "restoring"})
    /\ UNCHANGED <<files, git, reported, past, lost, broken, robbed, missed>>

Next ==
    \/ \E p \in Process :
         \/ ReadRecord(p) \/ ReadMarker(p) \/ ReadChild(p) \/ Decide(p)
         \/ ClaimRecord(p) \/ MoveDirectory(p) \/ Restore(p)
         \/ ReadRaw(p) \/ Replace(p) \/ TrackGit(p) \/ ClearChild(p) \/ MarkRelease(p) \/ Die(p)
    \/ \E c \in Client :
         \/ Acquire(c) \/ Use(c) \/ Fork(c) \/ Return(c)
         \/ NoticeClose(c) \/ GitCloses(c) \/ NoticeLoss(c) \/ PassDeadline(c)

Spec == Init /\ [][Next]_vars

-----------------------------------------------------------------------------
(* Properties. *)

\* The client, or the Git command it had started, may touch the worktree.
Mutates(c) == goal[C(c)] \in {"hold", "prepare", "fork", "wait"} \/ git[c] = "running"

\* One lease, one mutation at a time, whatever readers, claims and updates of other
\* processes do to the files between two steps of the holder; unless a directory was
\* taken from a supervisor or a Git command that was still at work.
Exclusive ==
    ~robbed => \A c \in Client : Mutates(c) => /\ lock # None /\ lock.holder = c
                                                    /\ \A d \in Client \ {c} : ~Mutates(d)

\* A directory without a record is in the hands of a process that will move it or
\* restore the record, unless one died just then: nobody else ever could.
NeverStranded ==
    lock # None /\ lock.record = None /\ ~cut =>
        \E p \in Process : stage[p] \in {"moving", "restoring"} /\ claim[p].holder = lock.holder

\* What a contender would read now.
Contents == [nonce |-> lock.record.nonce, pending |-> lock.record.pending,
             marker |-> lock.record.nonce \in lock.marker, child |-> lock.record.nonce \in lock.child]

\* A client that has released needs not die for the next one to get the lease: once
\* its supervisor and Git have ended, the lease is gone or can be taken.  Excepted is
\* the client that found no record because a contender had just renamed it away.
ReleaseTakesEffect ==
    ~robbed => \A c \in Client \ missed :
        /\ goal[C(c)] = "done"
        /\ ~SupervisorAlive(c) /\ ~GitAlive(c) /\ (goal[S(c)] # "none" => c \in past)
        /\ HasRecord /\ lock.record.nonce = c
        => Stale(Contents)

=============================================================================
