------------------------------ MODULE PaneSlugs ------------------------------
(***************************************************************************)
(* Who owns the name of a pane, and who answers for a pane nobody saved.   *)
(*                                                                         *)
(* Before it splits a tmux pane, a creation                                *)
(* (src/src/utils/transactionalPaneCreation.ts) reserves a slug with an    *)
(* ownership record of the session (src/src/services/PaneSlugRegistry.ts)  *)
(* and a recovery marker in the target project                             *)
(* (src/src/services/WorktreeRecoveryMarker.ts), which blocks destructive  *)
(* cleanup.  Once the pane is saved in the project's configuration, both   *)
(* go.  Whoever reserves a slug first reconciles what dead processes left  *)
(* (src/src/services/PaneSlugReservation.ts), and the poller adopts panes  *)
(* that nobody accounts for (src/src/services/UntrackedPaneAdoptionGate.ts,*)
(* src/src/hooks/useShellDetection.ts).  An operator acknowledges what is  *)
(* quarantined.                                                            *)
(*                                                                         *)
(* Each creation and each adoption is a process and has the id of its      *)
(* reservation; one session is modelled, with several target projects.  The*)
(* locks of ProjectPaneConfig.ts exclude, and a dead holder's lock is free:*)
(* a section with one write is a step, one with several holds the lock.    *)
(* Reads and writes of the configuration, whose lock is innermost, are     *)
(* atomic.  Clocks are not modelled: a poller may find the record of a live*)
(* process older than any creation takes, or stamped in the future, at any *)
(* time.  Left out: unreadable records, pane ids used again by another tmux*)
(* server, and splits that fail although they made a pane.                 *)
(***************************************************************************)
EXTENDS Naturals

CONSTANTS
    Creation,    \* calls of createTransactionalPane; each splits a pane of its name
    Adoption,    \* pollers, each with one pane to adopt
    Shell,       \* panes that are there from the start
    Attempts,    \* names tried for one base, all of one base here: 100 in the code
    Project,     \* target projects
    Home,        \* the target project of each creation and adoption
    None,        \* nobody
    MaxCrashes,  \* bound of the model: processes that die at work
    MaxFaults    \* bound: lock timeouts, failed reads and writes, records too old

Claimant == Creation \cup Adoption
Pane == Creation \cup Shell

ASSUME ClaimantsAssumption ==
    /\ Creation \cap Adoption = {} /\ Creation \cap Shell = {}
    /\ None \notin Claimant \cup Pane \cup {"operator"} /\ "operator" \notin Claimant

ASSUME HomeAssumption == Home \in [Claimant -> Project]

ASSUME BoundsAssumption == {Attempts, MaxCrashes, MaxFaults} \subseteq Nat

VARIABLES
    panes,       \* the panes tmux has
    config,      \* claimants whose pane is saved in the project's configuration
    slug,        \* the slug each has chosen, by its number; 0 if none
    record,      \* ownership records
    marker,      \* recovery markers
    targetLock,  \* who holds the recovery lock of each target project
    slugLock,    \* ... and the slug allocation lock of the session
    alive,       \* processes that have not ended
    pc,
    phase,       \* which part of its operation a process is in
    got,         \* "pane": it has its pane; "record": ... and the record to save
    target,      \* the pane a poller adopts
    seen,        \* the untracked panes it has detected
    passed,      \* creations under way whose records it passed over as too old
    todo,        \* the listing of records being reconciled
    subject,     \* the claimant whose record a process settles, usually itself
    acking,      \* the marker the operator is removing
    faults, crashes,
    \* what happened
    acked        \* reservations the operator acknowledged

files == <<config, slug, record, marker>>
locks == <<targetLock, slugLock>>
choice == <<target, passed>>
local == <<got, choice, seen, todo, subject>>
bounds == <<faults, crashes>>
vars == <<panes, files, locks, alive, pc, phase, local, acking, bounds, acked>>

\* A provisional record is "reserved" before it names a pane and "bound" after; a
\* quarantined one is "unresolved" if it names none.  updatedAt changes with these.
Provisional == {"reserved", "bound"}
Quarantined == {"unresolved", "quarantined"}
Record == {"none"} \cup Provisional \cup Quarantined

Stage ==
    {"idle", "poll", "gate", "decide", "saved", "list", "reconcile", "judge",
     "choose", "write", "allocate", "bindRead", "bindWrite", "build", "persist",
     "complete", "clear", "unblock", "mark", "shut", "stamp",
     "failed", "teardown", "retain", "settle", "ended", "dead"}

Part == {"gate", "reserve", "create", "durable", "compensate", "settle", "blind"}

TypeOK ==
    /\ panes \subseteq Pane
    /\ config \subseteq Claimant
    /\ slug \in [Claimant -> 0..Attempts]
    /\ record \in [Claimant -> Record]
    /\ marker \in [Claimant -> {"none", "provisional", "quarantined"}]
    /\ targetLock \in [Project -> Claimant \cup {None, "operator"}]
    /\ slugLock \in Claimant \cup {None, "operator"}
    /\ alive \subseteq Claimant
    /\ pc \in [Claimant -> Stage]
    /\ phase \in [Claimant -> Part]
    /\ got \in [Claimant -> {"nothing", "pane", "record"}]
    /\ target \in [Adoption -> Pane \cup {None}]
    /\ seen \in [Adoption -> SUBSET Pane]
    /\ passed \in [Adoption -> SUBSET Creation]
    /\ todo \in [Claimant -> [Claimant -> Record]]
    /\ subject \in [Claimant -> Claimant]
    /\ acking \in Claimant \cup {None}
    /\ faults \in 0..MaxFaults /\ crashes \in 0..MaxCrashes
    /\ acked \subseteq Claimant

Nothing == [r \in Claimant |-> "none"]

Init ==
    /\ panes = Shell /\ config = {}
    /\ slug = [r \in Claimant |-> 0]
    /\ record = Nothing /\ marker = Nothing
    /\ targetLock = [t \in Project |-> None] /\ slugLock = None
    /\ alive = Claimant
    /\ pc = [p \in Claimant |-> IF p \in Adoption THEN "poll" ELSE "idle"]
    /\ phase = [p \in Claimant |-> "reserve"]
    /\ got = [p \in Claimant |-> "nothing"]
    /\ target = [a \in Adoption |-> None]
    /\ seen = [a \in Adoption |-> {}]
    /\ passed = [a \in Adoption |-> {}]
    /\ todo = [p \in Claimant |-> Nothing]
    /\ subject = [p \in Claimant |-> p]
    /\ acking = None
    /\ faults = 0 /\ crashes = 0
    /\ acked = {}

Fault == faults < MaxFaults /\ faults' = faults + 1 /\ UNCHANGED crashes

Goto(p, from, to) == pc[p] = from /\ pc' = [pc EXCEPT ![p] = to]

\* A poller polls again.
Over(p) == IF p \in Adoption THEN "poll" ELSE "ended"

PaneOf(r) == IF r \in Adoption THEN target[r] ELSE r

Saved == {PaneOf(r) : r \in config}

Free(r) == targetLock[Home[r]] = None

\* Mutant: the slug lock is not asked for.
SlugIgnored(r) == Free(r)

\* Target recovery before session slug, in that order everywhere.
Unlocked(r) == Free(r) /\ slugLock = None

Lock(p, r) == targetLock' = [targetLock EXCEPT ![Home[r]] = p] /\ slugLock' = p

Unlock(p) ==
    /\ targetLock' = [t \in Project |-> IF targetLock[t] = p THEN None ELSE targetLock[t]]
    /\ slugLock' = IF slugLock = p THEN None ELSE slugLock

-----------------------------------------------------------------------------
(* Reconciliation of stale reservations. *)

\* createTransactionalPane, reserveCrashSafePaneSlug
Start(c) ==
    /\ c \in Creation /\ Goto(c, "idle", "list")
    /\ UNCHANGED <<panes, files, locks, alive, phase, local, acking, bounds, acked>>

List(p) ==
    /\ Goto(p, "list", "reconcile")
    /\ todo' = [todo EXCEPT ![p] = record]
    /\ UNCHANGED <<panes, files, locks, alive, phase, got, choice, seen, subject,
                   acking, bounds, acked>>

Listed(p) == {r \in Claimant : todo[p][r] # "none"}

\* Mutant: any provisional reservation may be judged.
AnyStale(p, r) == todo[p][r] \in Provisional

\* isPaneSlugOwnerStale, for a listed record
Stale(p, r) == todo[p][r] \in Provisional /\ r \notin alive

\* The next record of the listing.
Onward(p, r) ==
    /\ pc' = [pc EXCEPT ![p] = "reconcile"]
    /\ todo' = [todo EXCEPT ![p][r] = "none"]
    /\ subject' = [subject EXCEPT ![p] = p]

\* Mutant: the marker shows the state of the record as it is.
MarkerAsRecord(r) == record[r]

\* buildPaneSlugCleanupMarker
MarkerFor(r) == IF record[r] \in Quarantined THEN "quarantined" ELSE "provisional"

\* ensurePaneSlugCleanupBlocker of a listed record that is still there.
Ensure(p, r) ==
    /\ pc[p] = "reconcile" /\ r \in Listed(p) /\ Unlocked(r)
    /\ marker' = IF record[r] = "none" THEN marker ELSE [marker EXCEPT ![r] = MarkerFor(r)]
    /\ IF Stale(p, r)
       THEN /\ pc' = [pc EXCEPT ![p] = "judge"]
            /\ subject' = [subject EXCEPT ![p] = r]
            /\ UNCHANGED todo
       ELSE Onward(p, r)
    /\ UNCHANGED <<panes, config, slug, record, locks, alive, phase, got, choice, seen,
                   acking, bounds, acked>>

Reconciled(p) ==
    /\ Listed(p) = {}
    /\ Goto(p, "reconcile", IF phase[p] = "gate" THEN "decide" ELSE "choose")
    /\ UNCHANGED <<panes, files, locks, alive, phase, local, acking, bounds, acked>>

\* Mutant: a reservation that names no pane has made none.
GoneOrUnnamed(p, r) == todo[p][r] = "reserved" \/ PaneOf(r) \notin panes

Gone(p, r) == todo[p][r] = "bound" /\ PaneOf(r) \notin panes

\* Exact durable config wins, then confirmed absence; the probe may fail.
Judge(p) ==
    LET r == subject[p]
    IN  /\ \/ (r \in config \/ Gone(p, r)) /\ Goto(p, "judge", "clear")
           \/ r \notin config /\ Goto(p, "judge", "mark")
        /\ UNCHANGED <<panes, files, locks, alive, phase, local, acking, bounds, acked>>

-----------------------------------------------------------------------------
(* Reservation, allocation and persistence. *)

Occupied == {slug[r] : r \in config \cup {q \in Claimant : record[q] # "none"}}

\* allocateUniquePaneSlug
Names == 1..Attempts \ Occupied

\* reserveCrashSafePaneSlug: under both locks the slug is chosen and the marker
\* published.
Choose(p) ==
    /\ pc[p] = "choose" /\ Unlocked(p)
    /\ \/ \E s \in Names :
            /\ \A t \in Names : s <= t
            /\ slug' = [slug EXCEPT ![p] = s]
            /\ marker' = [marker EXCEPT ![p] = "provisional"]
            /\ Lock(p, p)
            /\ pc' = [pc EXCEPT ![p] = "write"]
       \/ /\ Names = {}
          /\ pc' = [pc EXCEPT ![p] = Over(p)]
          /\ UNCHANGED <<slug, marker, locks>>
    /\ UNCHANGED <<panes, config, record, alive, phase, local, acking, bounds, acked>>

\* ... and then the record is written.
Write(p) ==
    /\ Goto(p, "write", "allocate")
    /\ record' = [record EXCEPT ![p] = "reserved"]
    /\ phase' = [phase EXCEPT ![p] = "create"]
    /\ Unlock(p)
    /\ UNCHANGED <<panes, config, slug, marker, alive, local, acking, bounds, acked>>

\* The split; what is adopted is there already.
Allocate(p) ==
    /\ Goto(p, "allocate", "bindRead")
    /\ panes' = IF p \in Creation THEN panes \cup {p} ELSE panes
    /\ got' = [got EXCEPT ![p] = "pane"]
    /\ UNCHANGED <<files, locks, alive, phase, choice, seen, todo, subject,
                   acking, bounds, acked>>

\* Where an exception leads, and in which part of the operation.
ThrownTo(p) ==
    CASE phase[p] = "create" /\ pc[p] # "unblock" ->
             IF p \in Creation THEN <<"failed", "create">> ELSE <<"settle", "blind">>
      [] phase[p] = "durable" /\ pc[p] = "complete" -> <<"settle", "blind">>
      [] phase[p] = "compensate" /\ pc[p] = "clear" -> <<"settle", "settle">>
      [] phase[p] = "compensate" /\ pc[p] = "retain" -> <<"mark", "compensate">>
      [] OTHER -> <<Over(p), phase[p]>>

Throw(p) ==
    /\ pc' = [pc EXCEPT ![p] = ThrownTo(p)[1]]
    /\ phase' = [phase EXCEPT ![p] = ThrownTo(p)[2]]

\* recordPaneEffect, which takes no lock: it reads the record and then replaces it.
BindRead(p) ==
    /\ pc[p] = "bindRead"
    /\ IF record[p] \in Provisional
       THEN pc' = [pc EXCEPT ![p] = "bindWrite"] /\ UNCHANGED phase
       ELSE Throw(p)
    /\ UNCHANGED <<panes, files, locks, alive, local, acking, bounds, acked>>

BindWrite(p) ==
    /\ Goto(p, "bindWrite", "build")
    /\ record' = [record EXCEPT ![p] = "bound"]
    /\ UNCHANGED <<panes, config, slug, marker, locks, alive, phase, local, acking, bounds, acked>>

\* createPane
Build(p) ==
    /\ Goto(p, "build", "persist")
    /\ got' = [got EXCEPT ![p] = "record"]
    /\ UNCHANGED <<panes, files, locks, alive, phase, choice, seen, todo, subject,
                   acking, bounds, acked>>

\* assertUniquePaneIds, assertUniquePaneSlugs
Conflict(p) == \E q \in config \ {p} : slug[q] = slug[p] \/ PaneOf(q) = PaneOf(p)

\* A write that fails may have been done.
Persist(p) ==
    /\ pc[p] = "persist"
    /\ \/ /\ ~Conflict(p)
          /\ config' = config \cup {p}
          /\ \/ pc' = [pc EXCEPT ![p] = "complete"] /\ UNCHANGED <<phase, bounds>>
             \/ Fault /\ Throw(p)
       \/ Conflict(p) /\ Throw(p) /\ UNCHANGED <<config, bounds>>
    /\ UNCHANGED <<panes, slug, record, marker, locks, alive, local, acking, acked>>

\* completeAfterPanePersisted up to the removal of the record.
Complete(p) ==
    /\ pc[p] = "complete" /\ slugLock = None
    /\ IF p \in config
       THEN /\ record' = [record EXCEPT ![p] = "none"]
            /\ pc' = [pc EXCEPT ![p] = "unblock"]
            /\ UNCHANGED phase
       ELSE Throw(p) /\ UNCHANGED record
    /\ UNCHANGED <<panes, config, slug, marker, locks, alive, local, acking, bounds, acked>>

-----------------------------------------------------------------------------
(* Giving a reservation up, and quarantine. *)

\* Mutant: whatever the record has become.
Whatever(p, r) == TRUE

\* The generation check of reconcilers, which own nothing but their listing.
Unchanged(p, r) == record[r] = todo[p][r]

\* clearBeforeEffect and clearAfterConfirmedTeardown of the owner,
\* clearExactOwnershipRecord of a reconciler.
Clear(p) ==
    LET r == subject[p]
    IN  /\ pc[p] = "clear" /\ slugLock = None
        /\ \/ /\ IF r = p THEN record[p] # "none" ELSE Unchanged(p, r)
              /\ record' = [record EXCEPT ![r] = "none"]
              /\ pc' = [pc EXCEPT ![p] = "unblock"]
              /\ UNCHANGED <<phase, todo, subject>>
           \/ /\ r = p /\ record[p] = "none" /\ Throw(p)
              /\ UNCHANGED <<record, todo, subject>>
           \/ /\ r # p /\ ~Unchanged(p, r) /\ Onward(p, r)
              /\ UNCHANGED <<record, phase>>
        /\ UNCHANGED <<panes, config, slug, marker, locks, alive, got, choice, seen,
                       acking, bounds, acked>>

\* removePaneSlugCleanupBlocker
Unblock(p) ==
    LET r == subject[p]
    IN  /\ pc[p] = "unblock" /\ Free(r)
        /\ marker' = [marker EXCEPT ![r] = "none"]
        /\ IF r = p
           THEN pc' = [pc EXCEPT ![p] = Over(p)] /\ UNCHANGED <<todo, subject>>
           ELSE Onward(p, r)
        /\ UNCHANGED <<panes, config, slug, record, locks, alive, phase, got, choice, seen,
                       acking, bounds, acked>>

\* writeWorktreeRecoveryMarkerInternal: the marker first.  The owner takes the slug
\* lock after that, a reconciler before, to compare the record.
Mark(p) ==
    LET r == subject[p]
    IN  /\ pc[p] = "mark" /\ Free(r)
        /\ \/ /\ r = p
              /\ targetLock' = [targetLock EXCEPT ![Home[p]] = p] /\ UNCHANGED slugLock
              /\ marker' = [marker EXCEPT ![p] = "provisional"]
              /\ pc' = [pc EXCEPT ![p] = "shut"]
              /\ UNCHANGED <<todo, subject>>
           \/ /\ r # p /\ slugLock = None /\ Unchanged(p, r)
              /\ Lock(p, r)
              /\ marker' = [marker EXCEPT ![r] = "provisional"]
              /\ pc' = [pc EXCEPT ![p] = "shut"]
              /\ UNCHANGED <<todo, subject>>
           \/ /\ r # p /\ slugLock = None /\ ~Unchanged(p, r)
              /\ Onward(p, r)
              /\ UNCHANGED <<marker, locks>>
        /\ UNCHANGED <<panes, config, slug, record, alive, phase, got, choice, seen,
                       acking, bounds, acked>>

\* After a quarantine, complete or not, its caller goes on.
Marked(p) ==
    IF subject[p] # p
    THEN Onward(p, subject[p]) /\ UNCHANGED phase
    ELSE /\ IF phase[p] = "compensate"
            THEN /\ pc' = [pc EXCEPT ![p] = "settle"]
                 /\ phase' = [phase EXCEPT ![p] = "settle"]
            ELSE pc' = [pc EXCEPT ![p] = Over(p)] /\ UNCHANGED phase
         /\ UNCHANGED <<todo, subject>>

\* Another record or saved pane has the slug.
Taken(r) == \E q \in Claimant \ {r} : slug[q] = slug[r] /\ (record[q] # "none" \/ q \in config)

\* quarantinePaneSlugOwnershipRecord, which writes the record anew if need be.
Shut(p) ==
    LET r == subject[p]
        names == r = p \/ todo[p][r] = "bound"
    IN  /\ pc[p] = "shut" /\ slugLock \in {None, p}
        /\ \/ /\ ~Taken(r)
              /\ record' = [record EXCEPT ![r] = IF names THEN "quarantined" ELSE "unresolved"]
              /\ pc' = [pc EXCEPT ![p] = "stamp"]
              /\ Lock(p, r)
              /\ UNCHANGED <<phase, todo, subject, bounds>>
           \/ /\ IF Taken(r) THEN UNCHANGED bounds ELSE Fault
              /\ Marked(p) /\ Unlock(p)
              /\ UNCHANGED record
        /\ UNCHANGED <<panes, config, slug, marker, alive, got, choice, seen, acking, acked>>

\* The completed marker.
Stamp(p) ==
    LET r == subject[p]
    IN  /\ pc[p] = "stamp"
        /\ \/ marker' = [marker EXCEPT ![r] = "quarantined"] /\ UNCHANGED bounds
           \/ Fault /\ UNCHANGED marker
        /\ Marked(p) /\ Unlock(p)
        /\ UNCHANGED <<panes, config, slug, record, alive, got, choice, seen, acking, acked>>

-----------------------------------------------------------------------------
(* Failed creations. *)

\* The catch block: a pane that is saved after all (or whose configuration cannot
\* be read), one that was split, or none.
Failed(p) ==
    LET saved == got[p] = "record" /\ p \in config
        To(at, part) == Goto(p, "failed", at) /\ phase' = [phase EXCEPT ![p] = part]
    IN  /\ \/ saved /\ To("complete", "durable") /\ UNCHANGED bounds
           \/ /\ IF saved THEN Fault ELSE UNCHANGED bounds
              /\ IF got[p] = "nothing" THEN To("settle", "settle") ELSE To("teardown", "compensate")
        /\ UNCHANGED <<panes, files, locks, alive, local, acking, acked>>

\* teardownAllocation: confirmed, or not, whether or not the pane went.
Teardown(p) ==
    /\ \/ Goto(p, "teardown", "clear") /\ panes' = panes \ {p}
       \/ /\ Goto(p, "teardown",
                  IF phase[p] = "compensate" /\ got[p] = "record" THEN "retain" ELSE "mark")
          /\ panes' \in {panes, panes \ {p}}
    /\ UNCHANGED <<files, locks, alive, phase, local, acking, bounds, acked>>

\* retainPaneRecovery: a record in the configuration rather than a quarantine.
Retain(p) ==
    /\ pc[p] = "retain"
    /\ IF Conflict(p)
       THEN Throw(p) /\ UNCHANGED config
       ELSE /\ config' = config \cup {p}
            /\ pc' = [pc EXCEPT ![p] = "settle"]
            /\ phase' = [phase EXCEPT ![p] = "settle"]
    /\ UNCHANGED <<panes, slug, record, marker, locks, alive, local, acking, bounds, acked>>

\* settlePaneSlugReservationAfterFailure; without a teardown if it is "blind".
Settle(p) ==
    /\ pc[p] = "settle"
    /\ \/ /\ record[p] \notin Provisional
          /\ pc' = [pc EXCEPT ![p] = Over(p)]
          /\ UNCHANGED bounds
       \/ /\ record[p] \in Provisional /\ p \in config
          /\ pc' = [pc EXCEPT ![p] = "complete"]
          /\ UNCHANGED bounds
       \/ /\ record[p] \in Provisional
          /\ IF p \in config THEN Fault ELSE UNCHANGED bounds
          /\ pc' = [pc EXCEPT ![p] =
                      IF got[p] = "nothing" THEN "clear"
                      ELSE IF phase[p] = "blind" THEN "mark" ELSE "teardown"]
    /\ UNCHANGED <<panes, files, locks, alive, phase, local, acking, acked>>

-----------------------------------------------------------------------------
(* The poller. *)

\* detectAndAddShellPanes: what tmux has and the configuration, read before, had not.
Poll(a) ==
    /\ Goto(a, "poll", "gate")
    /\ \E known \in SUBSET Saved :
            panes \ known # {} /\ seen' = [seen EXCEPT ![a] = panes \ known]
    /\ phase' = [phase EXCEPT ![a] = "gate"]
    /\ UNCHANGED <<panes, files, locks, alive, got, choice, todo, subject, acking, bounds, acked>>

\* Records of live owners.  A poller that may still adopt something can find them
\* older than a creation takes, or stamped too far in the future: it passes them over.
InFlight(a) == {r \in alive : record[r] \in Provisional /\ target[a] = None}

\* A live creation may own any pane.
Deferred(late) == \E r \in alive \ late : record[r] = "reserved"

Named(late) ==
    {PaneOf(r) : r \in {q \in Claimant \ late : record[q] \in {"bound", "quarantined"}}}

\* decideUntrackedPaneAdoption
Decision(a, part) ==
    \E late \in SUBSET InFlight(a) :
        LET left == seen[a] \ Named(late)
        IN  /\ IF late = {} THEN UNCHANGED bounds ELSE Fault
            /\ IF Deferred(late) \/ left = {} \/ target[a] # None
               THEN /\ pc' = [pc EXCEPT ![a] = "poll"]
                    /\ seen' = [seen EXCEPT ![a] = {}]
                    /\ UNCHANGED <<phase, passed>>
               ELSE /\ pc' = [pc EXCEPT ![a] = "saved"]
                    /\ seen' = [seen EXCEPT ![a] = left]
                    /\ passed' = [passed EXCEPT ![a] = late \cap left \cap Creation]
                    /\ phase' = [phase EXCEPT ![a] = part]

\* Mutant: only reservations that name no pane are reconciled.
UnnamedRemains == \E r \in Claimant : record[r] = "reserved" /\ r \notin alive

StaleRemains == \E r \in Claimant : record[r] \in Provisional /\ r \notin alive

\* gateUntrackedPaneAdoption
Gate(a) ==
    /\ pc[a] = "gate"
    /\ IF StaleRemains
       THEN pc' = [pc EXCEPT ![a] = "list"] /\ UNCHANGED <<phase, seen, passed, bounds>>
       ELSE Decision(a, "reserve")
    /\ UNCHANGED <<panes, files, locks, alive, got, target, todo, subject, acking, acked>>

Decide(a) ==
    /\ pc[a] = "decide" /\ Decision(a, "gate")
    /\ UNCHANGED <<panes, files, locks, alive, got, target, todo, subject, acking, acked>>

\* Mutant: the configuration is not read again.
SavedBefore == {}

SavedByNow == Saved

\* readSavedPaneIds, after the listing.  A reservation that follows a reconciliation
\* does not begin with another.
ReadSaved(a) ==
    /\ pc[a] = "saved"
    /\ \/ \E x \in seen[a] \ SavedByNow :
            /\ target' = [target EXCEPT ![a] = x]
            /\ pc' = [pc EXCEPT ![a] = IF phase[a] = "gate" THEN "choose" ELSE "list"]
            /\ phase' = [phase EXCEPT ![a] = "reserve"]
       \/ /\ seen[a] \subseteq SavedByNow
          /\ pc' = [pc EXCEPT ![a] = "poll"]
          /\ UNCHANGED <<target, phase>>
    /\ seen' = [seen EXCEPT ![a] = {}]
    /\ UNCHANGED <<panes, files, locks, alive, got, passed, todo, subject, acking, bounds, acked>>

-----------------------------------------------------------------------------
(* The operator, and what happens to processes and panes. *)

\* acknowledgeWorktreeRecoveryMarker refuses provisional reservations.
AckRecord(r) ==
    /\ acking = None /\ Unlocked(r)
    /\ marker[r] # "none" /\ record[r] \notin Provisional
    /\ acking' = r
    /\ record' = [record EXCEPT ![r] = "none"]
    /\ acked' = acked \cup {r}
    /\ Lock("operator", r)
    /\ UNCHANGED <<panes, config, slug, marker, alive, pc, phase, local, bounds>>

AckMarker ==
    /\ acking # None
    /\ marker' = [marker EXCEPT ![acking] = "none"]
    /\ acking' = None
    /\ Unlock("operator")
    /\ UNCHANGED <<panes, config, slug, record, alive, pc, phase, local, bounds, acked>>

\* A lock times out, or a read or write fails without effect, where that throws.
Throwing == {"list", "reconcile", "judge", "choose", "write", "allocate", "bindRead",
             "bindWrite", "build", "persist", "complete", "clear", "unblock", "mark",
             "retain", "settle"}

Raise(p) ==
    /\ \/ pc[p] \in Throwing
       \/ pc[p] = "shut" /\ slugLock # p    \* for the owner, the slug lock
    /\ Fault /\ Throw(p)
    /\ Unlock(p)
    /\ todo' = [todo EXCEPT ![p] = Nothing]
    /\ subject' = [subject EXCEPT ![p] = p]
    /\ UNCHANGED <<panes, files, alive, got, choice, seen, acking, acked>>

\* Its locks are anyone's.
Die(p) ==
    /\ p \in alive /\ pc[p] # "idle"
    /\ IF pc[p] = "ended" THEN UNCHANGED crashes
       ELSE crashes < MaxCrashes /\ crashes' = crashes + 1
    /\ alive' = alive \ {p}
    /\ pc' = [pc EXCEPT ![p] = "dead"]
    /\ Unlock(p)
    /\ todo' = [todo EXCEPT ![p] = Nothing]
    /\ subject' = [subject EXCEPT ![p] = p]
    /\ seen' = [a \in Adoption |-> IF a = p THEN {} ELSE seen[a]]
    /\ phase' = [phase EXCEPT ![p] = "reserve"]
    /\ got' = [got EXCEPT ![p] = "nothing"]
    /\ UNCHANGED <<panes, files, choice, acking, faults, acked>>

PaneDies(x) ==
    /\ x \in panes
    /\ panes' = panes \ {x}
    /\ UNCHANGED <<files, locks, alive, pc, phase, local, acking, bounds, acked>>

\* A saved pane that tmux does not have any more is removed from the configuration.
Forget(r) ==
    /\ r \in config /\ PaneOf(r) \notin panes
    /\ config' = config \ {r}
    /\ UNCHANGED <<panes, slug, record, marker, locks, alive, pc, phase, local,
                   acking, bounds, acked>>

-----------------------------------------------------------------------------

Step(p) ==
    \/ List(p) \/ (\E r \in Claimant : Ensure(p, r)) \/ Reconciled(p) \/ Judge(p)
    \/ Choose(p) \/ Write(p) \/ Allocate(p) \/ BindRead(p) \/ BindWrite(p) \/ Build(p)
    \/ Persist(p) \/ Complete(p) \/ Clear(p) \/ Unblock(p)
    \/ Mark(p) \/ Shut(p) \/ Stamp(p)
    \/ Failed(p) \/ Teardown(p) \/ Retain(p) \/ Settle(p)

Polling(a) == Poll(a) \/ Gate(a) \/ Decide(a) \/ ReadSaved(a)

Next ==
    \/ \E p \in Claimant : Step(p) \/ Raise(p) \/ Die(p)
    \/ \E c \in Creation : Start(c)
    \/ \E a \in Adoption : Polling(a)
    \/ \E r \in Claimant : AckRecord(r) \/ Forget(r)
    \/ AckMarker
    \/ \E x \in Pane : PaneDies(x)

Spec == Init /\ [][Next]_vars

\* Processes that live go on with what they have begun, and pollers poll.
FairSpec ==
    /\ Spec
    /\ \A p \in Claimant : WF_vars(Step(p))
    /\ \A a \in Adoption : WF_vars(Polling(a))
    /\ WF_vars(AckMarker)

-----------------------------------------------------------------------------
(* Properties. *)

Owns(r) == r \in config \/ record[r] # "none"

\* A slug has one owner in the session, saved or not, whoever reserves, crashes,
\* reconciles and acknowledges (reservePaneSlug, quarantinePaneSlugOwnershipRecord).
UniqueSlug == \A q, r \in Claimant : q # r /\ Owns(q) /\ Owns(r) => slug[q] # slug[r]

\* Every crash prefix blocks destructive cleanup of the target project: while there
\* is a record there is a marker, and while a pane that a creation has split runs
\* without being saved, unless the operator has seen to it.
CleanupFailsClosed ==
    /\ \A r \in Claimant : record[r] # "none" => marker[r] # "none"
    /\ \A c \in Creation \cap panes : c \in Saved \/ marker[c] # "none" \/ c \in acked

\* A pane is not adopted while the creation that split it is under way, has saved it
\* or has had it quarantined (gateUntrackedPaneAdoption).  Of a creation whose record
\* that very poll passed over as too old nothing is promised: the gate's own comment
\* accepts that race.
AdoptsStrays ==
    \A a \in Adoption : target[a] \in Creation \ passed[a] /\ Owns(a) =>
        LET c == target[a] IN
        /\ c \notin config
        /\ record[c] \notin {"bound", "quarantined"}
        /\ record[c] = "reserved" => c \notin alive

\* A reservation that was settled does not come back, although quarantine writes the
\* record anew (writeWorktreeRecoveryMarkerIfPaneSlugOwned).
SettledStays ==
    [][\A r \in Claimant :
          record[r] = "none" /\ record'[r] # "none" => pc[r] = "write"]_vars

\* Nobody but its owner touches the provisional record of a live process, which
\* recordPaneEffect relies on when it writes without the lock.
ProducerUndisturbed ==
    [][\A r \in alive :
          record[r] \in Provisional /\ record'[r] # record[r] => pc'[r] # pc[r]]_vars

\* A pane left behind between its split and its save is reported or settled, if a
\* poller goes on living: no crash, lock timeout or failed write on the way loses it.
OrphansReported ==
    \A c \in Creation :
        c \in panes \ Saved /\ c \notin alive /\ record[c] \in Provisional
            ~> record[c] \notin Provisional \/ c \notin panes \ Saved \/ Adoption \cap alive = {}

=============================================================================
