------------------------------ MODULE OwnerLock ------------------------------
(***************************************************************************)
(* The project owner lock: src/src/control/ownerLock.ts.                   *)
(*                                                                         *)
(* Any number of daemon processes call acquireOwnerLock() on one project.  *)
(* They meet only through the file system: the directory owner.lock with   *)
(* the record owner.json in it, the counter owner-epoch.json, and one      *)
(* private candidate directory per process.  Every await of the code is a  *)
(* point where another process may run, so every file operation is a step. *)
(*                                                                         *)
(* A contender stands for one call of acquireOwnerLock in one process: the *)
(* nonce and the pid of the record identify it.  The liveness probe is     *)
(* taken to be exact (no pid is reused).                                   *)
(***************************************************************************)
EXTENDS Naturals, FiniteSets

CONSTANTS Contender,   \* one acquisition each: a nonce, and the pid that holds it
          NoOne        \* "no record in the lock directory"

ASSUME NoOneAssumption == NoOne \notin Contender

VARIABLES pc,          \* where each contender is in acquireOwnerLock / release
          candidate,   \* state of the directory owner.candidate.<nonce>
          lock,        \* the directory owner.lock
          epochFile,   \* the number in owner-epoch.json, 0 when absent
          seen,        \* what nextEpoch read before it wrote
          epoch,       \* the epoch a contender was given, 0 before
          removal,     \* how far reapOrphans of one is with the candidate of another
          displaced,   \* history: a live owner's directory was renamed away
          unrecorded,  \* history: a candidate without its record became the lock
          misread      \* history: an epoch file that is there could not be read

history == <<displaced, unrecorded, misread>>
vars == <<pc, candidate, lock, epochFile, seen, epoch, removal, history>>

\* Steps of the acquisition loop, before the lock directory is obtained.
Trying == {"loop", "write", "rename", "judge", "quarantine"}

\* Steps taken by a process that has the lock directory, or believes so.  At "kept"
\* its call has thrown out of reapOrphans: the lock is still there under its record.
Holding == {"readEpoch", "writeEpoch", "openTemp", "swapRecord", "reap", "reaping",
            "kept", "owner", "releaseUnlink", "abandonUnlink", "abandonRecord"}

\* In a recursive rm: the record is gone, a temporary file or the directory is not.
Leaving == {"releaseRmdir", "abandonTemp", "abandonRmdir"}

Settled == {"released", "failed", "crashed"}

\* The stages of rm(candidate, recursive): rmdir, then the entries, then rmdir again.
Stages == {"none", "rmdir", "unlink", "rmdirAgain"}

NoRemoval == [q \in Contender |-> "none"]

Absent == [directory |-> "absent", record |-> NoOne, temps |-> {}]

LockDirectory == [directory : {"absent", "present"}, record : Contender \cup {NoOne},
                  temps : SUBSET Contender]

TypeOK ==
    /\ pc \in [Contender -> {"idle"} \cup Trying \cup Holding \cup Leaving \cup Settled]
    /\ candidate \in [Contender -> {"none", "empty", "full"}]
    /\ lock \in LockDirectory
    /\ epochFile \in Nat
    /\ seen \in [Contender -> Nat]
    /\ epoch \in [Contender -> Nat]
    /\ removal \in [Contender -> [Contender -> Stages]]
    /\ displaced \in BOOLEAN
    /\ unrecorded \in BOOLEAN
    /\ misread \in BOOLEAN

\* Mutant: a dead owner counts as a live one.
AlwaysAlive(p) == TRUE

\* process.kill(pid, 0): the process of an earlier record is still running.
IsProcessAlive(p) == pc[p] # "crashed"

\* rename(2) replaces a directory only when it has no entries.
HasEntries == lock.record # NoOne \/ lock.temps # {}

Init ==
    /\ pc = [p \in Contender |-> "idle"]
    /\ candidate = [p \in Contender |-> "none"]
    /\ lock = Absent
    /\ epochFile = 0
    /\ seen = [p \in Contender |-> 0]
    /\ epoch = [p \in Contender |-> 0]
    /\ removal = [p \in Contender |-> NoRemoval]
    /\ displaced = FALSE
    /\ unrecorded = FALSE
    /\ misread = FALSE

Goto(p, from, to) ==
    /\ pc[p] = from
    /\ pc' = [pc EXCEPT ![p] = to]

-----------------------------------------------------------------------------
(* acquireOwnerLock: the loop. *)

Start(p) ==
    /\ Goto(p, "idle", "loop")
    /\ UNCHANGED <<candidate, lock, epochFile, seen, epoch, removal, history>>

MakeCandidate(p) ==
    /\ Goto(p, "loop", "write")
    /\ candidate' = [candidate EXCEPT ![p] = "empty"]
    /\ UNCHANGED <<lock, epochFile, seen, epoch, removal, history>>

\* The write throws out of the call when a new owner reaped the directory.
WriteCandidate(p) ==
    /\ \/ /\ candidate[p] # "none"
          /\ Goto(p, "write", "rename")
          /\ candidate' = [candidate EXCEPT ![p] = "full"]
       \/ /\ candidate[p] = "none"
          /\ Goto(p, "write", "failed")
          /\ UNCHANGED candidate
    /\ UNCHANGED <<lock, epochFile, seen, epoch, removal, history>>

\* rename(candidateDir, lockDir): the winning call, with the record that is left in
\* the candidate; ENOENT (reaped: try again); or ENOTEMPTY (drop the candidate and
\* look at the owner's record).
RenameCandidate(p) ==
    /\ \/ /\ candidate[p] = "none"
          /\ Goto(p, "rename", "loop")
          /\ UNCHANGED <<lock, unrecorded>>
       \/ /\ candidate[p] # "none"
          /\ ~HasEntries
          /\ Goto(p, "rename", "readEpoch")
          /\ lock' = [directory |-> "present", temps |-> {},
                      record |-> IF candidate[p] = "full" THEN p ELSE NoOne]
          /\ unrecorded' = (unrecorded \/ candidate[p] # "full")
       \/ /\ candidate[p] # "none"
          /\ HasEntries
          /\ Goto(p, "rename", "judge")
          /\ UNCHANGED <<lock, unrecorded>>
    /\ candidate' = [candidate EXCEPT ![p] = "none"]
    /\ UNCHANGED <<epochFile, seen, epoch, removal, displaced, misread>>

\* Read owner.json: a missing record throws, a live owner fails the call
\* closed, a dead one sends the contender on to replace it.
JudgeOwner(p) ==
    /\ IF lock.record = NoOne \/ IsProcessAlive(lock.record)
       THEN Goto(p, "judge", "failed")
       ELSE Goto(p, "judge", "quarantine")
    /\ UNCHANGED <<candidate, lock, epochFile, seen, epoch, removal, history>>

\* Mutant: the stale directory stays where it is.
QuarantineNothing(p) ==
    /\ Goto(p, "quarantine", "loop")
    /\ UNCHANGED <<candidate, lock, epochFile, seen, epoch, removal, history>>

\* rename(lockDir, owner.stale.<uuid>): by path, whatever is there by now.
QuarantineStale(p) ==
    /\ Goto(p, "quarantine", "loop")
    /\ lock' = Absent
    /\ displaced' = (displaced \/ (lock.record # NoOne /\ IsProcessAlive(lock.record)))
    /\ UNCHANGED <<candidate, epochFile, seen, epoch, removal, unrecorded, misread>>

-----------------------------------------------------------------------------
(* The epoch and the final record. *)

\* Mutant: one less than the stored epoch.
ReadEpochBefore(p) ==
    /\ Goto(p, "readEpoch", "writeEpoch")
    /\ seen' = [seen EXCEPT ![p] = epochFile - 1]
    /\ UNCHANGED <<candidate, lock, epochFile, epoch, removal, history>>

\* Any error of the read counts as epoch 0, also if there is a file.
ReadEpoch(p) ==
    /\ Goto(p, "readEpoch", "writeEpoch")
    /\ \/ seen' = [seen EXCEPT ![p] = epochFile] /\ UNCHANGED misread
       \/ epochFile > 0 /\ seen' = [seen EXCEPT ![p] = 0] /\ misread' = TRUE
    /\ UNCHANGED <<candidate, lock, epochFile, epoch, removal, displaced, unrecorded>>

\* Mutant: the epoch is handed out but not written down.
WriteEpochUnwritten(p) ==
    /\ Goto(p, "writeEpoch", "openTemp")
    /\ epoch' = [epoch EXCEPT ![p] = seen[p] + 1]
    /\ UNCHANGED <<candidate, lock, epochFile, seen, removal, history>>

WriteEpoch(p) ==
    /\ Goto(p, "writeEpoch", "openTemp")
    /\ epochFile' = seen[p] + 1
    /\ epoch' = [epoch EXCEPT ![p] = seen[p] + 1]
    /\ UNCHANGED <<candidate, lock, seen, removal, history>>

OpenRecordTemp(p) ==
    /\ \/ /\ lock.directory = "present"
          /\ Goto(p, "openTemp", "swapRecord")
          /\ lock' = [lock EXCEPT !.temps = @ \cup {p}]
       \/ /\ lock.directory = "absent"
          /\ Goto(p, "openTemp", "abandonUnlink")
          /\ UNCHANGED lock
    /\ UNCHANGED <<candidate, epochFile, seen, epoch, removal, history>>

SwapRecord(p) ==
    /\ \/ /\ p \in lock.temps
          /\ Goto(p, "swapRecord", "reap")
          /\ lock' = [lock EXCEPT !.record = p, !.temps = @ \ {p}]
       \/ /\ p \notin lock.temps
          /\ Goto(p, "swapRecord", "abandonUnlink")
          /\ UNCHANGED lock
    /\ UNCHANGED <<candidate, epochFile, seen, epoch, removal, history>>

\* A full disk or a failing fsync anywhere in the try block; or an I/O error of
\* reapOrphans, which is not in it: the call throws and keeps the lock.
DiskFault(p) ==
    /\ \/ \E at \in {"writeEpoch", "openTemp", "swapRecord"} : Goto(p, at, "abandonUnlink")
       \/ Goto(p, "reaping", "kept")
    /\ UNCHANGED <<candidate, lock, epochFile, seen, epoch, removal, history>>

-----------------------------------------------------------------------------
(* reapOrphans: every candidate directory but one's own is removed, entry by entry, *)
(* while the process it belongs to goes on.                                         *)

\* The listing; if it fails, nothing is removed.  What dead processes left is removed
\* here: nobody uses those directories again.
ListOrphans(p) ==
    /\ Goto(p, "reap", "reaping")
    /\ \/ /\ candidate' = [q \in Contender |-> IF q # p /\ pc[q] = "crashed"
                                               THEN "none" ELSE candidate[q]]
          /\ removal' = [removal EXCEPT ![p] = [q \in Contender |->
                            IF q # p /\ candidate'[q] # "none" THEN "rmdir" ELSE "none"]]
       \/ UNCHANGED <<candidate, removal>>
    /\ UNCHANGED <<lock, epochFile, seen, epoch, history>>

\* rmdir, before and after the entries.  A directory that got its record in between
\* fails the second one (ENOTEMPTY), and with it the call, at once; the removal of
\* the other candidates goes on.
RemoveOrphan(p, q) ==
    /\ pc[p] \in {"reaping", "kept"}
    /\ removal[p][q] \in {"rmdir", "rmdirAgain"}
    /\ candidate' = [candidate EXCEPT ![q] = IF @ = "empty" THEN "none" ELSE @]
    /\ removal' = [removal EXCEPT ![p][q] =
                      IF @ = "rmdir" /\ candidate[q] = "full" THEN "unlink" ELSE "none"]
    /\ pc' = [pc EXCEPT ![p] =
                 IF removal[p][q] = "rmdirAgain" /\ candidate[q] = "full" THEN "kept" ELSE @]
    /\ UNCHANGED <<lock, epochFile, seen, epoch, history>>

\* The entries of the directory, which may have gone meanwhile.
UnlinkOrphan(p, q) ==
    /\ pc[p] \in {"reaping", "kept"}
    /\ removal[p][q] = "unlink"
    /\ candidate' = [candidate EXCEPT ![q] = IF @ = "full" THEN "empty" ELSE @]
    /\ removal' = [removal EXCEPT ![p][q] = "rmdirAgain"]
    /\ UNCHANGED <<pc, lock, epochFile, seen, epoch, history>>

ReapDone(p) ==
    /\ removal[p] = NoRemoval
    /\ Goto(p, "reaping", "owner")
    /\ UNCHANGED <<candidate, lock, epochFile, seen, epoch, removal, history>>

-----------------------------------------------------------------------------
(* release(), and rm(lockDir): the entries of the directory, then the directory. *)

Release(p) ==
    /\ IF lock.record = p
       THEN Goto(p, "owner", "releaseUnlink")
       ELSE Goto(p, "owner", "released")
    /\ UNCHANGED <<candidate, lock, epochFile, seen, epoch, removal, history>>

UnlinkEntries(p) ==
    /\ \/ Goto(p, "releaseUnlink", "releaseRmdir")
       \/ Goto(p, "abandonUnlink", "abandonRmdir")
    /\ lock' = [lock EXCEPT !.record = NoOne, !.temps = {}]
    /\ UNCHANGED <<candidate, epochFile, seen, epoch, removal, history>>

\* A start that failed after opening its temporary record leaves two entries, which
\* rm unlinks in either order.
UnlinkFirst(p) ==
    /\ p \in lock.temps /\ lock.record # NoOne
    /\ \/ Goto(p, "abandonUnlink", "abandonTemp") /\ lock' = [lock EXCEPT !.record = NoOne]
       \/ Goto(p, "abandonUnlink", "abandonRecord") /\ lock' = [lock EXCEPT !.temps = @ \ {p}]
    /\ UNCHANGED <<candidate, epochFile, seen, epoch, removal, history>>

UnlinkSecond(p) ==
    /\ \/ Goto(p, "abandonTemp", "abandonRmdir") /\ lock' = [lock EXCEPT !.temps = @ \ {p}]
       \/ Goto(p, "abandonRecord", "abandonRmdir") /\ lock' = [lock EXCEPT !.record = NoOne]
    /\ UNCHANGED <<candidate, epochFile, seen, epoch, removal, history>>

\* Mutant: the directory goes with whatever has come into it.
RemoveAnything(p) ==
    /\ \/ Goto(p, "releaseRmdir", "released")
       \/ Goto(p, "abandonRmdir", "failed")
    /\ lock' = Absent
    /\ UNCHANGED <<candidate, epochFile, seen, epoch, removal, history>>

RemoveDirectory(p) ==
    /\ \/ Goto(p, "releaseRmdir", "released")
       \/ Goto(p, "abandonRmdir", "failed")
    /\ lock' = IF HasEntries THEN lock ELSE Absent
    /\ UNCHANGED <<candidate, epochFile, seen, epoch, removal, history>>

\* The process dies; the files stay as they are.
Crash(p) ==
    /\ pc[p] \notin {"idle"} \cup Settled
    /\ pc' = [pc EXCEPT ![p] = "crashed"]
    /\ removal' = [removal EXCEPT ![p] = NoRemoval]
    /\ UNCHANGED <<candidate, lock, epochFile, seen, epoch, history>>

-----------------------------------------------------------------------------

\* The steps of reapOrphans.
Reap(p) ==
    \/ ListOrphans(p) \/ ReapDone(p)
    \/ \E q \in Contender : RemoveOrphan(p, q) \/ UnlinkOrphan(p, q)

\* The steps of a running call of acquireOwnerLock or release.
Run(p) ==
    \/ MakeCandidate(p) \/ WriteCandidate(p) \/ RenameCandidate(p)
    \/ JudgeOwner(p) \/ QuarantineStale(p)
    \/ ReadEpoch(p) \/ WriteEpoch(p) \/ OpenRecordTemp(p) \/ SwapRecord(p)
    \/ Reap(p)
    \/ UnlinkEntries(p) \/ UnlinkFirst(p) \/ UnlinkSecond(p) \/ RemoveDirectory(p)

Next == \E p \in Contender : Start(p) \/ Run(p) \/ DiskFault(p) \/ Release(p) \/ Crash(p)

Spec == Init /\ [][Next]_vars

\* A process that is not killed keeps executing its call.  Nobody has to start
\* one, to release the lock, to crash, or to run out of disk.
Fair(p) == WF_vars(Run(p))

FairSpec == Spec /\ \A p \in Contender : Fair(p)

-----------------------------------------------------------------------------
(* Properties. *)

Holders == {p \in Contender : pc[p] \in Holding}

\* What the code lets happen to the lock of a live owner: a contender renamed away a
\* directory that was no longer the one it had judged stale (acquireOwnerLock, lines
\* 76-82), or won with a candidate whose record an owner had unlinked before it died
\* in its reaping (lines 151-164).
Disturbed == displaced \/ unrecorded

\* At most one process is past the winning rename and has not begun to give the
\* lock back, as long as neither of these two has happened.
ExclusiveUnlessDisturbed == ~Disturbed => Cardinality(Holders) <= 1

\* Under the same condition the epochs that nextEpoch hands out are never reused,
\* unless it failed to read a file that is there and counted from 0 again; and even
\* then the running owner has the epoch of the file: a command stamped with another
\* owner's epoch is refused, which is what the runtime's fence rests on.
EpochsFence ==
    ~Disturbed =>
        /\ ~misread => \A p, q \in Contender : p # q /\ epoch[p] = epoch[q] => epoch[p] = 0
        /\ \A p \in Contender : pc[p] = "owner" => epoch[p] = epochFile

\* Under it, too, an owner's record is its own until it gives the lock up: nobody's
\* reaping, failed start or late rmdir takes it away.
OwnerKeepsRecord ==
    [][\A p \in Contender :
          pc[p] = "owner" /\ lock.record = p /\ lock'.record # p => Disturbed']_vars

\* What the host documentation and the tests say without the condition: a second
\* live owner fails closed, also when two contenders replace a stale owner.
OneLiveOwner == Cardinality({p \in Contender : pc[p] = "owner"}) <= 1

\* The one process still running.
Alone(p) == pc[p] = "loop" /\ \A q \in Contender \ {p} : pc[q] = "crashed"

\* What that process comes to.
Decided(p) == pc[p] \in {"owner", "kept", "abandonUnlink", "crashed"}

\* What can be replaced: a directory with its record, whose owner is dead, or an empty one.
Removable == lock.record # NoOne \/ lock.temps = {}

AcquiresAlone(p) == Alone(p) /\ Removable ~> Decided(p)

\* A lock left by crashed processes does not lock the project out: the process
\* that is left gets past the loop, whatever the crashed ones left, unless that is
\* a directory whose removal got as far as the record and no further.
LoneContenderAcquires == \A p \in Contender : AcquiresAlone(p)

\* The host documentation has no such exception: a dead prior owner is replaced.
DeadOwnerReplaced == \A p \in Contender : Alone(p) ~> Decided(p)

\* No two contenders keep each other in the loop (reaping each other's candidate,
\* or replacing each other's directory): each acquisition is decided.
AttemptsSettle ==
    \A p \in Contender : pc[p] \in Trying ~> pc[p] \notin Trying

=============================================================================
