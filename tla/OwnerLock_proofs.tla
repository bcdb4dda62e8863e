--------------------------- MODULE OwnerLock_proofs ---------------------------
(***************************************************************************)
(* Proofs about OwnerLock, for any set of contenders.                      *)
(*                                                                         *)
(* The argument: while no live owner's directory has been renamed away and *)
(* no emptied candidate has become the lock, a process between its winning *)
(* rename and its unlink finds its own nonce in the lock directory, so two *)
(* such processes are one.  Exclusion makes the read and the write of the  *)
(* epoch file atomic, hence the fence.                                     *)
(*                                                                         *)
(* NotLockedOut: a process left alone in its loop comes to the lock.  It   *)
(* has two rounds and fourteen steps at most, the second round after its   *)
(* own quarantine, and its fairness takes them one by one.                 *)
(***************************************************************************)
EXTENDS OwnerLock, TLAPS, FiniteSetTheorems

\* Holding states in which nextEpoch has returned and the lock is not given up.
Numbered == {"openTemp", "swapRecord", "reap", "reaping", "kept", "owner"}

DirectoryInv == lock.directory = "present" \/ lock = Absent

\* A holder reads its own record in the lock directory.
RecordInv == \A p \in Contender : pc[p] \in Holding => lock.record = p

\* What a holder was given is what the counter file says.
NumberInv == \A p \in Contender : pc[p] \in Numbered => epoch[p] = epochFile

\* The counter file never falls behind an epoch that was given.
EpochInv ==
    /\ \A p \in Contender : epoch[p] <= epochFile
    /\ \A p \in Contender : pc[p] = "writeEpoch" => seen[p] = epochFile
    /\ \A p, q \in Contender : p # q /\ epoch[p] = epoch[q] => epoch[p] = 0

IInv ==
    /\ TypeOK
    /\ DirectoryInv
    /\ ~Disturbed => RecordInv /\ NumberInv /\ (~misread => EpochInv)

\* In a call of acquireOwnerLock or of release.
InCall == Trying \cup (Holding \ {"owner", "kept"}) \cup Leaving

\* Whatever others have done to its files, a call has a next step: the actions are
\* written for every outcome of every call.  It has ENABLED in it, which the provers
\* cannot expand, so NotLockedOut has it as a hypothesis.
CallsGoOn == \A p \in Contender : pc[p] \in InCall => ENABLED <<Run(p)>>_vars

USE DEF history, Goto, Absent, LockDirectory, Trying, Holding, Leaving, Settled, Stages, NoRemoval

\* The type invariant is inductive by itself.
LEMMA TypeStep == TypeOK /\ [Next]_vars => TypeOK'
<1> SUFFICES ASSUME TypeOK, [Next]_vars PROVE TypeOK'
  OBVIOUS
<1> USE NoOneAssumption DEF TypeOK
<1>1. CASE UNCHANGED vars
  BY <1>1 DEF vars
<1>2. ASSUME NEW p \in Contender, Start(p) PROVE TypeOK'
  BY <1>2 DEF Start
<1>3. ASSUME NEW p \in Contender, MakeCandidate(p) PROVE TypeOK'
  BY <1>3 DEF MakeCandidate
<1>4. ASSUME NEW p \in Contender, WriteCandidate(p) PROVE TypeOK'
  BY <1>4 DEF WriteCandidate
<1>5. ASSUME NEW p \in Contender, RenameCandidate(p) PROVE TypeOK'
  <2>1. lock' = lock \/ \E r \in {p, NoOne} :
            lock' = [directory |-> "present", record |-> r, temps |-> {}]
    <3>1. CASE lock' = lock
      BY <3>1
    <3>2. CASE /\ lock' = [directory |-> "present", temps |-> {},
                           record |-> IF candidate[p] = "full" THEN p ELSE NoOne]
      BY <3>2
    <3>3. QED
      BY <1>5, <3>1, <3>2 DEF RenameCandidate
  <2>2. lock' \in LockDirectory
    BY <2>1
  <2>3. pc' \in [Contender -> {"idle"} \cup Trying \cup Holding \cup Leaving \cup Settled]
    <3>1. \E s \in {"loop", "readEpoch", "judge"} : pc' = [pc EXCEPT ![p] = s]
      BY <1>5 DEF RenameCandidate
    <3>2. QED
      BY <3>1
  <2>4. unrecorded' \in BOOLEAN
    <3>1. unrecorded' = unrecorded \/ unrecorded' = (unrecorded \/ candidate[p] # "full")
      BY <1>5, Zenon DEF RenameCandidate
    <3>2. QED
      BY <3>1
  <2>5. QED
    BY <1>5, <2>2, <2>3, <2>4 DEF RenameCandidate
<1>6. ASSUME NEW p \in Contender, JudgeOwner(p) PROVE TypeOK'
  BY <1>6 DEF JudgeOwner
<1>7. ASSUME NEW p \in Contender, QuarantineStale(p) PROVE TypeOK'
  <2>1. displaced' \in BOOLEAN
    BY <1>7 DEF QuarantineStale
  <2>2. QED
    BY <1>7, <2>1 DEF QuarantineStale
<1>8. ASSUME NEW p \in Contender, ReadEpoch(p) PROVE TypeOK'
  <2>1. misread' \in BOOLEAN
    BY <1>8 DEF ReadEpoch
  <2>2. seen' \in [Contender -> Nat]
    BY <1>8 DEF ReadEpoch
  <2>3. QED
    BY <1>8, <2>1, <2>2 DEF ReadEpoch
<1>9. ASSUME NEW p \in Contender, WriteEpoch(p) PROVE TypeOK'
  BY <1>9 DEF WriteEpoch
<1>10. ASSUME NEW p \in Contender, OpenRecordTemp(p) PROVE TypeOK'
  <2>1. lock' = lock \/ lock' = [lock EXCEPT !.temps = @ \cup {p}]
    BY <1>10 DEF OpenRecordTemp
  <2>2. lock' \in LockDirectory
    BY <2>1
  <2>3. \E s \in {"swapRecord", "abandonUnlink"} : pc' = [pc EXCEPT ![p] = s]
    BY <1>10 DEF OpenRecordTemp
  <2>4. pc' \in [Contender -> {"idle"} \cup Trying \cup Holding \cup Leaving \cup Settled]
    BY <2>3
  <2>5. QED
    BY <1>10, <2>2, <2>4 DEF OpenRecordTemp
<1>11. ASSUME NEW p \in Contender, SwapRecord(p) PROVE TypeOK'
  <2>1. lock' = lock
        \/ lock' = [directory |-> lock.directory, record |-> p, temps |-> lock.temps \ {p}]
    BY <1>11 DEF SwapRecord
  <2>2. lock' \in LockDirectory
    BY <2>1
  <2>3. pc' \in [Contender -> {"idle"} \cup Trying \cup Holding \cup Leaving \cup Settled]
    BY <1>11 DEF SwapRecord
  <2>4. QED
    BY <1>11, <2>2, <2>3 DEF SwapRecord
<1>12. ASSUME NEW p \in Contender, DiskFault(p) PROVE TypeOK'
  BY <1>12 DEF DiskFault
<1>13. ASSUME NEW p \in Contender, Reap(p) PROVE TypeOK'
  <2>1. CASE ListOrphans(p) \/ ReapDone(p)
    <3>1. candidate' \in [Contender -> {"none", "empty", "full"}]
      BY <2>1 DEF ListOrphans, ReapDone
    <3>2. removal' \in [Contender -> [Contender -> Stages]]
      BY <2>1 DEF ListOrphans, ReapDone
    <3>3. QED
      BY <2>1, <3>1, <3>2 DEF ListOrphans, ReapDone
  <2>2. ASSUME NEW q \in Contender, RemoveOrphan(p, q) \/ UnlinkOrphan(p, q) PROVE TypeOK'
    <3>1. candidate' \in [Contender -> {"none", "empty", "full"}]
      BY <2>2 DEF RemoveOrphan, UnlinkOrphan
    <3>2. removal' \in [Contender -> [Contender -> Stages]]
      <4>1. \E stage \in Stages : removal' = [removal EXCEPT ![p][q] = stage]
        BY <2>2 DEF RemoveOrphan, UnlinkOrphan
      <4>2. QED
        BY <4>1
    <3>3. QED
      BY <2>2, <3>1, <3>2 DEF RemoveOrphan, UnlinkOrphan
  <2>3. QED
    BY <1>13, <2>1, <2>2 DEF Reap
<1>14. ASSUME NEW p \in Contender, Release(p) PROVE TypeOK'
  BY <1>14 DEF Release
<1>15. ASSUME NEW p \in Contender, UnlinkEntries(p) PROVE TypeOK'
  <2>1. lock' \in LockDirectory
    BY <1>15 DEF UnlinkEntries
  <2>2. pc' \in [Contender -> {"idle"} \cup Trying \cup Holding \cup Leaving \cup Settled]
    BY <1>15 DEF UnlinkEntries
  <2>3. QED
    BY <1>15, <2>1, <2>2 DEF UnlinkEntries
<1>16. ASSUME NEW p \in Contender, RemoveDirectory(p) PROVE TypeOK'
  BY <1>16 DEF RemoveDirectory
<1>17. ASSUME NEW p \in Contender, Crash(p) PROVE TypeOK'
  BY <1>17 DEF Crash
<1>18. ASSUME NEW p \in Contender, UnlinkFirst(p) \/ UnlinkSecond(p) PROVE TypeOK'
  <2>1. \/ lock' = [directory |-> lock.directory, record |-> NoOne, temps |-> lock.temps]
        \/ lock' = [directory |-> lock.directory, record |-> lock.record,
                    temps |-> lock.temps \ {p}]
    BY <1>18 DEF UnlinkFirst, UnlinkSecond
  <2>2. lock' \in LockDirectory
    BY <2>1
  <2>3. pc' \in [Contender -> {"idle"} \cup Trying \cup Holding \cup Leaving \cup Settled]
    <3>1. \E s \in {"abandonTemp", "abandonRecord", "abandonRmdir"} : pc' = [pc EXCEPT ![p] = s]
      BY <1>18 DEF UnlinkFirst, UnlinkSecond
    <3>2. QED
      BY <3>1
  <2>4. QED
    BY <1>18, <2>2, <2>3 DEF UnlinkFirst, UnlinkSecond
<1>19. QED
  BY <1>1, <1>2, <1>3, <1>4, <1>5, <1>6, <1>7, <1>8, <1>9, <1>10, <1>11, <1>12,
     <1>13, <1>14, <1>15, <1>16, <1>17, <1>18 DEF Next, Run

LEMMA TypeInit == Init => TypeOK
<1> SUFFICES ASSUME Init PROVE TypeOK
  OBVIOUS
<1>1. lock \in LockDirectory
  BY DEF Init
<1>2. QED
  BY <1>1 DEF Init, TypeOK

\* Every state of every behaviour is well typed.
THEOREM TypeCorrect == Spec => []TypeOK
BY TypeInit, TypeStep, PTL DEF Spec

-----------------------------------------------------------------------------

LEMMA DirectoryStep == TypeOK /\ DirectoryInv /\ [Next]_vars => DirectoryInv'
<1> SUFFICES ASSUME TypeOK, DirectoryInv, [Next]_vars PROVE DirectoryInv'
  OBVIOUS
<1> USE DEF TypeOK, DirectoryInv
<1>1. CASE lock' = lock
  BY <1>1
<1>2. ASSUME NEW p \in Contender, RenameCandidate(p) PROVE DirectoryInv'
  BY <1>2 DEF RenameCandidate
<1>3. ASSUME NEW p \in Contender, QuarantineStale(p) PROVE DirectoryInv'
  BY <1>3 DEF QuarantineStale
<1>4. ASSUME NEW p \in Contender, OpenRecordTemp(p) PROVE DirectoryInv'
  BY <1>4 DEF OpenRecordTemp
<1>5. ASSUME NEW p \in Contender, SwapRecord(p) PROVE DirectoryInv'
  <2>1. CASE p \in lock.temps
    <3>1. lock.directory = "present"
      BY <2>1
    <3>2. lock'.directory = lock.directory
      BY <1>5, <2>1 DEF SwapRecord
    <3>3. QED
      BY <3>1, <3>2
  <2>2. CASE p \notin lock.temps
    BY <1>5, <2>2 DEF SwapRecord
  <2>3. QED
    BY <2>1, <2>2
<1>6. ASSUME NEW p \in Contender, UnlinkEntries(p) PROVE DirectoryInv'
  BY <1>6 DEF UnlinkEntries
<1>7. ASSUME NEW p \in Contender, RemoveDirectory(p) PROVE DirectoryInv'
  BY <1>7 DEF RemoveDirectory
<1>8. ASSUME NEW p \in Contender, UnlinkFirst(p) PROVE DirectoryInv'
  <2>1. lock.directory = "present"
    BY <1>8 DEF UnlinkFirst
  <2>2. lock'.directory = lock.directory
    BY <1>8 DEF UnlinkFirst
  <2>3. QED
    BY <2>1, <2>2
<1>9. ASSUME NEW p \in Contender, UnlinkSecond(p) PROVE DirectoryInv'
  <2>1. CASE lock.directory = "present"
    <3>1. lock'.directory = lock.directory
      BY <1>9 DEF UnlinkSecond
    <3>2. QED
      BY <2>1, <3>1
  <2>2. CASE lock = Absent
    BY <1>9, <2>2 DEF UnlinkSecond
  <2>3. QED
    BY <2>1, <2>2
<1>10. QED
  BY <1>1, <1>2, <1>3, <1>4, <1>5, <1>6, <1>7, <1>8, <1>9 DEF Next, Run, vars, Start,
     MakeCandidate, WriteCandidate, JudgeOwner, ReadEpoch, WriteEpoch, DiskFault, Reap,
     ListOrphans, RemoveOrphan, UnlinkOrphan, ReapDone, Release, Crash

\* A step can only make the directory record of a holder wrong by displacing it, or by
\* winning without a record.
LEMMA RecordStep ==
    TypeOK /\ RecordInv /\ [Next]_vars /\ ~Disturbed' => RecordInv'
<1> SUFFICES ASSUME TypeOK, RecordInv, [Next]_vars, ~Disturbed',
                    NEW q \in Contender, pc'[q] \in Holding
             PROVE  lock'.record = q
  BY DEF RecordInv
<1> USE NoOneAssumption DEF TypeOK, RecordInv
<1>1. CASE UNCHANGED vars
  BY <1>1 DEF vars
<1>2. ASSUME NEW p \in Contender, Start(p) PROVE lock'.record = q
  BY <1>2 DEF Start
<1>3. ASSUME NEW p \in Contender, MakeCandidate(p) PROVE lock'.record = q
  BY <1>3 DEF MakeCandidate
<1>4. ASSUME NEW p \in Contender, WriteCandidate(p) PROVE lock'.record = q
  BY <1>4 DEF WriteCandidate
<1>5. ASSUME NEW p \in Contender, RenameCandidate(p) PROVE lock'.record = q
  <2>1. CASE pc'[p] # "readEpoch"
    <3>1. lock' = lock
      BY <1>5, <2>1 DEF RenameCandidate
    <3>2. q # p /\ pc[q] \in Holding
      BY <1>5, <2>1 DEF RenameCandidate
    <3>3. QED
      BY <3>1, <3>2
  <2>2. CASE pc'[p] = "readEpoch"
    <3>1. /\ ~HasEntries
          /\ lock' = [directory |-> "present", temps |-> {},
                      record |-> IF candidate[p] = "full" THEN p ELSE NoOne]
          /\ unrecorded' = (unrecorded \/ candidate[p] # "full")
      BY <1>5, <2>2 DEF RenameCandidate
    <3>2. candidate[p] = "full"
      BY <3>1, Zenon DEF Disturbed
    <3>3. q = p
      BY <1>5, <3>1 DEF RenameCandidate, HasEntries
    <3>4. QED
      BY <3>1, <3>2, <3>3
  <2>3. QED
    BY <2>1, <2>2
<1>6. ASSUME NEW p \in Contender, JudgeOwner(p) PROVE lock'.record = q
  BY <1>6 DEF JudgeOwner
<1>7. ASSUME NEW p \in Contender, QuarantineStale(p) PROVE lock'.record = q
  \* The directory that goes away is nobody's, so q cannot be a holder.
  <2>1. q # p /\ pc[q] \in Holding
    BY <1>7 DEF QuarantineStale
  <2>2. lock.record = q /\ IsProcessAlive(q)
    BY <2>1 DEF IsProcessAlive
  <2>3. displaced'
    BY <1>7, <2>2 DEF QuarantineStale
  <2>4. QED
    BY <2>3 DEF Disturbed
<1>8. ASSUME NEW p \in Contender, ReadEpoch(p) PROVE lock'.record = q
  BY <1>8 DEF ReadEpoch
<1>9. ASSUME NEW p \in Contender, WriteEpoch(p) PROVE lock'.record = q
  BY <1>9 DEF WriteEpoch
<1>10. ASSUME NEW p \in Contender, OpenRecordTemp(p) PROVE lock'.record = q
  BY <1>10 DEF OpenRecordTemp
<1>11. ASSUME NEW p \in Contender, SwapRecord(p) PROVE lock'.record = q
  <2>1. lock.record = p
    BY <1>11 DEF SwapRecord
  <2>2. pc[q] \in Holding
    BY <1>11 DEF SwapRecord
  <2>3. QED
    BY <1>11, <2>1, <2>2 DEF SwapRecord
<1>12. ASSUME NEW p \in Contender, DiskFault(p) PROVE lock'.record = q
  BY <1>12 DEF DiskFault
<1>13. ASSUME NEW p \in Contender, Reap(p) PROVE lock'.record = q
  BY <1>13 DEF Reap, ListOrphans, RemoveOrphan, UnlinkOrphan, ReapDone
<1>14. ASSUME NEW p \in Contender, Release(p) PROVE lock'.record = q
  BY <1>14 DEF Release
<1>15. ASSUME NEW p \in Contender, UnlinkEntries(p) PROVE lock'.record = q
  BY <1>15 DEF UnlinkEntries
<1>16. ASSUME NEW p \in Contender, RemoveDirectory(p) PROVE lock'.record = q
  BY <1>16 DEF RemoveDirectory, HasEntries
<1>17. ASSUME NEW p \in Contender, Crash(p) PROVE lock'.record = q
  BY <1>17 DEF Crash
<1>18. ASSUME NEW p \in Contender, UnlinkFirst(p) PROVE lock'.record = q
  \* The record was p's, so q, a holder, is p with the temporary file unlinked.
  <2>1. lock.record = p /\ pc[q] \in Holding /\ (q = p => pc'[p] = "abandonRecord")
    BY <1>18 DEF UnlinkFirst
  <2>2. q = p /\ lock' = [lock EXCEPT !.temps = @ \ {p}]
    BY <1>18, <2>1 DEF UnlinkFirst
  <2>3. QED
    BY <2>1, <2>2
<1>19. ASSUME NEW p \in Contender, UnlinkSecond(p) PROVE lock'.record = q
  <2>1. pc[q] \in Holding /\ q # p
    BY <1>19 DEF UnlinkSecond
  <2>2. CASE pc[p] = "abandonRecord"
    BY <2>1, <2>2
  <2>3. CASE pc[p] = "abandonTemp"
    <3>1. lock'.record = lock.record
      BY <1>19, <2>3 DEF UnlinkSecond
    <3>2. QED
      BY <2>1, <3>1
  <2>4. QED
    BY <1>19, <2>2, <2>3 DEF UnlinkSecond
<1>20. QED
  BY <1>1, <1>2, <1>3, <1>4, <1>5, <1>6, <1>7, <1>8, <1>9, <1>10, <1>11, <1>12,
     <1>13, <1>14, <1>15, <1>16, <1>17, <1>18, <1>19 DEF Next, Run

\* The steps that leave the counter, and what was read of it, alone.
Uncounted(p) ==
    \/ Start(p) \/ MakeCandidate(p) \/ WriteCandidate(p) \/ RenameCandidate(p)
    \/ JudgeOwner(p) \/ QuarantineStale(p) \/ OpenRecordTemp(p) \/ SwapRecord(p)
    \/ DiskFault(p) \/ Reap(p) \/ Release(p) \/ UnlinkEntries(p)
    \/ UnlinkFirst(p) \/ UnlinkSecond(p) \/ RemoveDirectory(p) \/ Crash(p)

\* Such a step lets nobody come to write an epoch or to have one.
LEMMA UncountedFacts ==
    ASSUME TypeOK, NEW p \in Contender, Uncounted(p)
    PROVE  /\ UNCHANGED <<epochFile, seen, epoch>>
           /\ \A q \in Contender : pc'[q] \in Numbered \cup {"writeEpoch"} =>
                  pc[q] = pc'[q] \/ (pc[q] \in Numbered /\ pc'[q] \in Numbered)
<1> USE DEF TypeOK, Numbered, Uncounted, Start, MakeCandidate, WriteCandidate, RenameCandidate,
   JudgeOwner, QuarantineStale, OpenRecordTemp, SwapRecord, DiskFault, Reap, ListOrphans,
   RemoveOrphan, UnlinkOrphan, ReapDone, Release, UnlinkEntries, UnlinkFirst, UnlinkSecond,
   RemoveDirectory, Crash
<1>1. UNCHANGED <<epochFile, seen, epoch>>
  OBVIOUS
<1>2. \A q \in Contender : q # p => pc'[q] = pc[q]
  OBVIOUS
<1>3. pc'[p] \in Numbered \cup {"writeEpoch"} => pc[p] \in Numbered /\ pc'[p] \in Numbered
  OBVIOUS
<1>4. QED
  BY <1>1, <1>2, <1>3

\* The counter moves only in WriteEpoch, and then by its only holder.
LEMMA NumberStep ==
    TypeOK /\ RecordInv /\ NumberInv /\ [Next]_vars => NumberInv'
<1> SUFFICES ASSUME TypeOK, RecordInv, NumberInv, [Next]_vars PROVE NumberInv'
  OBVIOUS
<1> USE DEF TypeOK, NumberInv, Numbered
<1>1. CASE UNCHANGED vars
  BY <1>1 DEF vars
<1>2. ASSUME NEW p \in Contender, ReadEpoch(p) PROVE NumberInv'
  BY <1>2 DEF ReadEpoch
<1>3. ASSUME NEW p \in Contender, WriteEpoch(p) PROVE NumberInv'
  <2>1. epochFile' = seen[p] + 1 /\ epoch' = [epoch EXCEPT ![p] = seen[p] + 1]
    BY <1>3 DEF WriteEpoch
  <2>2. \A q \in Contender : q # p => pc[q] \notin Holding
    BY <1>3 DEF WriteEpoch, RecordInv
  <2>3. QED
    BY <1>3, <2>1, <2>2 DEF WriteEpoch
<1>4. ASSUME NEW p \in Contender, Uncounted(p) PROVE NumberInv'
  BY <1>4, UncountedFacts
<1>5. QED
  BY <1>1, <1>2, <1>3, <1>4 DEF Next, Run, Uncounted

\* As long as every read of the counter succeeds, it only grows.
LEMMA EpochStep ==
    TypeOK /\ RecordInv /\ NumberInv /\ EpochInv /\ [Next]_vars /\ ~misread' => EpochInv'
<1> SUFFICES ASSUME TypeOK, RecordInv, NumberInv, EpochInv, [Next]_vars, ~misread' PROVE EpochInv'
  OBVIOUS
<1> USE DEF TypeOK, EpochInv
<1>1. CASE UNCHANGED vars
  BY <1>1 DEF vars
<1>2. ASSUME NEW p \in Contender, ReadEpoch(p) PROVE EpochInv'
  BY <1>2 DEF ReadEpoch
<1>3. ASSUME NEW p \in Contender, WriteEpoch(p) PROVE EpochInv'
  <2>1. epochFile' = epochFile + 1 /\ epoch' = [epoch EXCEPT ![p] = epochFile + 1]
    BY <1>3 DEF WriteEpoch
  <2>2. \A q \in Contender : q # p => pc[q] \notin Holding
    BY <1>3 DEF WriteEpoch, RecordInv
  <2>3. \A q \in Contender : epoch'[q] <= epochFile'
    BY <2>1
  <2>4. \A q \in Contender : pc'[q] = "writeEpoch" => seen'[q] = epochFile'
    BY <1>3, <2>2 DEF WriteEpoch
  <2>5. \A q, r \in Contender : q # r /\ epoch'[q] = epoch'[r] => epoch'[q] = 0
    BY <2>1
  <2>6. QED
    BY <2>3, <2>4, <2>5
<1>4. ASSUME NEW p \in Contender, Uncounted(p) PROVE EpochInv'
  BY <1>4, UncountedFacts DEF Numbered
<1>5. QED
  BY <1>1, <1>2, <1>3, <1>4 DEF Next, Run, Uncounted

\* History is not forgotten.
LEMMA HistoryStays ==
    [Next]_vars => (Disturbed => Disturbed') /\ (misread => misread')
<1> USE DEF Disturbed
<1>1. ASSUME NEW p \in Contender, ReadEpoch(p)
      PROVE  UNCHANGED <<displaced, unrecorded>> /\ (misread => misread')
  BY <1>1 DEF ReadEpoch
<1>2. ASSUME NEW p \in Contender, QuarantineStale(p) \/ RenameCandidate(p)
      PROVE  /\ displaced => displaced'
             /\ unrecorded => unrecorded'
             /\ misread' = misread
  <2>1. CASE QuarantineStale(p)
    BY <2>1, Zenon DEF QuarantineStale
  <2>2. CASE RenameCandidate(p)
    <3>1. displaced' = displaced /\ misread' = misread
      BY <2>2 DEF RenameCandidate
    <3>2. unrecorded => unrecorded'
      <4>1. unrecorded' = unrecorded \/ unrecorded' = (unrecorded \/ candidate[p] # "full")
        BY <2>2 DEF RenameCandidate
      <4>2. QED
        BY <4>1
    <3>3. displaced => displaced'
      BY <3>1
    <3>4. QED
      BY <3>1, <3>2, <3>3
  <2>3. QED
    BY <1>2, <2>1, <2>2
<1>3. ASSUME NEW p \in Contender, WriteEpoch(p) \/ Uncounted(p),
             ~QuarantineStale(p), ~RenameCandidate(p)
      PROVE  UNCHANGED history
  BY <1>3 DEF Uncounted, Start, MakeCandidate, WriteCandidate, JudgeOwner,
     WriteEpoch, OpenRecordTemp, SwapRecord, DiskFault, Reap, ListOrphans, RemoveOrphan,
     UnlinkOrphan, ReapDone, Release, UnlinkEntries, UnlinkFirst, UnlinkSecond, RemoveDirectory, Crash
<1>4. QED
  BY <1>1, <1>2, <1>3 DEF Next, Run, Uncounted, vars

\* The inductive invariant.
THEOREM Inductive == Spec => []IInv
<1>1. Init => IInv
  <2> SUFFICES ASSUME Init PROVE IInv
    OBVIOUS
  <2>1. DirectoryInv /\ RecordInv /\ NumberInv
    BY DEF Init, DirectoryInv, RecordInv, NumberInv, Numbered
  <2>2. EpochInv
    BY DEF Init, EpochInv
  <2>3. QED
    BY <2>1, <2>2, TypeInit DEF IInv
<1>2. IInv /\ [Next]_vars => IInv'
  BY TypeStep, DirectoryStep, RecordStep, NumberStep, EpochStep, HistoryStays DEF IInv
<1>3. QED
  BY <1>1, <1>2, PTL DEF Spec

\* Two processes that hold the lock at once prove that a live owner's directory was
\* renamed away or that a candidate without its record became the lock.
THEOREM Exclusion == Spec => []ExclusiveUnlessDisturbed
<1>1. IInv => ExclusiveUnlessDisturbed
  <2> SUFFICES ASSUME IInv, ~Disturbed PROVE Cardinality(Holders) <= 1
    BY DEF ExclusiveUnlessDisturbed
  <2>1. Holders \subseteq {lock.record}
    BY DEF IInv, RecordInv, Holders
  <2>2. CASE Holders = {}
    BY <2>2, FS_EmptySet
  <2>3. CASE Holders = {lock.record}
    <3>1. Cardinality({lock.record}) = 1
      BY FS_Singleton
    <3>2. QED
      BY <2>3, <3>1
  <2>4. QED
    BY <2>1, <2>2, <2>3
<1>2. QED
  BY <1>1, Inductive, PTL

\* Epochs are never reused unless a read of the counter failed, and the running
\* owner has the newest.
THEOREM Fence == Spec => []EpochsFence
<1>1. IInv => EpochsFence
  BY DEF IInv, NumberInv, EpochInv, EpochsFence, Numbered
<1>2. QED
  BY <1>1, Inductive, PTL

\* No step of another process replaces or removes an owner's record.
THEOREM RecordKept == Spec => OwnerKeepsRecord
<1>1. IInv' /\ [Next]_vars =>
        [\A p \in Contender :
            pc[p] = "owner" /\ lock.record = p /\ lock'.record # p => Disturbed']_vars
  <2> SUFFICES ASSUME IInv', Next, NEW p \in Contender,
                      pc[p] = "owner", lock.record = p, lock'.record # p, ~Disturbed'
               PROVE  FALSE
    OBVIOUS
  <2>1. pc'[p] \notin Holding
    BY DEF IInv, RecordInv
  <2>2. PICK q \in Contender : Start(q) \/ Run(q) \/ DiskFault(q) \/ Release(q) \/ Crash(q)
    BY DEF Next
  <2>3. q = p /\ (Release(p) \/ Crash(p))
    BY <2>1, <2>2 DEF Run, Start, MakeCandidate, WriteCandidate, RenameCandidate, JudgeOwner,
       QuarantineStale, ReadEpoch, WriteEpoch, OpenRecordTemp, SwapRecord, DiskFault, Reap,
       ListOrphans, RemoveOrphan, UnlinkOrphan, ReapDone, Release, UnlinkEntries, UnlinkFirst,
       UnlinkSecond, RemoveDirectory, Crash, IInv, TypeOK
  <2>4. QED
    BY <2>3 DEF Release, Crash
<1>2. QED
  BY <1>1, Inductive, PTL DEF Spec, OwnerKeepsRecord

-----------------------------------------------------------------------------
(* The process that is left gets the lock, if it is given steps. *)

\* Nothing in the lock directory is one's own before the winning rename.
NotMine ==
    \A p \in Contender : pc[p] \in {"idle"} \cup Trying => lock.record # p /\ p \notin lock.temps

LEMMA NotMineStep == TypeOK /\ NotMine /\ [Next]_vars => NotMine'
<1> SUFFICES ASSUME TypeOK, NotMine, [Next]_vars,
                    NEW q \in Contender, pc'[q] \in {"idle"} \cup Trying
             PROVE  lock'.record # q /\ q \notin lock'.temps
  BY DEF NotMine
<1> USE NoOneAssumption DEF TypeOK, NotMine
<1>1. CASE UNCHANGED vars
  BY <1>1 DEF vars
<1>2. ASSUME NEW p \in Contender, Start(p) \/ Run(p) \/ DiskFault(p) \/ Release(p) \/ Crash(p)
      PROVE  /\ pc[q] \in {"idle"} \cup Trying
             /\ lock'.record \in {lock.record, p, NoOne} /\ lock'.temps \subseteq lock.temps \cup {p}
             /\ lock' # lock => q # p \/ (lock'.record = NoOne /\ lock'.temps = {})
  <2>1. CASE Start(p) \/ MakeCandidate(p) \/ WriteCandidate(p) \/ JudgeOwner(p) \/ ReadEpoch(p)
             \/ WriteEpoch(p) \/ Reap(p) \/ DiskFault(p) \/ Release(p) \/ Crash(p)
    BY <2>1 DEF Start, MakeCandidate, WriteCandidate, JudgeOwner, ReadEpoch, WriteEpoch,
       Reap, ListOrphans, RemoveOrphan, UnlinkOrphan, ReapDone, DiskFault, Release, Crash
  <2>2. CASE RenameCandidate(p)
    BY <2>2 DEF RenameCandidate
  <2>3. CASE QuarantineStale(p)
    BY <2>3 DEF QuarantineStale
  <2>4. CASE OpenRecordTemp(p) \/ SwapRecord(p)
    <3>1. q # p /\ pc'[q] = pc[q]
      BY <2>4 DEF OpenRecordTemp, SwapRecord
    <3>2. CASE lock' = lock
      BY <3>1, <3>2
    <3>3. CASE lock' = [lock EXCEPT !.temps = @ \cup {p}]
      BY <3>1, <3>3
    <3>4. CASE lock' = [lock EXCEPT !.record = p, !.temps = @ \ {p}]
      BY <3>1, <3>4
    <3>5. QED
      BY <2>4, <3>2, <3>3, <3>4 DEF OpenRecordTemp, SwapRecord
  <2>5. CASE UnlinkEntries(p) \/ UnlinkFirst(p) \/ UnlinkSecond(p)
    <3>1. q # p /\ pc'[q] = pc[q]
      BY <2>5 DEF UnlinkEntries, UnlinkFirst, UnlinkSecond
    <3>2. CASE lock' = [lock EXCEPT !.record = NoOne, !.temps = {}]
      BY <3>1, <3>2
    <3>3. CASE lock' = [lock EXCEPT !.record = NoOne]
      BY <3>1, <3>3
    <3>4. CASE lock' = [lock EXCEPT !.temps = @ \ {p}]
      BY <3>1, <3>4
    <3>5. QED
      BY <2>5, <3>2, <3>3, <3>4 DEF UnlinkEntries, UnlinkFirst, UnlinkSecond
  <2>6. CASE RemoveDirectory(p)
    BY <2>6 DEF RemoveDirectory
  <2>7. QED
    BY <1>2, <2>1, <2>2, <2>3, <2>4, <2>5, <2>6 DEF Run
<1>3. QED
  BY <1>1, <1>2 DEF Next

\* Nobody removes candidates before its reaping.
NoneBefore == \A p \in Contender : pc[p] \notin {"reaping", "kept"} => removal[p] = NoRemoval

LEMMA NoneBeforeStep == TypeOK /\ NoneBefore /\ [Next]_vars => NoneBefore'
<1> SUFFICES ASSUME TypeOK, NoneBefore, [Next]_vars,
                    NEW q \in Contender, pc'[q] \notin {"reaping", "kept"}
             PROVE  removal'[q] = NoRemoval
  BY DEF NoneBefore
<1> USE DEF TypeOK, NoneBefore
<1>1. CASE UNCHANGED vars
  BY <1>1 DEF vars
<1>2. ASSUME NEW p \in Contender, Start(p) \/ Run(p) \/ DiskFault(p) \/ Release(p), ~Reap(p)
      PROVE  removal' = removal /\ pc[q] \notin {"reaping", "kept"}
  <2>1. removal' = removal
    BY <1>2 DEF Run, Start, MakeCandidate, WriteCandidate, RenameCandidate, JudgeOwner,
       QuarantineStale, ReadEpoch, WriteEpoch, OpenRecordTemp, SwapRecord, DiskFault, Release,
       UnlinkEntries, UnlinkFirst, UnlinkSecond, RemoveDirectory
  <2>2. pc[p] \notin {"reaping", "kept"} \/ pc'[p] \in {"reaping", "kept"}
    BY <1>2 DEF Run, Start, MakeCandidate, WriteCandidate, RenameCandidate, JudgeOwner,
       QuarantineStale, ReadEpoch, WriteEpoch, OpenRecordTemp, SwapRecord, DiskFault, Release,
       UnlinkEntries, UnlinkFirst, UnlinkSecond, RemoveDirectory
  <2>3. q = p \/ pc'[q] = pc[q]
    BY <1>2 DEF Run, Start, MakeCandidate, WriteCandidate, RenameCandidate, JudgeOwner,
       QuarantineStale, ReadEpoch, WriteEpoch, OpenRecordTemp, SwapRecord, DiskFault, Release,
       UnlinkEntries, UnlinkFirst, UnlinkSecond, RemoveDirectory
  <2>4. QED
    BY <2>1, <2>2, <2>3
<1>3. ASSUME NEW p \in Contender, Reap(p) PROVE removal'[q] = NoRemoval
  BY <1>3 DEF Reap, ListOrphans, RemoveOrphan, UnlinkOrphan, ReapDone
<1>4. ASSUME NEW p \in Contender, Crash(p) PROVE removal'[q] = NoRemoval
  BY <1>4 DEF Crash
<1>5. QED
  BY <1>1, <1>2, <1>3, <1>4 DEF Next

\* Every other process has been killed.
Left(p) == \A q \in Contender \ {p} : pc[q] = "crashed"

\* A step is a step of the process that is left, in its call or at its end.
LEMMA OnlyItsSteps ==
    ASSUME TypeOK, NEW p \in Contender, Left(p), pc[p] \in InCall, [Next]_vars
    PROVE  /\ Left(p)'
           /\ (UNCHANGED vars) \/ Run(p) \/ Decided(p)'
<1> USE DEF TypeOK, Left, InCall
<1>1. CASE UNCHANGED vars
  BY <1>1 DEF vars
<1>2. ASSUME NEW q \in Contender, Start(q) \/ Run(q) \/ DiskFault(q) \/ Release(q) \/ Crash(q)
      PROVE  /\ pc[q] # "crashed" /\ \E s : pc' = [pc EXCEPT ![q] = s]
             /\ q = p /\ ~Run(p) => Decided(p)'
  <2>1. CASE Reap(q)
    BY <2>1 DEF Run, Reap, ListOrphans, RemoveOrphan, UnlinkOrphan, ReapDone
  <2>2. CASE ~Reap(q)
    BY <1>2, <2>2 DEF Run, Start, MakeCandidate, WriteCandidate, RenameCandidate, JudgeOwner,
       QuarantineStale, ReadEpoch, WriteEpoch, OpenRecordTemp, SwapRecord, DiskFault, Release,
       UnlinkEntries, UnlinkFirst, UnlinkSecond, RemoveDirectory, Crash, Decided
  <2>3. QED
    BY <2>1, <2>2
<1>3. ASSUME NEW q \in Contender, Start(q) \/ Run(q) \/ DiskFault(q) \/ Release(q) \/ Crash(q)
      PROVE  Left(p)' /\ (Run(p) \/ Decided(p)')
  <2>1. q = p
    BY <1>2, <1>3
  <2>2. QED
    BY <1>2, <1>3, <2>1
<1>4. QED
  BY <1>1, <1>3 DEF Next

\* The places on its way, and what it finds there.  In the first round the directory
\* has a record or is empty; in the second, after the quarantine, it is empty.
Loop(p) == Left(p) /\ pc[p] = "loop" /\ Removable
Write(p) == Left(p) /\ pc[p] = "write" /\ candidate[p] # "none" /\ Removable
Rename(p) == Left(p) /\ pc[p] = "rename" /\ candidate[p] # "none" /\ Removable
Judge(p) == Left(p) /\ pc[p] = "judge" /\ lock.record # NoOne
Quarantine(p) == Left(p) /\ pc[p] = "quarantine"
LoopAgain(p) == Left(p) /\ pc[p] = "loop" /\ ~HasEntries
WriteAgain(p) == Left(p) /\ pc[p] = "write" /\ candidate[p] # "none" /\ ~HasEntries
RenameAgain(p) == Left(p) /\ pc[p] = "rename" /\ candidate[p] # "none" /\ ~HasEntries
Winning(p, stage) ==
    Left(p) /\ pc[p] = stage /\ (stage = "reaping" => removal[p] = NoRemoval)

\* From each place a step of the process leads on, and nothing else leads away.
LEMMA FirstRound ==
    ASSUME TypeOK, NotMine, NEW p \in Contender, [Next]_vars
    PROVE  /\ Loop(p) => Write(p)' \/ Decided(p)' \/ (Loop(p)' /\ UNCHANGED vars)
           /\ Write(p) => Rename(p)' \/ Decided(p)' \/ (Write(p)' /\ UNCHANGED vars)
           /\ Rename(p) => \/ Winning(p, "readEpoch")' \/ Judge(p)' \/ Decided(p)'
                           \/ Rename(p)' /\ UNCHANGED vars
           /\ Judge(p) => Quarantine(p)' \/ Decided(p)' \/ (Judge(p)' /\ UNCHANGED vars)
           /\ Quarantine(p) => LoopAgain(p)' \/ Decided(p)' \/ (Quarantine(p)' /\ UNCHANGED vars)
<1> USE DEF InCall
<1>1. ASSUME UNCHANGED vars
      PROVE  /\ Loop(p)' = Loop(p) /\ Write(p)' = Write(p) /\ Rename(p)' = Rename(p)
             /\ Judge(p)' = Judge(p) /\ Quarantine(p)' = Quarantine(p)
  BY <1>1 DEF vars, Loop, Write, Rename, Judge, Quarantine, Left, Removable
<1>2. Loop(p) /\ Run(p) => pc'[p] = "write" /\ candidate'[p] # "none" /\ lock' = lock
  BY DEF Loop, Run, MakeCandidate, WriteCandidate, RenameCandidate, JudgeOwner, QuarantineStale,
     ReadEpoch, WriteEpoch, OpenRecordTemp, SwapRecord, Reap, ListOrphans, RemoveOrphan,
     UnlinkOrphan, ReapDone, UnlinkEntries, UnlinkFirst, UnlinkSecond, RemoveDirectory, TypeOK
<1>3. Write(p) /\ Run(p) => pc'[p] = "rename" /\ candidate'[p] # "none" /\ lock' = lock
  BY DEF Write, Run, MakeCandidate, WriteCandidate, RenameCandidate, JudgeOwner, QuarantineStale,
     ReadEpoch, WriteEpoch, OpenRecordTemp, SwapRecord, Reap, ListOrphans, RemoveOrphan,
     UnlinkOrphan, ReapDone, UnlinkEntries, UnlinkFirst, UnlinkSecond, RemoveDirectory, TypeOK
<1>4. Rename(p) /\ Run(p) => pc'[p] = "readEpoch" \/ (pc'[p] = "judge" /\ HasEntries /\ lock' = lock)
  BY DEF Rename, Run, MakeCandidate, WriteCandidate, RenameCandidate, JudgeOwner, QuarantineStale,
     ReadEpoch, WriteEpoch, OpenRecordTemp, SwapRecord, Reap, ListOrphans, RemoveOrphan,
     UnlinkOrphan, ReapDone, UnlinkEntries, UnlinkFirst, UnlinkSecond, RemoveDirectory, TypeOK
<1>5. Judge(p) /\ Run(p) => pc'[p] = "quarantine"
  <2>1. Judge(p) => lock.record # p /\ lock.record \in Contender
    BY DEF Judge, NotMine, TypeOK
  <2>2. Judge(p) => ~IsProcessAlive(lock.record)
    BY <2>1 DEF Judge, Left, IsProcessAlive
  <2>3. QED
    BY <2>2 DEF Judge, Run, MakeCandidate, WriteCandidate, RenameCandidate, JudgeOwner,
       QuarantineStale, ReadEpoch, WriteEpoch, OpenRecordTemp, SwapRecord, Reap, ListOrphans,
       RemoveOrphan, UnlinkOrphan, ReapDone, UnlinkEntries, UnlinkFirst, UnlinkSecond,
       RemoveDirectory, TypeOK
<1>6. Quarantine(p) /\ Run(p) => pc'[p] = "loop" /\ ~HasEntries'
  BY DEF Quarantine, Run, MakeCandidate, WriteCandidate, RenameCandidate, JudgeOwner,
     QuarantineStale, ReadEpoch, WriteEpoch, OpenRecordTemp, SwapRecord, Reap, ListOrphans,
     RemoveOrphan, UnlinkOrphan, ReapDone, UnlinkEntries, UnlinkFirst, UnlinkSecond,
     RemoveDirectory, TypeOK, HasEntries
<1>7. Loop(p) \/ Write(p) \/ Rename(p) \/ Judge(p) \/ Quarantine(p)
        => Left(p)' /\ ((UNCHANGED vars) \/ Run(p) \/ Decided(p)')
  BY OnlyItsSteps DEF Loop, Write, Rename, Judge, Quarantine
<1>8. Loop(p) => Write(p)' \/ Decided(p)' \/ (Loop(p)' /\ UNCHANGED vars)
  BY <1>1, <1>2, <1>7 DEF Loop, Write, Removable
<1>9. Write(p) => Rename(p)' \/ Decided(p)' \/ (Write(p)' /\ UNCHANGED vars)
  BY <1>1, <1>3, <1>7 DEF Write, Rename, Removable
<1>10. Rename(p) => \/ Winning(p, "readEpoch")' \/ Judge(p)' \/ Decided(p)'
                    \/ Rename(p)' /\ UNCHANGED vars
  BY <1>1, <1>4, <1>7 DEF Rename, Winning, Judge, Removable, HasEntries
<1>11. Judge(p) => Quarantine(p)' \/ Decided(p)' \/ (Judge(p)' /\ UNCHANGED vars)
  BY <1>1, <1>5, <1>7 DEF Judge, Quarantine
<1>12. Quarantine(p) => LoopAgain(p)' \/ Decided(p)' \/ (Quarantine(p)' /\ UNCHANGED vars)
  BY <1>1, <1>6, <1>7 DEF Quarantine, LoopAgain
<1>13. QED
  BY <1>8, <1>9, <1>10, <1>11, <1>12

LEMMA SecondRound ==
    ASSUME TypeOK, NEW p \in Contender, [Next]_vars
    PROVE  /\ LoopAgain(p) => WriteAgain(p)' \/ Decided(p)' \/ (LoopAgain(p)' /\ UNCHANGED vars)
           /\ WriteAgain(p) => RenameAgain(p)' \/ Decided(p)' \/ (WriteAgain(p)' /\ UNCHANGED vars)
           /\ RenameAgain(p) => \/ Winning(p, "readEpoch")' \/ Decided(p)'
                                \/ RenameAgain(p)' /\ UNCHANGED vars
<1> USE DEF InCall
<1>1. ASSUME UNCHANGED vars
      PROVE  /\ LoopAgain(p)' = LoopAgain(p) /\ WriteAgain(p)' = WriteAgain(p)
             /\ RenameAgain(p)' = RenameAgain(p)
  BY <1>1 DEF vars, LoopAgain, WriteAgain, RenameAgain, Left, HasEntries
<1>2. LoopAgain(p) /\ Run(p) => pc'[p] = "write" /\ candidate'[p] # "none" /\ lock' = lock
  BY DEF LoopAgain, Run, MakeCandidate, WriteCandidate, RenameCandidate, JudgeOwner,
     QuarantineStale, ReadEpoch, WriteEpoch, OpenRecordTemp, SwapRecord, Reap, ListOrphans,
     RemoveOrphan, UnlinkOrphan, ReapDone, UnlinkEntries, UnlinkFirst, UnlinkSecond,
     RemoveDirectory, TypeOK
<1>3. WriteAgain(p) /\ Run(p) => pc'[p] = "rename" /\ candidate'[p] # "none" /\ lock' = lock
  BY DEF WriteAgain, Run, MakeCandidate, WriteCandidate, RenameCandidate, JudgeOwner,
     QuarantineStale, ReadEpoch, WriteEpoch, OpenRecordTemp, SwapRecord, Reap, ListOrphans,
     RemoveOrphan, UnlinkOrphan, ReapDone, UnlinkEntries, UnlinkFirst, UnlinkSecond,
     RemoveDirectory, TypeOK
<1>4. RenameAgain(p) /\ Run(p) => pc'[p] = "readEpoch"
  BY DEF RenameAgain, Run, MakeCandidate, WriteCandidate, RenameCandidate, JudgeOwner,
     QuarantineStale, ReadEpoch, WriteEpoch, OpenRecordTemp, SwapRecord, Reap, ListOrphans,
     RemoveOrphan, UnlinkOrphan, ReapDone, UnlinkEntries, UnlinkFirst, UnlinkSecond,
     RemoveDirectory, TypeOK
<1>5. LoopAgain(p) \/ WriteAgain(p) \/ RenameAgain(p)
        => Left(p)' /\ ((UNCHANGED vars) \/ Run(p) \/ Decided(p)')
  BY OnlyItsSteps DEF LoopAgain, WriteAgain, RenameAgain
<1>6. LoopAgain(p) => WriteAgain(p)' \/ Decided(p)' \/ (LoopAgain(p)' /\ UNCHANGED vars)
  BY <1>1, <1>2, <1>5 DEF LoopAgain, WriteAgain, HasEntries
<1>7. WriteAgain(p) => RenameAgain(p)' \/ Decided(p)' \/ (WriteAgain(p)' /\ UNCHANGED vars)
  BY <1>1, <1>3, <1>5 DEF WriteAgain, RenameAgain, HasEntries
<1>8. RenameAgain(p) => \/ Winning(p, "readEpoch")' \/ Decided(p)'
                        \/ RenameAgain(p)' /\ UNCHANGED vars
  BY <1>1, <1>4, <1>5 DEF RenameAgain, Winning
<1>9. QED
  BY <1>6, <1>7, <1>8

\* The steps that follow the winning rename.
NextStage == [s \in {"readEpoch", "writeEpoch", "openTemp", "swapRecord", "reap", "reaping"} |->
                 CASE s = "readEpoch"  -> "writeEpoch"
                   [] s = "writeEpoch" -> "openTemp"
                   [] s = "openTemp"   -> "swapRecord"
                   [] s = "swapRecord" -> "reap"
                   [] s = "reap"       -> "reaping"
                   [] s = "reaping"    -> "owner"]

LEMMA Won ==
    ASSUME TypeOK, NoneBefore, NEW p \in Contender, [Next]_vars, NEW s \in DOMAIN NextStage, Winning(p, s)
    PROVE  \/ Winning(p, NextStage[s])' \/ Decided(p)'
           \/ Winning(p, s)' /\ UNCHANGED vars
<1> USE DEF InCall, NextStage
<1>1. ASSUME UNCHANGED vars PROVE Winning(p, s)'
  BY <1>1 DEF vars, Winning, Left
<1>2. ASSUME Run(p) PROVE pc'[p] = NextStage[s] \/ Decided(p)'
  <2>1. CASE s # "reaping"
    BY <1>2, <2>1 DEF Winning, Run, MakeCandidate, WriteCandidate, RenameCandidate, JudgeOwner,
       QuarantineStale, ReadEpoch, WriteEpoch, OpenRecordTemp, SwapRecord, Reap, ListOrphans,
       RemoveOrphan, UnlinkOrphan, ReapDone, UnlinkEntries, UnlinkFirst, UnlinkSecond,
       RemoveDirectory, TypeOK, Decided
  <2>2. CASE s = "reaping"
    BY <1>2, <2>2 DEF Winning, Run, MakeCandidate, WriteCandidate, RenameCandidate, JudgeOwner,
       QuarantineStale, ReadEpoch, WriteEpoch, OpenRecordTemp, SwapRecord, Reap, ListOrphans,
       RemoveOrphan, UnlinkOrphan, ReapDone, UnlinkEntries, UnlinkFirst, UnlinkSecond,
       RemoveDirectory, TypeOK, Decided
  <2>3. QED
    BY <2>1, <2>2
<1>3. Left(p)' /\ ((UNCHANGED vars) \/ Run(p) \/ Decided(p)')
  BY OnlyItsSteps DEF Winning
\* Nobody else is alive, so the listing finds nothing to remove in the way.
<1>4. ASSUME Run(p), NextStage[s] = "reaping", pc'[p] = "reaping" PROVE removal'[p] = NoRemoval
  <2>1. s = "reap" /\ ListOrphans(p)
    BY <1>4 DEF Winning, Run, MakeCandidate, WriteCandidate, RenameCandidate, JudgeOwner,
       QuarantineStale, ReadEpoch, WriteEpoch, OpenRecordTemp, SwapRecord, Reap,
       RemoveOrphan, UnlinkOrphan, ReapDone, UnlinkEntries, UnlinkFirst, UnlinkSecond,
       RemoveDirectory, TypeOK
  <2>2. removal[p] = NoRemoval
    BY <2>1 DEF NoneBefore, Winning
  <2>3. \A q \in Contender : q = p \/ pc[q] = "crashed"
    BY DEF Winning, Left
  <2>4. QED
    BY <2>1, <2>2, <2>3 DEF ListOrphans, TypeOK
<1>5. CASE UNCHANGED vars
  BY <1>1, <1>5
<1>6. CASE Run(p)
  BY <1>2, <1>3, <1>4, <1>6 DEF Winning
<1>7. QED
  BY <1>3, <1>5, <1>6

\* One process, if it is given steps: whatever those that were killed left behind, it
\* becomes the owner, fails or is killed.
LEMMA LoneAcquires ==
    ASSUME NEW p \in Contender
    PROVE  FairSpec /\ []CallsGoOn => AcquiresAlone(p)
<1> DEFINE E == Winning(p, "readEpoch")
           F == Winning(p, "writeEpoch")
           O == Winning(p, "openTemp")
           S == Winning(p, "swapRecord")
           A == Winning(p, "reap")
           B == Winning(p, "reaping")
<1>1. Spec => [](TypeOK /\ NotMine /\ NoneBefore)
  <2>1. Init => NotMine /\ NoneBefore
    BY NoOneAssumption DEF Init, NotMine, NoneBefore
  <2>2. QED
    BY <2>1, NotMineStep, NoneBeforeStep, TypeInit, TypeStep, PTL DEF Spec
<1>2. /\ TypeOK /\ NotMine /\ Loop(p) /\ [Next]_vars
             => Write(p)' \/ Decided(p)' \/ (Loop(p)' /\ ~<<Run(p)>>_vars)
      /\ TypeOK /\ NotMine /\ Write(p) /\ [Next]_vars
             => Rename(p)' \/ Decided(p)' \/ (Write(p)' /\ ~<<Run(p)>>_vars)
      /\ TypeOK /\ NotMine /\ Rename(p) /\ [Next]_vars
             => E' \/ Judge(p)' \/ Decided(p)' \/ (Rename(p)' /\ ~<<Run(p)>>_vars)
      /\ TypeOK /\ NotMine /\ Judge(p) /\ [Next]_vars
             => Quarantine(p)' \/ Decided(p)' \/ (Judge(p)' /\ ~<<Run(p)>>_vars)
      /\ TypeOK /\ NotMine /\ Quarantine(p) /\ [Next]_vars
             => LoopAgain(p)' \/ Decided(p)' \/ (Quarantine(p)' /\ ~<<Run(p)>>_vars)
  BY FirstRound
<1>3. /\ TypeOK /\ LoopAgain(p) /\ [Next]_vars
             => WriteAgain(p)' \/ Decided(p)' \/ (LoopAgain(p)' /\ ~<<Run(p)>>_vars)
      /\ TypeOK /\ WriteAgain(p) /\ [Next]_vars
             => RenameAgain(p)' \/ Decided(p)' \/ (WriteAgain(p)' /\ ~<<Run(p)>>_vars)
      /\ TypeOK /\ RenameAgain(p) /\ [Next]_vars
             => E' \/ Decided(p)' \/ (RenameAgain(p)' /\ ~<<Run(p)>>_vars)
  BY SecondRound
<1>4. /\ TypeOK /\ NoneBefore /\ E /\ [Next]_vars => F' \/ Decided(p)' \/ (E' /\ ~<<Run(p)>>_vars)
      /\ TypeOK /\ NoneBefore /\ F /\ [Next]_vars => O' \/ Decided(p)' \/ (F' /\ ~<<Run(p)>>_vars)
      /\ TypeOK /\ NoneBefore /\ O /\ [Next]_vars => S' \/ Decided(p)' \/ (O' /\ ~<<Run(p)>>_vars)
      /\ TypeOK /\ NoneBefore /\ S /\ [Next]_vars => A' \/ Decided(p)' \/ (S' /\ ~<<Run(p)>>_vars)
      /\ TypeOK /\ NoneBefore /\ A /\ [Next]_vars => B' \/ Decided(p)' \/ (A' /\ ~<<Run(p)>>_vars)
      /\ TypeOK /\ NoneBefore /\ B /\ [Next]_vars => Decided(p)' \/ (B' /\ ~<<Run(p)>>_vars)
  BY Won DEF NextStage, Winning, Decided
<1>5. CallsGoOn /\ (Loop(p) \/ Write(p) \/ Rename(p) \/ Judge(p) \/ Quarantine(p) \/ LoopAgain(p)
                    \/ WriteAgain(p) \/ RenameAgain(p) \/ E \/ F \/ O \/ S \/ A \/ B)
        => ENABLED <<Run(p)>>_vars
  BY DEF CallsGoOn, InCall, Loop, Write, Rename, Judge, Quarantine, LoopAgain, WriteAgain,
     RenameAgain, Winning
<1> HIDE DEF E, F, O, S, A, B
<1>6. FairSpec => Spec /\ Fair(p)
  BY Zenon DEF FairSpec
<1>7. Spec /\ []CallsGoOn /\ Fair(p) => (E ~> Decided(p))
  BY <1>1, <1>4, <1>5, PTL DEF Spec, Fair
<1>8. Spec /\ []CallsGoOn /\ Fair(p) => (Quarantine(p) ~> E \/ Decided(p))
  BY <1>1, <1>2, <1>3, <1>5, PTL DEF Spec, Fair
<1>9. Spec /\ []CallsGoOn /\ Fair(p) => (Loop(p) ~> E \/ Quarantine(p) \/ Decided(p))
  BY <1>1, <1>2, <1>5, PTL DEF Spec, Fair
<1>10. Loop(p) <=> Alone(p) /\ Removable
  BY DEF Loop, Alone, Left
<1>11. QED
  BY <1>6, <1>7, <1>8, <1>9, <1>10, PTL DEF AcquiresAlone

\* Processes that die at any step of acquireOwnerLock or of its cleanup do not lock the
\* project out.
THEOREM NotLockedOut == FairSpec /\ []CallsGoOn => LoneContenderAcquires
<1> DEFINE Given == FairSpec /\ []CallsGoOn
<1>1. ASSUME NEW p \in Contender PROVE Given => AcquiresAlone(p)
  BY LoneAcquires
<1> HIDE DEF Given
<1>2. Given => LoneContenderAcquires
  BY <1>1, Zenon DEF LoneContenderAcquires
<1>3. QED
  BY <1>2 DEF Given

=============================================================================
