--------------------------- MODULE PaneSlugs_proofs ---------------------------
(***************************************************************************)
(* Proofs about PaneSlugs, for any creations, pollers, panes, target       *)
(* projects and bounds: its type invariant and all its safety properties.  *)
(*                                                                         *)
(* The strengthening says what each point of a process knows.  A process at*)
(* work on its own reservation finds its record provisional there, for     *)
(* nobody else touches it while the process lives (AtWork).  A reconciler  *)
(* that has compared the record holds the slug lock until it has written it*)
(* (Locked).  A name is free of other owners until it is written (Named-   *)
(* Freely), and whatever a marker protected is gone or saved by the time it*)
(* is removed (Cleared).  A pane that nobody accounts for stays so         *)
(* (Strays), and a poller adopts such panes and those whose record it has  *)
(* passed over.                                                            *)
(*                                                                         *)
(* What concerns one process or one record is proved action by action: the *)
(* parts of the invariant (LivesStep, ...), and what any step may do to a  *)
(* record, a marker, the configuration, a choice (RecordMove, MarkerMove,  *)
(* ...).  What relates several of them follows from these moves alone.     *)
(*                                                                         *)
(* Whoever holds a lock lives and is between taking it and letting go      *)
(* (Holders), so locks never wait in a circle.                             *)
(***************************************************************************)
EXTENDS PaneSlugs, TLAPS

\* Processes end once.
Lives == \A p \in Claimant : p \in alive <=> pc[p] # "dead"

\* Whose record a process settles: its own, or one of a process that is no more.
SettlesOf(p) ==
    /\ subject[p] # p =>
         /\ pc[p] \in {"judge", "clear", "unblock", "mark", "shut", "stamp"}
         /\ phase[p] \in {"gate", "reserve"}
         /\ todo[p][subject[p]] \in Provisional
         /\ subject[p] \notin alive
    /\ pc[p] = "judge" => subject[p] # p

Settles == \A p \in Claimant : SettlesOf(p)

\* Which parts of an operation its steps belong to.
PartOf(p) ==
    /\ pc[p] = "idle" => phase[p] = "reserve"
    /\ pc[p] \in {"list", "reconcile"} => phase[p] \in {"gate", "reserve"}
    /\ pc[p] \in {"choose", "write"} => phase[p] = "reserve"
    /\ pc[p] \in {"gate", "decide"} => phase[p] = "gate"
    /\ pc[p] = "settle" => phase[p] \in {"settle", "blind"}
    /\ phase[p] = "create" =>
         pc[p] \in {"allocate", "bindRead", "bindWrite", "build", "persist", "complete",
                    "unblock", "failed", "ended", "poll"}

Parts == \A p \in Claimant : PartOf(p)

\* At work on its own reservation a process finds it provisional.
Working(p) ==
    \/ pc[p] \in {"allocate", "bindRead", "bindWrite", "build", "persist", "complete",
                  "failed", "teardown", "retain"}
    \/ pc[p] \in {"clear", "mark", "shut"} /\ subject[p] = p

AtWorkOn(p) ==
    Working(p) => record[p] \in Provisional /\ phase[p] \notin {"gate", "reserve"}

AtWork == \A p \in Claimant : AtWorkOn(p)

\* What is done under the slug lock.
Holds(p) ==
    /\ pc[p] \in {"write", "stamp"} => slugLock = p
    /\ pc[p] = "shut" /\ subject[p] # p =>
         slugLock = p /\ record[subject[p]] = todo[p][subject[p]]

Locked ==
    /\ \A p \in Claimant : Holds(p)
    /\ acking # None => slugLock = "operator" /\ record[acking] = "none" /\ acking \in acked

\* Before it has its reservation a process owns nothing, and a creation no pane.
UnreservedOf(p) ==
    p \in alive /\ phase[p] = "reserve" => ~Owns(p) /\ (p \in Creation => got[p] = "nothing")

Unreserved == \A p \in Claimant : UnreservedOf(p)

\* A poller that has chosen no pane yet has not begun to reserve.
UntargetedOf(a) ==
    /\ target[a] = None =>
         ~Owns(a) /\ (phase[a] = "gate" \/ pc[a] \in {"poll", "saved", "dead"})
    /\ pc[a] = "saved" => target[a] = None

Untargeted == \A a \in Adoption : UntargetedOf(a)

\* A name that is about to be written is nobody else's.
NamedFreely ==
    \A p, q \in Claimant : pc[p] = "write" /\ p # q /\ Owns(q) => slug[q] # slug[p]

\* A marker is published before its record and removed when nothing needs it.
ClearedBy(p) ==
    /\ pc[p] = "write" => marker[p] # "none"
    /\ pc[p] \in {"clear", "unblock"} /\ subject[p] \in Creation =>
         subject[p] \notin panes \/ subject[p] \in config
    /\ pc[p] = "unblock" => record[subject[p]] = "none"

Cleared == \A p \in Claimant : ClearedBy(p)

\* A creation that lives and has no pane yet has split none.
Unsplit ==
    \A c \in Creation \cap alive : got[c] = "nothing" =>
        c \notin panes /\ \A a \in Adoption : c \notin seen[a] /\ c # target[a]

\* Nobody accounts for the pane of a creation, and nobody will.
Stray(c) ==
    /\ c \in alive => got[c] # "nothing"
    /\ \/ record[c] \in {"none", "unresolved"}
       \/ record[c] = "reserved" /\ c \notin alive

Strays ==
    \A a \in Adoption :
        /\ pc[a] = "saved" => \A c \in (seen[a] \cap Creation) \ passed[a] : Stray(c)
        /\ target[a] \in Creation \ passed[a] => Stray(target[a]) /\ target[a] \notin config

IInv ==
    /\ TypeOK /\ Lives /\ Settles /\ Parts /\ AtWork /\ Locked /\ Unreserved /\ Untargeted
    /\ NamedFreely /\ Cleared /\ Unsplit /\ Strays
    /\ UniqueSlug /\ CleanupFailsClosed

USE DEF Provisional, Quarantined, files, locks, choice, local, bounds

LEMMA TypeInit == Init => TypeOK
BY ClaimantsAssumption, HomeAssumption, BoundsAssumption DEF Init, TypeOK, Nothing, Record, Stage, Part, Claimant, Pane

LEMMA ThrowType ==
  ASSUME TypeOK, NEW p \in Claimant, Throw(p)
  PROVE  pc' \in [Claimant -> Stage] /\ phase' \in [Claimant -> Part]
<1>1. Over(p) \in Stage
  BY DEF Over, Stage
<1>2. /\ {"failed", "settle", "mark"} \subseteq Stage
      /\ {"create", "blind", "settle", "compensate"} \cup {phase[p]} \subseteq Part
  BY DEF TypeOK, Stage, Part
<1>3. ThrownTo(p)[1] \in Stage /\ ThrownTo(p)[2] \in Part
  BY <1>1, <1>2 DEF ThrownTo
<1>4. QED
  BY <1>3 DEF TypeOK, Throw

LEMMA OnwardType ==
  ASSUME TypeOK, NEW p \in Claimant, NEW r \in Claimant, Onward(p, r)
  PROVE  /\ pc' \in [Claimant -> Stage] /\ subject' \in [Claimant -> Claimant]
         /\ todo' \in [Claimant -> [Claimant -> Record]]
BY DEF TypeOK, Onward, Stage, Record

LEMMA FaultType ==
  ASSUME TypeOK, Fault \/ UNCHANGED bounds
  PROVE  faults' \in 0..MaxFaults /\ crashes' \in 0..MaxCrashes
BY BoundsAssumption DEF TypeOK, Fault

LEMMA LockType ==
  ASSUME TypeOK, NEW p \in Claimant \cup {"operator"}, NEW r \in Claimant,
         Lock(p, r) \/ Unlock(p) \/ UNCHANGED locks
  PROVE  /\ targetLock' \in [Project -> Claimant \cup {None, "operator"}]
         /\ slugLock' \in Claimant \cup {None, "operator"}
BY HomeAssumption DEF TypeOK, Lock, Unlock

LEMMA ReconcilingTypes ==
  ASSUME TypeOK, NEW p \in Claimant,
         List(p) \/ (\E r \in Claimant : Ensure(p, r)) \/ Reconciled(p) \/ Judge(p)
  PROVE  TypeOK'
<1> USE DEF locks, local, files, bounds
<1> Over(p) \in Stage
  BY DEF Over, Stage
<1>1. CASE List(p)
  BY <1>1 DEF TypeOK, List, Goto, Stage
<1>2. CASE \E r \in Claimant : Ensure(p, r)
  <2>1. PICK r \in Claimant : Ensure(p, r)
    BY <1>2
  <2>2. marker' \in [Claimant -> {"none", "provisional", "quarantined"}]
    BY <2>1 DEF TypeOK, Ensure, MarkerFor
  <2>3. /\ pc' \in [Claimant -> Stage] /\ subject' \in [Claimant -> Claimant]
        /\ todo' \in [Claimant -> [Claimant -> Record]]
    <3>1. CASE Stale(p, r)
      <4>1. "judge" \in Stage
        BY DEF Stage
      <4>2. QED
        BY <2>1, <3>1, <4>1 DEF TypeOK, Ensure
    <3>2. CASE ~Stale(p, r)
      BY <2>1, <3>2, OnwardType DEF Ensure
    <3>3. QED
      BY <3>1, <3>2
  <2>4. QED
    BY <2>1, <2>2, <2>3 DEF TypeOK, Ensure
<1>3. CASE Reconciled(p)
  BY <1>3 DEF TypeOK, Reconciled, Goto, Stage
<1>4. CASE Judge(p)
  <2>1. pc' \in [Claimant -> Stage]
    <3>1. PICK t \in {"clear", "mark"} : pc' = [pc EXCEPT ![p] = t]
      BY <1>4 DEF Judge, Goto
    <3>2. QED
      BY <3>1 DEF TypeOK, Stage
  <2>2. QED
    BY <1>4, <2>1 DEF TypeOK, Judge
<1>5. QED
  BY <1>1, <1>2, <1>3, <1>4

LEMMA ReservingTypes ==
  ASSUME TypeOK, NEW p \in Claimant,
         Choose(p) \/ Write(p) \/ Allocate(p) \/ BindRead(p) \/ BindWrite(p) \/ Build(p)
         \/ Persist(p) \/ Complete(p)
  PROVE  TypeOK'
<1> USE DEF locks, local, files, bounds
<1> Over(p) \in Stage
  BY DEF Over, Stage
<1>1. CASE Choose(p)
  <2>1. slug' \in [Claimant -> 0..Attempts]
    <3>1. slug' = slug \/ \E n \in 0..Attempts : slug' = [slug EXCEPT ![p] = n]
      BY <1>1, BoundsAssumption DEF Choose, Names
    <3>2. QED
      BY <3>1 DEF TypeOK
  <2>2. marker' \in [Claimant -> {"none", "provisional", "quarantined"}]
    BY <1>1 DEF TypeOK, Choose
  <2>3. pc' \in [Claimant -> Stage]
    <3>1. PICK t \in {"write", Over(p)} : pc' = [pc EXCEPT ![p] = t]
      BY <1>1 DEF Choose
    <3>2. QED
      BY <3>1 DEF TypeOK, Stage, Over
  <2>4. /\ targetLock' \in [Project -> Claimant \cup {None, "operator"}]
        /\ slugLock' \in Claimant \cup {None, "operator"}
    BY <1>1, LockType DEF Choose
  <2>5. QED
    BY <1>1, <2>1, <2>2, <2>3, <2>4 DEF TypeOK, Choose
<1>2. CASE Write(p)
  BY <1>2 DEF TypeOK, Write, Goto, Unlock, Record, Stage, Part
<1>3. CASE Allocate(p)
  BY <1>3 DEF TypeOK, Allocate, Goto, Pane, Stage
<1>4. CASE BindRead(p)
  <2>1. pc' \in [Claimant -> Stage] /\ phase' \in [Claimant -> Part]
    BY <1>4, ThrowType DEF TypeOK, BindRead, Stage
  <2>2. QED
    BY <1>4, <2>1 DEF TypeOK, BindRead
<1>5. CASE BindWrite(p)
  BY <1>5 DEF TypeOK, BindWrite, Goto, Record, Stage
<1>6. CASE Build(p)
  BY <1>6 DEF TypeOK, Build, Goto, Stage
<1>7. CASE Persist(p)
  <2>1. pc' \in [Claimant -> Stage] /\ phase' \in [Claimant -> Part]
    <3>1. CASE Throw(p)
      BY <3>1, ThrowType
    <3>2. CASE pc' = [pc EXCEPT ![p] = "complete"] /\ UNCHANGED phase
      BY <3>2 DEF TypeOK, Stage
    <3>3. QED
      BY <1>7, <3>1, <3>2 DEF Persist
  <2>2. faults' \in 0..MaxFaults /\ crashes' \in 0..MaxCrashes
    BY <1>7, FaultType DEF Persist
  <2>3. QED
    BY <1>7, <2>1, <2>2 DEF TypeOK, Persist
<1>8. CASE Complete(p)
  <2>1. pc' \in [Claimant -> Stage] /\ phase' \in [Claimant -> Part]
    <3>1. CASE Throw(p)
      BY <3>1, ThrowType
    <3>2. CASE pc' = [pc EXCEPT ![p] = "unblock"] /\ UNCHANGED phase
      BY <3>2 DEF TypeOK, Stage
    <3>3. QED
      BY <1>8, <3>1, <3>2 DEF Complete
  <2>2. record' \in [Claimant -> Record]
    BY <1>8 DEF TypeOK, Complete, Record
  <2>3. QED
    BY <1>8, <2>1, <2>2 DEF TypeOK, Complete
<1>9. QED
  BY <1>1, <1>2, <1>3, <1>4, <1>5, <1>6, <1>7, <1>8

LEMMA MarkedType ==
  ASSUME TypeOK, NEW p \in Claimant, Marked(p)
  PROVE  /\ pc' \in [Claimant -> Stage] /\ phase' \in [Claimant -> Part]
         /\ subject' \in [Claimant -> Claimant] /\ todo' \in [Claimant -> [Claimant -> Record]]
<1>1. CASE subject[p] # p
  BY <1>1, OnwardType DEF TypeOK, Marked
<1>2. CASE subject[p] = p
  <2>1. PICK t \in {"settle", Over(p)} : pc' = [pc EXCEPT ![p] = t]
    BY <1>2 DEF Marked
  <2>2. pc' \in [Claimant -> Stage]
    BY <2>1 DEF TypeOK, Over, Stage
  <2>3. phase' \in [Claimant -> Part]
    BY <1>2 DEF Marked, TypeOK, Part
  <2>4. QED
    BY <1>2, <2>2, <2>3 DEF Marked, TypeOK
<1>3. QED
  BY <1>1, <1>2

LEMMA SettlingTypes ==
  ASSUME TypeOK, NEW p \in Claimant, Clear(p) \/ Unblock(p) \/ Mark(p) \/ Shut(p) \/ Stamp(p)
  PROVE  TypeOK'
<1> USE DEF locks, local, files, bounds
<1> Over(p) \in Stage
  BY DEF Over, Stage
<1>1. CASE Clear(p)
  <2>1. record' \in [Claimant -> Record]
    BY <1>1 DEF TypeOK, Clear, Record
  <2>2. /\ pc' \in [Claimant -> Stage] /\ phase' \in [Claimant -> Part]
        /\ subject' \in [Claimant -> Claimant] /\ todo' \in [Claimant -> [Claimant -> Record]]
    <3>1. CASE Throw(p) /\ UNCHANGED <<todo, subject>>
      BY <3>1, ThrowType DEF TypeOK
    <3>2. CASE Onward(p, subject[p]) /\ UNCHANGED phase
      BY <3>2, OnwardType DEF TypeOK
    <3>3. CASE pc' = [pc EXCEPT ![p] = "unblock"] /\ UNCHANGED <<phase, todo, subject>>
      BY <3>3 DEF TypeOK, Stage
    <3>4. QED
      BY <1>1, <3>1, <3>2, <3>3 DEF Clear
  <2>3. QED
    BY <1>1, <2>1, <2>2 DEF TypeOK, Clear
<1>2. CASE Unblock(p)
  <2>1. /\ pc' \in [Claimant -> Stage]
        /\ subject' \in [Claimant -> Claimant] /\ todo' \in [Claimant -> [Claimant -> Record]]
    <3>1. CASE Onward(p, subject[p])
      BY <3>1, OnwardType DEF TypeOK
    <3>2. CASE pc' = [pc EXCEPT ![p] = Over(p)] /\ UNCHANGED <<todo, subject>>
      BY <3>2 DEF TypeOK, Over, Stage
    <3>3. QED
      BY <1>2, <3>1, <3>2 DEF Unblock
  <2>2. QED
    BY <1>2, <2>1 DEF TypeOK, Unblock
<1>3. CASE Mark(p)
  <2>1. /\ pc' \in [Claimant -> Stage]
        /\ subject' \in [Claimant -> Claimant] /\ todo' \in [Claimant -> [Claimant -> Record]]
    <3>1. CASE Onward(p, subject[p])
      BY <3>1, OnwardType DEF TypeOK
    <3>2. CASE pc' = [pc EXCEPT ![p] = "shut"] /\ UNCHANGED <<todo, subject>>
      BY <3>2 DEF TypeOK, Stage
    <3>3. QED
      BY <1>3, <3>1, <3>2 DEF Mark
  <2>2. /\ targetLock' \in [Project -> Claimant \cup {None, "operator"}]
        /\ slugLock' \in Claimant \cup {None, "operator"}
    <3>1. CASE targetLock' = [targetLock EXCEPT ![Home[p]] = p] /\ UNCHANGED slugLock
      BY <3>1, HomeAssumption DEF TypeOK
    <3>2. CASE Lock(p, subject[p]) \/ UNCHANGED locks
      BY <3>2, LockType DEF TypeOK
    <3>3. QED
      BY <1>3, <3>1, <3>2 DEF Mark
  <2>3. marker' \in [Claimant -> {"none", "provisional", "quarantined"}]
    BY <1>3 DEF TypeOK, Mark
  <2>4. QED
    BY <1>3, <2>1, <2>2, <2>3 DEF TypeOK, Mark
<1>4. CASE Shut(p)
  <2>1. /\ pc' \in [Claimant -> Stage] /\ phase' \in [Claimant -> Part]
        /\ subject' \in [Claimant -> Claimant] /\ todo' \in [Claimant -> [Claimant -> Record]]
    <3>1. CASE Marked(p)
      BY <3>1, MarkedType
    <3>2. CASE pc' = [pc EXCEPT ![p] = "stamp"] /\ UNCHANGED <<phase, todo, subject>>
      BY <3>2 DEF TypeOK, Stage
    <3>3. QED
      BY <1>4, <3>1, <3>2 DEF Shut
  <2>2. /\ targetLock' \in [Project -> Claimant \cup {None, "operator"}]
        /\ slugLock' \in Claimant \cup {None, "operator"}
    BY <1>4, LockType DEF TypeOK, Shut
  <2>3. faults' \in 0..MaxFaults /\ crashes' \in 0..MaxCrashes
    BY <1>4, FaultType DEF Shut
  <2>4. record' \in [Claimant -> Record]
    <3>1. PICK x \in {"quarantined", "unresolved"} :
            record' = record \/ record' = [record EXCEPT ![subject[p]] = x]
      BY <1>4 DEF Shut
    <3>2. QED
      BY <3>1 DEF TypeOK, Record
  <2>5. QED
    BY <1>4, <2>1, <2>2, <2>3, <2>4 DEF TypeOK, Shut
<1>5. CASE Stamp(p)
  <2>1. /\ pc' \in [Claimant -> Stage] /\ phase' \in [Claimant -> Part]
        /\ subject' \in [Claimant -> Claimant] /\ todo' \in [Claimant -> [Claimant -> Record]]
    BY <1>5, MarkedType DEF TypeOK, Stamp
  <2>2. /\ targetLock' \in [Project -> Claimant \cup {None, "operator"}]
        /\ slugLock' \in Claimant \cup {None, "operator"}
    BY <1>5, LockType DEF TypeOK, Stamp
  <2>3. faults' \in 0..MaxFaults /\ crashes' \in 0..MaxCrashes
    BY <1>5, FaultType DEF Stamp
  <2>4. marker' \in [Claimant -> {"none", "provisional", "quarantined"}]
    BY <1>5 DEF TypeOK, Stamp
  <2>5. QED
    BY <1>5, <2>1, <2>2, <2>3, <2>4 DEF TypeOK, Stamp
<1>6. QED
  BY <1>1, <1>2, <1>3, <1>4, <1>5

LEMMA FailingTypes ==
  ASSUME TypeOK, NEW p \in Claimant, Failed(p) \/ Teardown(p) \/ Retain(p) \/ Settle(p)
  PROVE  TypeOK'
<1> USE DEF locks, local, files, bounds
<1> Over(p) \in Stage
  BY DEF Over, Stage
<1>1. CASE Failed(p)
  <2>1. pc' \in [Claimant -> Stage] /\ phase' \in [Claimant -> Part]
    <3>1. PICK s \in {"complete", "settle", "teardown"}, t \in {"durable", "settle", "compensate"} :
            pc' = [pc EXCEPT ![p] = s] /\ phase' = [phase EXCEPT ![p] = t]
      BY <1>1 DEF Failed, Goto
    <3>2. s \in Stage /\ t \in Part
      BY DEF Stage, Part
    <3>3. QED
      BY <3>1, <3>2 DEF TypeOK
  <2>2. faults' \in 0..MaxFaults /\ crashes' \in 0..MaxCrashes
    BY <1>1, FaultType DEF Failed, bounds
  <2>3. QED
    BY <1>1, <2>1, <2>2 DEF TypeOK, Failed
<1>2. CASE Teardown(p)
  <2>1. PICK s \in {"clear", "retain", "mark"} : pc' = [pc EXCEPT ![p] = s]
    BY <1>2 DEF Teardown, Goto
  <2>2. pc' \in [Claimant -> Stage] /\ panes' \subseteq Pane
    BY <1>2, <2>1 DEF TypeOK, Stage, Teardown
  <2>3. QED
    BY <1>2, <2>2 DEF TypeOK, Teardown
<1>3. CASE Retain(p)
  <2>1. pc' \in [Claimant -> Stage] /\ phase' \in [Claimant -> Part]
    <3>1. CASE Throw(p)
      BY <3>1, ThrowType
    <3>2. CASE pc' = [pc EXCEPT ![p] = "settle"] /\ phase' = [phase EXCEPT ![p] = "settle"]
      BY <3>2 DEF TypeOK, Stage, Part
    <3>3. QED
      BY <1>3, <3>1, <3>2 DEF Retain
  <2>2. QED
    BY <1>3, <2>1 DEF TypeOK, Retain
<1>4. CASE Settle(p)
  <2>1. pc' \in [Claimant -> Stage] /\ phase' \in [Claimant -> Part]
    <3>1. PICK s \in {Over(p), "complete", "clear", "mark", "teardown"} : pc' = [pc EXCEPT ![p] = s]
      BY <1>4 DEF Settle
    <3>2. s \in Stage
      BY DEF Stage, Over
    <3>3. QED
      BY <1>4, <3>1, <3>2 DEF TypeOK, Settle
  <2>2. faults' \in 0..MaxFaults /\ crashes' \in 0..MaxCrashes
    BY <1>4, FaultType DEF Settle, bounds
  <2>3. QED
    BY <1>4, <2>1, <2>2 DEF TypeOK, Settle
<1>5. QED
  BY <1>1, <1>2, <1>3, <1>4

LEMMA DecisionType ==
  ASSUME TypeOK, NEW a \in Adoption, NEW part \in Part, Decision(a, part)
  PROVE  /\ pc' \in [Claimant -> Stage] /\ phase' \in [Claimant -> Part]
         /\ seen' \in [Adoption -> SUBSET Pane] /\ passed' \in [Adoption -> SUBSET Creation]
         /\ faults' \in 0..MaxFaults /\ crashes' \in 0..MaxCrashes
<1>1. PICK s \in {"poll", "saved"} : pc' = [pc EXCEPT ![a] = s]
  BY DEF Decision
<1>2. pc' \in [Claimant -> Stage]
  BY <1>1 DEF TypeOK, Stage, Claimant
<1>3. PICK left \in SUBSET Pane : seen' = [seen EXCEPT ![a] = left]
  BY DEF Decision, TypeOK
<1>4. passed' \in [Adoption -> SUBSET Creation]
  <2>1. PICK some \in SUBSET Creation : passed' \in {passed, [passed EXCEPT ![a] = some]}
    BY DEF Decision
  <2>2. QED
    BY <2>1 DEF TypeOK
<1>5. phase' \in [Claimant -> Part]
  BY DEF Decision, TypeOK
<1>6. faults' \in 0..MaxFaults /\ crashes' \in 0..MaxCrashes
  BY FaultType DEF Decision, TypeOK
<1>7. seen' \in [Adoption -> SUBSET Pane]
  BY <1>3 DEF TypeOK
<1>8. QED
  BY <1>2, <1>4, <1>5, <1>6, <1>7

LEMMA PollingTypes ==
  ASSUME TypeOK, NEW a \in Adoption, Polling(a)
  PROVE  TypeOK'
<1> USE DEF locks, local, files, bounds
<1> a \in Claimant
  BY DEF Claimant
<1>1. CASE Poll(a)
  <2>1. PICK known : seen' = [seen EXCEPT ![a] = panes \ known]
    BY <1>1 DEF Poll
  <2>2. seen' \in [Adoption -> SUBSET Pane]
    BY <2>1 DEF TypeOK
  <2>3. pc' \in [Claimant -> Stage] /\ phase' \in [Claimant -> Part]
    BY <1>1 DEF Poll, Goto, TypeOK, Stage, Part
  <2>4. QED
    BY <1>1, <2>2, <2>3 DEF TypeOK, Poll
<1>2. CASE Gate(a)
  <2>1. CASE Decision(a, "reserve")
    <3>1. "reserve" \in Part
      BY DEF Part
    <3>2. QED
      BY <1>2, <2>1, <3>1, DecisionType DEF TypeOK, Gate
  <2>2. CASE pc' = [pc EXCEPT ![a] = "list"] /\ UNCHANGED <<phase, seen, passed, bounds>>
    BY <1>2, <2>2 DEF TypeOK, Gate, Stage
  <2>3. QED
    BY <1>2, <2>1, <2>2 DEF Gate
<1>3. CASE Decide(a)
  <2>1. "gate" \in Part
    BY DEF Part
  <2>2. QED
    BY <1>3, <2>1, DecisionType DEF TypeOK, Decide
<1>4. CASE ReadSaved(a)
  <2>1. target' \in [Adoption -> Pane \cup {None}] /\ seen' \in [Adoption -> SUBSET Pane]
    <3>1. seen[a] \subseteq Pane
      BY DEF TypeOK
    <3>2. PICK x \in Pane \cup {None} : target' = target \/ target' = [target EXCEPT ![a] = x]
      BY <1>4, <3>1 DEF ReadSaved
    <3>3. target' \in [Adoption -> Pane \cup {None}]
      BY <3>2 DEF TypeOK
    <3>4. seen' \in [Adoption -> SUBSET Pane]
      BY <1>4 DEF TypeOK, ReadSaved
    <3>5. QED
      BY <3>3, <3>4
  <2>2. PICK s \in {"choose", "list", "poll"} : pc' = [pc EXCEPT ![a] = s]
    BY <1>4 DEF ReadSaved
  <2>3. s \in Stage /\ "reserve" \in Part
    BY DEF Stage, Part
  <2>4. pc' \in [Claimant -> Stage]
    BY <2>2, <2>3 DEF TypeOK
  <2>5. phase' \in [Claimant -> Part]
    <3>1. phase' = phase \/ phase' = [phase EXCEPT ![a] = "reserve"]
      BY <1>4 DEF ReadSaved
    <3>2. QED
      BY <2>3, <3>1 DEF TypeOK
  <2>6. QED
    BY <1>4, <2>1, <2>4, <2>5 DEF TypeOK, ReadSaved
<1>5. QED
  BY <1>1, <1>2, <1>3, <1>4 DEF Polling

LEMMA OtherTypes ==
  ASSUME TypeOK,
         \/ \E p \in Claimant : Raise(p) \/ Die(p) \/ AckRecord(p) \/ Forget(p)
         \/ \E c \in Creation : Start(c)
         \/ AckMarker
         \/ \E x \in Pane : PaneDies(x)
  PROVE  TypeOK'
<1> USE DEF locks, local, files, bounds
<1>0. Nothing \in [Claimant -> Record]
  BY DEF Nothing, Record
<1>1. ASSUME NEW p \in Claimant, Raise(p)
      PROVE  TypeOK'
  <2>1. pc' \in [Claimant -> Stage] /\ phase' \in [Claimant -> Part]
    BY <1>1, ThrowType DEF Raise
  <2>2. faults' \in 0..MaxFaults /\ crashes' \in 0..MaxCrashes
    BY <1>1, FaultType DEF Raise
  <2>3. /\ targetLock' \in [Project -> Claimant \cup {None, "operator"}]
        /\ slugLock' \in Claimant \cup {None, "operator"}
    BY <1>1, LockType DEF Raise
  <2>4. todo' \in [Claimant -> [Claimant -> Record]] /\ subject' \in [Claimant -> Claimant]
    BY <1>0, <1>1 DEF Raise, TypeOK
  <2>5. QED
    BY <1>1, <2>1, <2>2, <2>3, <2>4 DEF TypeOK, Raise
<1>2. ASSUME NEW p \in Claimant, Die(p)
      PROVE  TypeOK'
  <2>1. pc' \in [Claimant -> Stage] /\ phase' \in [Claimant -> Part]
    BY <1>2 DEF Die, TypeOK, Stage, Part
  <2>2. crashes' \in 0..MaxCrashes
    BY <1>2, BoundsAssumption DEF Die, TypeOK
  <2>3. /\ targetLock' \in [Project -> Claimant \cup {None, "operator"}]
        /\ slugLock' \in Claimant \cup {None, "operator"}
    BY <1>2, LockType DEF Die
  <2>4. todo' \in [Claimant -> [Claimant -> Record]] /\ subject' \in [Claimant -> Claimant]
    BY <1>0, <1>2 DEF Die, TypeOK
  <2>5. /\ seen' \in [Adoption -> SUBSET Pane] /\ got' \in [Claimant -> {"nothing", "pane", "record"}]
        /\ alive' \subseteq Claimant
    BY <1>2 DEF Die, TypeOK
  <2>6. QED
    BY <1>2, <2>1, <2>2, <2>3, <2>4, <2>5 DEF TypeOK, Die
<1>3. ASSUME NEW r \in Claimant, AckRecord(r)
      PROVE  TypeOK'
  <2>1. /\ targetLock' \in [Project -> Claimant \cup {None, "operator"}]
        /\ slugLock' \in Claimant \cup {None, "operator"}
    BY <1>3, LockType DEF AckRecord
  <2>2. record' \in [Claimant -> Record]
    BY <1>3 DEF AckRecord, TypeOK, Record
  <2>3. QED
    BY <1>3, <2>1, <2>2 DEF TypeOK, AckRecord
<1>4. ASSUME NEW r \in Claimant, Forget(r)
      PROVE  TypeOK'
  BY <1>4 DEF TypeOK, Forget
<1>5. ASSUME NEW c \in Creation, Start(c)
      PROVE  TypeOK'
  <2>1. pc' \in [Claimant -> Stage]
    BY <1>5 DEF Start, Goto, TypeOK, Stage
  <2>2. QED
    BY <1>5, <2>1 DEF TypeOK, Start
<1>6. CASE AckMarker
  <2>1. acking \in Claimant
    BY <1>6 DEF AckMarker, TypeOK
  <2>2. /\ targetLock' \in [Project -> Claimant \cup {None, "operator"}]
        /\ slugLock' \in Claimant \cup {None, "operator"}
    BY <1>6, <2>1, LockType DEF AckMarker
  <2>3. QED
    BY <1>6, <2>2 DEF TypeOK, AckMarker
<1>7. ASSUME NEW x \in Pane, PaneDies(x)
      PROVE  TypeOK'
  BY <1>7 DEF TypeOK, PaneDies
<1>8. QED
  BY <1>1, <1>2, <1>3, <1>4, <1>5, <1>6, <1>7

LEMMA TypeStep == TypeOK /\ [Next]_vars => TypeOK'
<1>1. ASSUME TypeOK, UNCHANGED vars
      PROVE  TypeOK'
  BY <1>1 DEF TypeOK, vars, files, locks, local, bounds
<1>2. QED
  BY <1>1, ReconcilingTypes, ReservingTypes, SettlingTypes, FailingTypes, PollingTypes, OtherTypes
  DEF Next, Step

-----------------------------------------------------------------------------
(* What the steps that several operations share do. *)

\* Where an exception leads.
ThrownMove(p, s, t) ==
    /\ pc' = [pc EXCEPT ![p] = s] /\ phase' = [phase EXCEPT ![p] = t]
    /\ \/ s = Over(p) /\ t = phase[p]
       \/ s = "failed" /\ t = "create" /\ phase[p] = "create" /\ pc[p] # "unblock"
       \/ s = "settle" /\ t \in {"blind", "settle"} /\ phase[p] \in {"create", "durable", "compensate"}
       \/ s = "mark" /\ t = "compensate" /\ phase[p] = "compensate" /\ pc[p] = "retain"

LEMMA ThrowMoves ==
  ASSUME TypeOK, NEW p \in Claimant, Throw(p)
  PROVE  \E s \in Stage, t \in Part : ThrownMove(p, s, t)
<1> DEFINE s == ThrownTo(p)[1]
           t == ThrownTo(p)[2]
<1>1. \/ s = Over(p) /\ t = phase[p]
      \/ s = "failed" /\ t = "create" /\ phase[p] = "create" /\ pc[p] # "unblock"
      \/ s = "settle" /\ t \in {"blind", "settle"} /\ phase[p] \in {"create", "durable", "compensate"}
      \/ s = "mark" /\ t = "compensate" /\ phase[p] = "compensate" /\ pc[p] = "retain"
  BY DEF ThrownTo
<1>2. s \in Stage /\ t \in Part
  <2>1. phase[p] \in Part
    BY DEF TypeOK
  <2>2. QED
    BY <1>1, <2>1 DEF Over, Stage, Part
<1>3. QED
  BY <1>1, <1>2 DEF Throw, ThrownMove

\* An exception leads no process to judge a record.
LEMMA ThrowsElsewhere ==
  ASSUME TypeOK, NEW p \in Claimant, Throw(p)
  PROVE  \E s \in Stage \ {"judge"} : pc' = [pc EXCEPT ![p] = s]
<1>1. PICK s \in Stage, t \in Part : ThrownMove(p, s, t)
  BY ThrowMoves
<1>2. s # "judge"
  BY <1>1 DEF ThrownMove, Over
<1>3. QED
  BY <1>1, <1>2 DEF ThrownMove

\* Where a process goes on after a quarantine.
LEMMA MarkedMoves ==
  ASSUME TypeOK, NEW p \in Claimant, Marked(p)
  PROVE  \/ /\ subject[p] # p
            /\ pc' = [pc EXCEPT ![p] = "reconcile"] /\ subject' = [subject EXCEPT ![p] = p]
            /\ todo' = [todo EXCEPT ![p][subject[p]] = "none"] /\ UNCHANGED phase
         \/ /\ subject[p] = p /\ UNCHANGED <<todo, subject>>
            /\ \/ pc' = [pc EXCEPT ![p] = Over(p)] /\ UNCHANGED phase
               \/ /\ pc' = [pc EXCEPT ![p] = "settle"] /\ phase' = [phase EXCEPT ![p] = "settle"]
                  /\ phase[p] = "compensate"
BY DEF Marked, Onward

\* What a step may do to a record.
RecordMove(r) ==
    \/ record'[r] = record[r]
    \/ pc[r] = "write" /\ record'[r] = "reserved" /\ pc'[r] = "allocate"
    \/ pc[r] = "bindWrite" /\ record'[r] = "bound" /\ pc'[r] = "build"
    \/ Working(r) /\ record'[r] \in {"none", "quarantined"} /\ pc'[r] \in {"unblock", "stamp"}
    \/ r \notin alive /\ record[r] = "bound" /\ record'[r] \in {"none", "quarantined"}
    \/ r \notin alive /\ record[r] = "reserved" /\ record'[r] \in {"none", "unresolved"}
    \/ record[r] \notin Provisional /\ record'[r] = "none"

\* What a step may do to a marker.
MarkerMove(r) ==
    \/ marker[r] # "none" => marker'[r] # "none"
    \/ \E p \in Claimant : pc[p] = "unblock" /\ subject[p] = r
    \/ acking = r

\* What a step may do to what is saved.
ConfigMove(r) ==
    /\ r \in config' => r \in config \/ Working(r)
    /\ r \in config => PaneOf(r) \notin panes' \/ (r \in config' /\ PaneOf(r)' = PaneOf(r))

\* What a step may do to names.
SlugMove ==
    \/ \E p \in Claimant : Choose(p)
    \/ slug' = slug /\ \A p \in Claimant : pc'[p] = "write" => pc[p] = "write"

\* What a step may do to the choice of a pane to adopt.
TargetMove(a) ==
    /\ \/ target'[a] = target[a] /\ (target[a] = None \/ passed'[a] = passed[a])
       \/ /\ pc[a] = "saved" /\ target'[a] \in seen[a] \ Saved /\ passed'[a] = passed[a]
          /\ UNCHANGED <<config, record, alive, got>>
    /\ pc'[a] = "saved" =>
         \/ pc[a] = "saved" /\ seen'[a] = seen[a] /\ passed'[a] = passed[a]
         \/ /\ seen'[a] \subseteq seen[a] /\ UNCHANGED <<record, alive, got>>
            /\ \E late \in SUBSET alive :
                 /\ seen'[a] \cap Named(late) = {} /\ ~Deferred(late)
                 /\ (seen'[a] \cap Creation) \cap late \subseteq passed'[a]

\* What a step may do to a creation and its pane.
CreationMove(c) ==
    /\ c \in panes' => c \in panes \/ pc[c] = "allocate"
    /\ c \in alive' => c \in alive /\ (got'[c] = "nothing" => got[c] = "nothing")

\* What a step may do to an acknowledgement under way.
AckingMove ==
    \/ acking' = None
    \/ \E r \in Claimant : AckRecord(r)
    \/ UNCHANGED <<acking, slugLock>>

-----------------------------------------------------------------------------
(* What a process knows, action by action. *)

LEMMA LivesStep ==
  ASSUME TypeOK, Lives, [Next]_vars
  PROVE  Lives'
<1> SUFFICES ASSUME NEW q \in Claimant PROVE (q \in alive <=> pc[q] # "dead")'
  BY DEF Lives
<1> /\ pc \in [Claimant -> Stage]
    /\ alive \subseteq Claimant
  BY DEF TypeOK
<1> USE DEF Lives
<1>1. ASSUME NEW c \in Creation, Start(c)
      PROVE  (q \in alive <=> pc[q] # "dead")'
  BY <1>1 DEF Start, Goto, Claimant
<1>2. ASSUME NEW p \in Claimant, List(p)
      PROVE  (q \in alive <=> pc[q] # "dead")'
  BY <1>2 DEF List, Goto
<1>3. ASSUME NEW p \in Claimant, NEW r \in Claimant, Ensure(p, r)
      PROVE  (q \in alive <=> pc[q] # "dead")'
  BY <1>3 DEF Ensure, Onward
<1>4. ASSUME NEW p \in Claimant, Reconciled(p)
      PROVE  (q \in alive <=> pc[q] # "dead")'
  BY <1>4 DEF Reconciled, Goto
<1>5. ASSUME NEW p \in Claimant, Judge(p)
      PROVE  (q \in alive <=> pc[q] # "dead")'
  BY <1>5 DEF Judge, Goto
<1>6. ASSUME NEW p \in Claimant, Choose(p)
      PROVE  (q \in alive <=> pc[q] # "dead")'
  BY <1>6 DEF Choose, Over
<1>7. ASSUME NEW p \in Claimant, Write(p)
      PROVE  (q \in alive <=> pc[q] # "dead")'
  BY <1>7 DEF Write, Goto
<1>8. ASSUME NEW p \in Claimant, Allocate(p)
      PROVE  (q \in alive <=> pc[q] # "dead")'
  BY <1>8 DEF Allocate, Goto
<1>9. ASSUME NEW p \in Claimant, BindRead(p)
      PROVE  (q \in alive <=> pc[q] # "dead")'
  BY <1>9, ThrowMoves DEF BindRead, Over, ThrownMove
<1>10. ASSUME NEW p \in Claimant, BindWrite(p)
      PROVE  (q \in alive <=> pc[q] # "dead")'
  BY <1>10 DEF BindWrite, Goto
<1>11. ASSUME NEW p \in Claimant, Build(p)
      PROVE  (q \in alive <=> pc[q] # "dead")'
  BY <1>11 DEF Build, Goto
<1>12. ASSUME NEW p \in Claimant, Persist(p)
      PROVE  (q \in alive <=> pc[q] # "dead")'
  BY <1>12, ThrowMoves DEF Persist, Over, ThrownMove
<1>13. ASSUME NEW p \in Claimant, Complete(p)
      PROVE  (q \in alive <=> pc[q] # "dead")'
  BY <1>13, ThrowMoves DEF Complete, Over, ThrownMove
<1>14. ASSUME NEW p \in Claimant, Clear(p)
      PROVE  (q \in alive <=> pc[q] # "dead")'
  BY <1>14, ThrowMoves DEF Clear, Onward, Over, ThrownMove
<1>15. ASSUME NEW p \in Claimant, Unblock(p)
      PROVE  (q \in alive <=> pc[q] # "dead")'
  BY <1>15 DEF Unblock, Onward, Over
<1>16. ASSUME NEW p \in Claimant, Mark(p)
      PROVE  (q \in alive <=> pc[q] # "dead")'
  BY <1>16 DEF Mark, Onward
<1>17. ASSUME NEW p \in Claimant, Shut(p)
      PROVE  (q \in alive <=> pc[q] # "dead")'
  <2>1. PICK s \in {"reconcile", "settle", "stamp", Over(p)} : pc' = [pc EXCEPT ![p] = s]
    BY <1>17, MarkedMoves DEF Shut
  <2>2. UNCHANGED alive
    BY <1>17 DEF Shut
  <2>3. QED
    BY <2>1, <2>2, <1>17 DEF Shut, Over
<1>18. ASSUME NEW p \in Claimant, Stamp(p)
      PROVE  (q \in alive <=> pc[q] # "dead")'
  <2>1. PICK s \in {"reconcile", "settle", "stamp", Over(p)} : pc' = [pc EXCEPT ![p] = s]
    BY <1>18, MarkedMoves DEF Stamp
  <2>2. UNCHANGED alive
    BY <1>18 DEF Stamp
  <2>3. QED
    BY <2>1, <2>2, <1>18 DEF Stamp, Over
<1>19. ASSUME NEW p \in Claimant, Failed(p)
      PROVE  (q \in alive <=> pc[q] # "dead")'
  BY <1>19 DEF Failed, Goto
<1>20. ASSUME NEW p \in Claimant, Teardown(p)
      PROVE  (q \in alive <=> pc[q] # "dead")'
  BY <1>20 DEF Teardown, Goto
<1>21. ASSUME NEW p \in Claimant, Retain(p)
      PROVE  (q \in alive <=> pc[q] # "dead")'
  BY <1>21, ThrowMoves DEF Retain, Over, ThrownMove
<1>22. ASSUME NEW p \in Claimant, Settle(p)
      PROVE  (q \in alive <=> pc[q] # "dead")'
  BY <1>22 DEF Settle, Over
<1>23. ASSUME NEW a \in Adoption, Poll(a)
      PROVE  (q \in alive <=> pc[q] # "dead")'
  BY <1>23 DEF Poll, Goto, Claimant
<1>24. ASSUME NEW a \in Adoption, Gate(a)
      PROVE  (q \in alive <=> pc[q] # "dead")'
  BY <1>24 DEF Gate, Decision, Claimant
<1>25. ASSUME NEW a \in Adoption, Decide(a)
      PROVE  (q \in alive <=> pc[q] # "dead")'
  BY <1>25 DEF Decide, Decision, Claimant
<1>26. ASSUME NEW a \in Adoption, ReadSaved(a)
      PROVE  (q \in alive <=> pc[q] # "dead")'
  BY <1>26 DEF ReadSaved, Claimant
<1>27. ASSUME NEW p \in Claimant, Raise(p)
      PROVE  (q \in alive <=> pc[q] # "dead")'
  BY <1>27, ThrowMoves DEF Raise, Throwing, Over, ThrownMove
<1>28. ASSUME NEW p \in Claimant, Die(p)
      PROVE  (q \in alive <=> pc[q] # "dead")'
  BY <1>28 DEF Die
<1>29. ASSUME NEW r \in Claimant, AckRecord(r)
      PROVE  (q \in alive <=> pc[q] # "dead")'
  BY <1>29 DEF AckRecord
<1>30. CASE AckMarker
  BY <1>30 DEF AckMarker
<1>31. ASSUME NEW x \in Pane, PaneDies(x)
      PROVE  (q \in alive <=> pc[q] # "dead")'
  BY <1>31 DEF PaneDies
<1>32. ASSUME NEW r \in Claimant, Forget(r)
      PROVE  (q \in alive <=> pc[q] # "dead")'
  BY <1>32 DEF Forget
<1>33. CASE UNCHANGED vars
  BY <1>33 DEF vars
<1>34. QED
  BY <1>1, <1>2, <1>3, <1>4, <1>5, <1>6, <1>7, <1>8, <1>9, <1>10, <1>11, <1>12,
     <1>13, <1>14, <1>15, <1>16, <1>17, <1>18, <1>19, <1>20, <1>21, <1>22, <1>23, <1>24,
     <1>25, <1>26, <1>27, <1>28, <1>29, <1>30, <1>31, <1>32, <1>33
  DEF Next, Step, Polling

LEMMA SettlesStep ==
  ASSUME TypeOK, Lives, Settles, Parts, [Next]_vars
  PROVE  Settles'
<1> SUFFICES ASSUME NEW q \in Claimant PROVE SettlesOf(q)'
  BY DEF Settles
<1> /\ pc \in [Claimant -> Stage]
    /\ phase \in [Claimant -> Part]
    /\ todo \in [Claimant -> [Claimant -> Record]]
    /\ subject \in [Claimant -> Claimant]
    /\ alive \subseteq Claimant
  BY DEF TypeOK
<1> USE DEF Lives, Settles, SettlesOf, Parts, PartOf
<1>1. ASSUME NEW c \in Creation, Start(c)
      PROVE  SettlesOf(q)'
  BY <1>1 DEF Start, Goto, Claimant
<1>2. ASSUME NEW p \in Claimant, List(p)
      PROVE  SettlesOf(q)'
  BY <1>2 DEF List, Goto
<1>3. ASSUME NEW p \in Claimant, NEW r \in Claimant, Ensure(p, r)
      PROVE  SettlesOf(q)'
  <2>1. CASE q = p
    BY <1>3, <2>1 DEF Ensure, Onward, Stale
  <2>2. CASE q # p
    BY <1>3, <2>2 DEF Ensure, Onward, Stale
  <2>3. QED
    BY <2>1, <2>2
<1>4. ASSUME NEW p \in Claimant, Reconciled(p)
      PROVE  SettlesOf(q)'
  BY <1>4 DEF Reconciled, Goto
<1>5. ASSUME NEW p \in Claimant, Judge(p)
      PROVE  SettlesOf(q)'
  <2>1. CASE q = p
    BY <1>5, <2>1 DEF Judge, Goto
  <2>2. CASE q # p
    BY <1>5, <2>2 DEF Judge, Goto
  <2>3. QED
    BY <2>1, <2>2
<1>6. ASSUME NEW p \in Claimant, Choose(p)
      PROVE  SettlesOf(q)'
  BY <1>6 DEF Choose, Over
<1>7. ASSUME NEW p \in Claimant, Write(p)
      PROVE  SettlesOf(q)'
  BY <1>7 DEF Write, Goto
<1>8. ASSUME NEW p \in Claimant, Allocate(p)
      PROVE  SettlesOf(q)'
  BY <1>8 DEF Allocate, Goto
<1>9. ASSUME NEW p \in Claimant, BindRead(p)
      PROVE  SettlesOf(q)'
  <2>1. PICK s \in Stage \ {"judge"} : pc' = [pc EXCEPT ![p] = s]
    BY <1>9, ThrowsElsewhere DEF BindRead, Stage
  <2>2. subject[p] = p /\ UNCHANGED <<subject, todo, alive>>
    BY <1>9 DEF BindRead
  <2>3. CASE q = p
    BY <2>1, <2>2, <2>3
  <2>4. CASE q # p
    BY <1>9, <2>4, ThrowMoves DEF BindRead, Over, ThrownMove
  <2>5. QED
    BY <2>3, <2>4
<1>10. ASSUME NEW p \in Claimant, BindWrite(p)
      PROVE  SettlesOf(q)'
  BY <1>10 DEF BindWrite, Goto
<1>11. ASSUME NEW p \in Claimant, Build(p)
      PROVE  SettlesOf(q)'
  BY <1>11 DEF Build, Goto
<1>12. ASSUME NEW p \in Claimant, Persist(p)
      PROVE  SettlesOf(q)'
  <2>1. PICK s \in Stage \ {"judge"} : pc' = [pc EXCEPT ![p] = s]
    BY <1>12, ThrowsElsewhere DEF Persist, Stage
  <2>2. subject[p] = p /\ UNCHANGED <<subject, todo, alive>>
    BY <1>12 DEF Persist
  <2>3. CASE q = p
    BY <2>1, <2>2, <2>3
  <2>4. CASE q # p
    BY <1>12, <2>4, ThrowMoves DEF Persist, Over, ThrownMove
  <2>5. QED
    BY <2>3, <2>4
<1>13. ASSUME NEW p \in Claimant, Complete(p)
      PROVE  SettlesOf(q)'
  <2>1. PICK s \in Stage \ {"judge"} : pc' = [pc EXCEPT ![p] = s]
    BY <1>13, ThrowsElsewhere DEF Complete, Stage
  <2>2. subject[p] = p /\ UNCHANGED <<subject, todo, alive>>
    BY <1>13 DEF Complete
  <2>3. CASE q = p
    BY <2>1, <2>2, <2>3
  <2>4. CASE q # p
    BY <1>13, <2>4, ThrowMoves DEF Complete, Over, ThrownMove
  <2>5. QED
    BY <2>3, <2>4
<1>14. ASSUME NEW p \in Claimant, Clear(p)
      PROVE  SettlesOf(q)'
  <2>1. CASE q = p
    BY <1>14, <2>1, ThrowMoves DEF Clear, Onward, Over, ThrownMove
  <2>2. CASE q # p
    BY <1>14, <2>2, ThrowMoves DEF Clear, Onward, Over, ThrownMove
  <2>3. QED
    BY <2>1, <2>2
<1>15. ASSUME NEW p \in Claimant, Unblock(p)
      PROVE  SettlesOf(q)'
  BY <1>15 DEF Unblock, Onward, Over
<1>16. ASSUME NEW p \in Claimant, Mark(p)
      PROVE  SettlesOf(q)'
  <2>1. CASE q = p
    BY <1>16, <2>1 DEF Mark, Onward
  <2>2. CASE q # p
    BY <1>16, <2>2 DEF Mark, Onward
  <2>3. QED
    BY <2>1, <2>2
<1>17. ASSUME NEW p \in Claimant, Shut(p)
      PROVE  SettlesOf(q)'
  <2>1. CASE q = p
    BY <1>17, <2>1, MarkedMoves DEF Shut, Over
  <2>2. CASE q # p
    BY <1>17, <2>2, MarkedMoves DEF Shut, Over
  <2>3. QED
    BY <2>1, <2>2
<1>18. ASSUME NEW p \in Claimant, Stamp(p)
      PROVE  SettlesOf(q)'
  <2>1. CASE q = p
    BY <1>18, <2>1, MarkedMoves DEF Stamp, Over
  <2>2. CASE q # p
    BY <1>18, <2>2, MarkedMoves DEF Stamp, Over
  <2>3. QED
    BY <2>1, <2>2
<1>19. ASSUME NEW p \in Claimant, Failed(p)
      PROVE  SettlesOf(q)'
  <2>1. CASE q = p
    <3>1. pc[p] = "failed" /\ subject' = subject
      BY <1>19 DEF Failed, Goto
    <3>2. pc'[p] # "judge"
      BY <1>19 DEF Failed, Goto
    <3>3. subject[p] = p
      BY <3>1 DEF Settles, SettlesOf
    <3>4. QED
      BY <2>1, <3>1, <3>2, <3>3 DEF SettlesOf
  <2>2. CASE q # p
    BY <1>19, <2>2 DEF Failed, Goto
  <2>3. QED
    BY <2>1, <2>2
<1>20. ASSUME NEW p \in Claimant, Teardown(p)
      PROVE  SettlesOf(q)'
  <2>1. CASE q = p
    BY <1>20, <2>1 DEF Teardown, Goto
  <2>2. CASE q # p
    BY <1>20, <2>2 DEF Teardown, Goto
  <2>3. QED
    BY <2>1, <2>2
<1>21. ASSUME NEW p \in Claimant, Retain(p)
      PROVE  SettlesOf(q)'
  BY <1>21, ThrowMoves DEF Retain, Over, ThrownMove
<1>22. ASSUME NEW p \in Claimant, Settle(p)
      PROVE  SettlesOf(q)'
  BY <1>22 DEF Settle, Over
<1>23. ASSUME NEW a \in Adoption, Poll(a)
      PROVE  SettlesOf(q)'
  BY <1>23 DEF Poll, Goto, Claimant
<1>24. ASSUME NEW a \in Adoption, Gate(a)
      PROVE  SettlesOf(q)'
  BY <1>24 DEF Gate, Decision, Claimant
<1>25. ASSUME NEW a \in Adoption, Decide(a)
      PROVE  SettlesOf(q)'
  BY <1>25 DEF Decide, Decision, Claimant
<1>26. ASSUME NEW a \in Adoption, ReadSaved(a)
      PROVE  SettlesOf(q)'
  <2>1. CASE q = a
    BY <1>26, <2>1 DEF ReadSaved, Claimant
  <2>2. CASE q # a
    BY <1>26, <2>2 DEF ReadSaved, Claimant
  <2>3. QED
    BY <2>1, <2>2
<1>27. ASSUME NEW p \in Claimant, Raise(p)
      PROVE  SettlesOf(q)'
  <2>1. CASE q = p
    <3>1. PICK s \in Stage, t \in Part : ThrownMove(p, s, t)
      BY <1>27, ThrowMoves DEF Raise
    <3>2. pc'[p] = s /\ phase'[p] = t /\ subject'[p] = p
      BY <1>27, <3>1 DEF Raise, ThrownMove
    <3>3. QED
      BY <1>27, <2>1, <3>1, <3>2 DEF Raise, Over, ThrownMove
  <2>2. CASE q # p
    BY <1>27, <2>2, ThrowMoves DEF Raise, Over, ThrownMove
  <2>3. QED
    BY <2>1, <2>2
<1>28. ASSUME NEW p \in Claimant, Die(p)
      PROVE  SettlesOf(q)'
  BY <1>28 DEF Die
<1>29. ASSUME NEW r \in Claimant, AckRecord(r)
      PROVE  SettlesOf(q)'
  BY <1>29 DEF AckRecord
<1>30. CASE AckMarker
  BY <1>30 DEF AckMarker
<1>31. ASSUME NEW x \in Pane, PaneDies(x)
      PROVE  SettlesOf(q)'
  BY <1>31 DEF PaneDies
<1>32. ASSUME NEW r \in Claimant, Forget(r)
      PROVE  SettlesOf(q)'
  BY <1>32 DEF Forget
<1>33. CASE UNCHANGED vars
  BY <1>33 DEF vars
<1>34. QED
  BY <1>1, <1>2, <1>3, <1>4, <1>5, <1>6, <1>7, <1>8, <1>9, <1>10, <1>11, <1>12,
     <1>13, <1>14, <1>15, <1>16, <1>17, <1>18, <1>19, <1>20, <1>21, <1>22, <1>23, <1>24,
     <1>25, <1>26, <1>27, <1>28, <1>29, <1>30, <1>31, <1>32, <1>33
  DEF Next, Step, Polling

LEMMA PartsStep ==
  ASSUME TypeOK, Settles, Parts, [Next]_vars
  PROVE  Parts'
<1> SUFFICES ASSUME NEW q \in Claimant PROVE PartOf(q)'
  BY DEF Parts
<1> /\ pc \in [Claimant -> Stage]
    /\ phase \in [Claimant -> Part]
    /\ subject \in [Claimant -> Claimant]
  BY DEF TypeOK
<1> USE DEF Settles, SettlesOf, Parts, PartOf
<1>1. ASSUME NEW c \in Creation, Start(c)
      PROVE  PartOf(q)'
  BY <1>1 DEF Start, Goto, Claimant
<1>2. ASSUME NEW p \in Claimant, List(p)
      PROVE  PartOf(q)'
  BY <1>2 DEF List, Goto
<1>3. ASSUME NEW p \in Claimant, NEW r \in Claimant, Ensure(p, r)
      PROVE  PartOf(q)'
  <2>1. CASE q = p
    BY <1>3, <2>1 DEF Ensure, Onward
  <2>2. CASE q # p
    BY <1>3, <2>2 DEF Ensure, Onward
  <2>3. QED
    BY <2>1, <2>2
<1>4. ASSUME NEW p \in Claimant, Reconciled(p)
      PROVE  PartOf(q)'
  BY <1>4 DEF Reconciled, Goto
<1>5. ASSUME NEW p \in Claimant, Judge(p)
      PROVE  PartOf(q)'
  <2>1. CASE q = p
    BY <1>5, <2>1 DEF Judge, Goto
  <2>2. CASE q # p
    BY <1>5, <2>2 DEF Judge, Goto
  <2>3. QED
    BY <2>1, <2>2
<1>6. ASSUME NEW p \in Claimant, Choose(p)
      PROVE  PartOf(q)'
  BY <1>6 DEF Choose, Over
<1>7. ASSUME NEW p \in Claimant, Write(p)
      PROVE  PartOf(q)'
  BY <1>7 DEF Write, Goto
<1>8. ASSUME NEW p \in Claimant, Allocate(p)
      PROVE  PartOf(q)'
  BY <1>8 DEF Allocate, Goto
<1>9. ASSUME NEW p \in Claimant, BindRead(p)
      PROVE  PartOf(q)'
  BY <1>9, ThrowMoves DEF BindRead, Over, ThrownMove
<1>10. ASSUME NEW p \in Claimant, BindWrite(p)
      PROVE  PartOf(q)'
  BY <1>10 DEF BindWrite, Goto
<1>11. ASSUME NEW p \in Claimant, Build(p)
      PROVE  PartOf(q)'
  BY <1>11 DEF Build, Goto
<1>12. ASSUME NEW p \in Claimant, Persist(p)
      PROVE  PartOf(q)'
  <2>1. CASE q = p
    BY <1>12, <2>1, ThrowMoves DEF Persist, Over, ThrownMove
  <2>2. CASE q # p
    BY <1>12, <2>2, ThrowMoves DEF Persist, Over, ThrownMove
  <2>3. QED
    BY <2>1, <2>2
<1>13. ASSUME NEW p \in Claimant, Complete(p)
      PROVE  PartOf(q)'
  <2>1. CASE q = p
    BY <1>13, <2>1, ThrowMoves DEF Complete, Over, ThrownMove
  <2>2. CASE q # p
    BY <1>13, <2>2, ThrowMoves DEF Complete, Over, ThrownMove
  <2>3. QED
    BY <2>1, <2>2
<1>14. ASSUME NEW p \in Claimant, Clear(p)
      PROVE  PartOf(q)'
  <2>1. CASE q = p
    BY <1>14, <2>1, ThrowMoves DEF Clear, Onward, Over, ThrownMove
  <2>2. CASE q # p
    BY <1>14, <2>2, ThrowMoves DEF Clear, Onward, Over, ThrownMove
  <2>3. QED
    BY <2>1, <2>2
<1>15. ASSUME NEW p \in Claimant, Unblock(p)
      PROVE  PartOf(q)'
  BY <1>15 DEF Unblock, Onward, Over
<1>16. ASSUME NEW p \in Claimant, Mark(p)
      PROVE  PartOf(q)'
  <2>1. CASE q = p
    BY <1>16, <2>1 DEF Mark, Onward
  <2>2. CASE q # p
    BY <1>16, <2>2 DEF Mark, Onward
  <2>3. QED
    BY <2>1, <2>2
<1>17. ASSUME NEW p \in Claimant, Shut(p)
      PROVE  PartOf(q)'
  <2>1. CASE q = p
    BY <1>17, <2>1, MarkedMoves DEF Shut, Over
  <2>2. CASE q # p
    BY <1>17, <2>2, MarkedMoves DEF Shut, Over
  <2>3. QED
    BY <2>1, <2>2
<1>18. ASSUME NEW p \in Claimant, Stamp(p)
      PROVE  PartOf(q)'
  BY <1>18, MarkedMoves DEF Stamp, Over
<1>19. ASSUME NEW p \in Claimant, Failed(p)
      PROVE  PartOf(q)'
  <2>1. CASE q = p
    BY <1>19, <2>1 DEF Failed, Goto
  <2>2. CASE q # p
    BY <1>19, <2>2 DEF Failed, Goto
  <2>3. QED
    BY <2>1, <2>2
<1>20. ASSUME NEW p \in Claimant, Teardown(p)
      PROVE  PartOf(q)'
  <2>1. CASE q = p
    <3>1. pc'[p] \in {"clear", "retain", "mark"} /\ phase'[p] = phase[p] /\ phase[p] # "create"
      BY <1>20 DEF Teardown, Goto
    <3>2. QED
      BY <2>1, <3>1
  <2>2. CASE q # p
    BY <1>20, <2>2 DEF Teardown, Goto
  <2>3. QED
    BY <2>1, <2>2
<1>21. ASSUME NEW p \in Claimant, Retain(p)
      PROVE  PartOf(q)'
  BY <1>21, ThrowMoves DEF Retain, Over, ThrownMove
<1>22. ASSUME NEW p \in Claimant, Settle(p)
      PROVE  PartOf(q)'
  <2>1. CASE q = p
    <3>1. pc'[p] \in {Over(p), "complete", "clear", "mark", "teardown"} /\ phase'[p] \in {"settle", "blind"}
      BY <1>22 DEF Settle, Over
    <3>2. QED
      BY <2>1, <3>1 DEF Over
  <2>2. CASE q # p
    BY <1>22, <2>2 DEF Settle, Over
  <2>3. QED
    BY <2>1, <2>2
<1>23. ASSUME NEW a \in Adoption, Poll(a)
      PROVE  PartOf(q)'
  BY <1>23 DEF Poll, Goto, Claimant
<1>24. ASSUME NEW a \in Adoption, Gate(a)
      PROVE  PartOf(q)'
  BY <1>24 DEF Gate, Decision, Claimant
<1>25. ASSUME NEW a \in Adoption, Decide(a)
      PROVE  PartOf(q)'
  BY <1>25 DEF Decide, Decision, Claimant
<1>26. ASSUME NEW a \in Adoption, ReadSaved(a)
      PROVE  PartOf(q)'
  <2>1. CASE q = a
    BY <1>26, <2>1 DEF ReadSaved, Claimant
  <2>2. CASE q # a
    BY <1>26, <2>2 DEF ReadSaved, Claimant
  <2>3. QED
    BY <2>1, <2>2
<1>27. ASSUME NEW p \in Claimant, Raise(p)
      PROVE  PartOf(q)'
  <2>1. CASE q = p
    BY <1>27, <2>1, ThrowMoves DEF Raise, Over, ThrownMove
  <2>2. CASE q # p
    BY <1>27, <2>2, ThrowMoves DEF Raise, Over, ThrownMove
  <2>3. QED
    BY <2>1, <2>2
<1>28. ASSUME NEW p \in Claimant, Die(p)
      PROVE  PartOf(q)'
  BY <1>28 DEF Die
<1>29. ASSUME NEW r \in Claimant, AckRecord(r)
      PROVE  PartOf(q)'
  BY <1>29 DEF AckRecord
<1>30. CASE AckMarker
  BY <1>30 DEF AckMarker
<1>31. ASSUME NEW x \in Pane, PaneDies(x)
      PROVE  PartOf(q)'
  BY <1>31 DEF PaneDies
<1>32. ASSUME NEW r \in Claimant, Forget(r)
      PROVE  PartOf(q)'
  BY <1>32 DEF Forget
<1>33. CASE UNCHANGED vars
  BY <1>33 DEF vars
<1>34. QED
  BY <1>1, <1>2, <1>3, <1>4, <1>5, <1>6, <1>7, <1>8, <1>9, <1>10, <1>11, <1>12,
     <1>13, <1>14, <1>15, <1>16, <1>17, <1>18, <1>19, <1>20, <1>21, <1>22, <1>23, <1>24,
     <1>25, <1>26, <1>27, <1>28, <1>29, <1>30, <1>31, <1>32, <1>33
  DEF Next, Step, Polling

LEMMA AtWorkStep ==
  ASSUME TypeOK, Lives, Settles, Parts, AtWork, Locked, [Next]_vars
  PROVE  AtWork'
<1> SUFFICES ASSUME NEW q \in Claimant PROVE AtWorkOn(q)'
  BY DEF AtWork
<1> /\ pc \in [Claimant -> Stage]
    /\ phase \in [Claimant -> Part]
    /\ todo \in [Claimant -> [Claimant -> Record]]
    /\ subject \in [Claimant -> Claimant]
    /\ record \in [Claimant -> Record]
    /\ alive \subseteq Claimant
    /\ acking \in Claimant \cup {None}
    /\ slugLock \in Claimant \cup {None, "operator"}
  BY DEF TypeOK
<1> USE DEF AtWork, AtWorkOn, Working, Lives, Settles, SettlesOf, Locked, Holds, Parts, PartOf
<1>1. ASSUME NEW c \in Creation, Start(c)
      PROVE  AtWorkOn(q)'
  BY <1>1 DEF Start, Goto, Claimant
<1>2. ASSUME NEW p \in Claimant, List(p)
      PROVE  AtWorkOn(q)'
  BY <1>2 DEF List, Goto
<1>3. ASSUME NEW p \in Claimant, NEW r \in Claimant, Ensure(p, r)
      PROVE  AtWorkOn(q)'
  BY <1>3 DEF Ensure, Onward
<1>4. ASSUME NEW p \in Claimant, Reconciled(p)
      PROVE  AtWorkOn(q)'
  BY <1>4 DEF Reconciled, Goto
<1>5. ASSUME NEW p \in Claimant, Judge(p)
      PROVE  AtWorkOn(q)'
  BY <1>5 DEF Judge, Goto
<1>6. ASSUME NEW p \in Claimant, Choose(p)
      PROVE  AtWorkOn(q)'
  BY <1>6 DEF Choose, Unlocked, Over
<1>7. ASSUME NEW p \in Claimant, Write(p)
      PROVE  AtWorkOn(q)'
  BY <1>7 DEF Write, Goto
<1>8. ASSUME NEW p \in Claimant, Allocate(p)
      PROVE  AtWorkOn(q)'
  BY <1>8 DEF Allocate, Goto
<1>9. ASSUME NEW p \in Claimant, BindRead(p)
      PROVE  AtWorkOn(q)'
  BY <1>9, ThrowMoves DEF BindRead, Over, ThrownMove
<1>10. ASSUME NEW p \in Claimant, BindWrite(p)
      PROVE  AtWorkOn(q)'
  BY <1>10 DEF BindWrite, Goto
<1>11. ASSUME NEW p \in Claimant, Build(p)
      PROVE  AtWorkOn(q)'
  BY <1>11 DEF Build, Goto
<1>12. ASSUME NEW p \in Claimant, Persist(p)
      PROVE  AtWorkOn(q)'
  BY <1>12, ThrowMoves DEF Persist, Over, ThrownMove
<1>13. ASSUME NEW p \in Claimant, Complete(p)
      PROVE  AtWorkOn(q)'
  BY <1>13, ThrowMoves DEF Complete, Over, ThrownMove
<1>14. ASSUME NEW p \in Claimant, Clear(p)
      PROVE  AtWorkOn(q)'
  BY <1>14, ThrowMoves DEF Clear, Onward, Unchanged, Over, ThrownMove
<1>15. ASSUME NEW p \in Claimant, Unblock(p)
      PROVE  AtWorkOn(q)'
  BY <1>15 DEF Unblock, Onward, Over
<1>16. ASSUME NEW p \in Claimant, Mark(p)
      PROVE  AtWorkOn(q)'
  BY <1>16 DEF Mark, Onward, Unchanged
<1>17. ASSUME NEW p \in Claimant, Shut(p)
      PROVE  AtWorkOn(q)'
  BY <1>17, MarkedMoves DEF Shut, Over
<1>18. ASSUME NEW p \in Claimant, Stamp(p)
      PROVE  AtWorkOn(q)'
  BY <1>18, MarkedMoves DEF Stamp, Over
<1>19. ASSUME NEW p \in Claimant, Failed(p)
      PROVE  AtWorkOn(q)'
  BY <1>19 DEF Failed, Goto
<1>20. ASSUME NEW p \in Claimant, Teardown(p)
      PROVE  AtWorkOn(q)'
  BY <1>20 DEF Teardown, Goto
<1>21. ASSUME NEW p \in Claimant, Retain(p)
      PROVE  AtWorkOn(q)'
  BY <1>21, ThrowMoves DEF Retain, Over, ThrownMove
<1>22. ASSUME NEW p \in Claimant, Settle(p)
      PROVE  AtWorkOn(q)'
  BY <1>22 DEF Settle, Over
<1>23. ASSUME NEW a \in Adoption, Poll(a)
      PROVE  AtWorkOn(q)'
  BY <1>23 DEF Poll, Goto, Claimant
<1>24. ASSUME NEW a \in Adoption, Gate(a)
      PROVE  AtWorkOn(q)'
  BY <1>24 DEF Gate, Decision, Claimant
<1>25. ASSUME NEW a \in Adoption, Decide(a)
      PROVE  AtWorkOn(q)'
  BY <1>25 DEF Decide, Decision, Claimant
<1>26. ASSUME NEW a \in Adoption, ReadSaved(a)
      PROVE  AtWorkOn(q)'
  BY <1>26 DEF ReadSaved, Claimant
<1>27. ASSUME NEW p \in Claimant, Raise(p)
      PROVE  AtWorkOn(q)'
  BY <1>27, ThrowMoves DEF Raise, Throwing, Over, ThrownMove
<1>28. ASSUME NEW p \in Claimant, Die(p)
      PROVE  AtWorkOn(q)'
  BY <1>28 DEF Die
<1>29. ASSUME NEW r \in Claimant, AckRecord(r)
      PROVE  AtWorkOn(q)'
  BY <1>29 DEF AckRecord, Unlocked
<1>30. CASE AckMarker
  BY <1>30 DEF AckMarker
<1>31. ASSUME NEW x \in Pane, PaneDies(x)
      PROVE  AtWorkOn(q)'
  BY <1>31 DEF PaneDies
<1>32. ASSUME NEW r \in Claimant, Forget(r)
      PROVE  AtWorkOn(q)'
  BY <1>32 DEF Forget
<1>33. CASE UNCHANGED vars
  BY <1>33 DEF vars
<1>34. QED
  BY <1>1, <1>2, <1>3, <1>4, <1>5, <1>6, <1>7, <1>8, <1>9, <1>10, <1>11, <1>12,
     <1>13, <1>14, <1>15, <1>16, <1>17, <1>18, <1>19, <1>20, <1>21, <1>22, <1>23, <1>24,
     <1>25, <1>26, <1>27, <1>28, <1>29, <1>30, <1>31, <1>32, <1>33
  DEF Next, Step, Polling

LEMMA HoldsStep ==
  ASSUME TypeOK, Lives, Settles, AtWork, Locked, [Next]_vars
  PROVE  (\A q \in Claimant : Holds(q))'
<1> SUFFICES ASSUME NEW q \in Claimant PROVE Holds(q)'
  OBVIOUS
<1> /\ pc \in [Claimant -> Stage]
    /\ phase \in [Claimant -> Part]
    /\ todo \in [Claimant -> [Claimant -> Record]]
    /\ subject \in [Claimant -> Claimant]
    /\ record \in [Claimant -> Record]
    /\ alive \subseteq Claimant
    /\ slugLock \in Claimant \cup {None, "operator"}
    /\ acking \in Claimant \cup {None}
  BY DEF TypeOK
<1> USE DEF Locked, Holds, Settles, SettlesOf, AtWork, AtWorkOn, Working, Lives
<1>1. ASSUME NEW c \in Creation, Start(c)
      PROVE  Holds(q)'
  BY <1>1, ClaimantsAssumption DEF Start, Goto, Claimant
<1>2. ASSUME NEW p \in Claimant, List(p)
      PROVE  Holds(q)'
  BY <1>2, ClaimantsAssumption DEF List, Goto
<1>3. ASSUME NEW p \in Claimant, NEW r \in Claimant, Ensure(p, r)
      PROVE  Holds(q)'
  BY <1>3, ClaimantsAssumption DEF Ensure, Onward
<1>4. ASSUME NEW p \in Claimant, Reconciled(p)
      PROVE  Holds(q)'
  BY <1>4, ClaimantsAssumption DEF Reconciled, Goto
<1>5. ASSUME NEW p \in Claimant, Judge(p)
      PROVE  Holds(q)'
  BY <1>5, ClaimantsAssumption DEF Judge, Goto
<1>6. ASSUME NEW p \in Claimant, Choose(p)
      PROVE  Holds(q)'
  BY <1>6, ClaimantsAssumption DEF Choose, Lock, Unlocked, Over
<1>7. ASSUME NEW p \in Claimant, Write(p)
      PROVE  Holds(q)'
  BY <1>7, ClaimantsAssumption DEF Write, Goto, Unlock
<1>8. ASSUME NEW p \in Claimant, Allocate(p)
      PROVE  Holds(q)'
  BY <1>8, ClaimantsAssumption DEF Allocate, Goto
<1>9. ASSUME NEW p \in Claimant, BindRead(p)
      PROVE  Holds(q)'
  BY <1>9, ThrowMoves, ClaimantsAssumption DEF BindRead, Over, ThrownMove
<1>10. ASSUME NEW p \in Claimant, BindWrite(p)
      PROVE  Holds(q)'
  BY <1>10, ClaimantsAssumption DEF BindWrite, Goto
<1>11. ASSUME NEW p \in Claimant, Build(p)
      PROVE  Holds(q)'
  BY <1>11, ClaimantsAssumption DEF Build, Goto
<1>12. ASSUME NEW p \in Claimant, Persist(p)
      PROVE  Holds(q)'
  <2>1. CASE q = p
    BY <1>12, <2>1, ThrowMoves, ClaimantsAssumption DEF Persist, Over, ThrownMove
  <2>2. CASE q # p
    BY <1>12, <2>2, ThrowMoves, ClaimantsAssumption DEF Persist, Over, ThrownMove
  <2>3. QED
    BY <2>1, <2>2
<1>13. ASSUME NEW p \in Claimant, Complete(p)
      PROVE  Holds(q)'
  BY <1>13, ThrowMoves, ClaimantsAssumption DEF Complete, Over, ThrownMove
<1>14. ASSUME NEW p \in Claimant, Clear(p)
      PROVE  Holds(q)'
  BY <1>14, ThrowMoves, ClaimantsAssumption DEF Clear, Onward, Unchanged, Over, ThrownMove
<1>15. ASSUME NEW p \in Claimant, Unblock(p)
      PROVE  Holds(q)'
  BY <1>15, ClaimantsAssumption DEF Unblock, Onward, Over
<1>16. ASSUME NEW p \in Claimant, Mark(p)
      PROVE  Holds(q)'
  BY <1>16, ClaimantsAssumption DEF Mark, Onward, Unchanged, Lock
<1>17. ASSUME NEW p \in Claimant, Shut(p)
      PROVE  Holds(q)'
  BY <1>17, MarkedMoves, ClaimantsAssumption DEF Shut, Lock, Unlock, Over
<1>18. ASSUME NEW p \in Claimant, Stamp(p)
      PROVE  Holds(q)'
  BY <1>18, MarkedMoves, ClaimantsAssumption DEF Stamp, Unlock, Over
<1>19. ASSUME NEW p \in Claimant, Failed(p)
      PROVE  Holds(q)'
  BY <1>19, ClaimantsAssumption DEF Failed, Goto
<1>20. ASSUME NEW p \in Claimant, Teardown(p)
      PROVE  Holds(q)'
  BY <1>20, ClaimantsAssumption DEF Teardown, Goto
<1>21. ASSUME NEW p \in Claimant, Retain(p)
      PROVE  Holds(q)'
  BY <1>21, ThrowMoves, ClaimantsAssumption DEF Retain, Over, ThrownMove
<1>22. ASSUME NEW p \in Claimant, Settle(p)
      PROVE  Holds(q)'
  BY <1>22, ClaimantsAssumption DEF Settle, Over
<1>23. ASSUME NEW a \in Adoption, Poll(a)
      PROVE  Holds(q)'
  BY <1>23, ClaimantsAssumption DEF Poll, Goto, Claimant
<1>24. ASSUME NEW a \in Adoption, Gate(a)
      PROVE  Holds(q)'
  BY <1>24, ClaimantsAssumption DEF Gate, Decision, Claimant
<1>25. ASSUME NEW a \in Adoption, Decide(a)
      PROVE  Holds(q)'
  BY <1>25, ClaimantsAssumption DEF Decide, Decision, Claimant
<1>26. ASSUME NEW a \in Adoption, ReadSaved(a)
      PROVE  Holds(q)'
  BY <1>26, ClaimantsAssumption DEF ReadSaved, Claimant
<1>27. ASSUME NEW p \in Claimant, Raise(p)
      PROVE  Holds(q)'
  <2>1. CASE q = p
    <3>1. PICK s \in Stage, t \in Part : ThrownMove(p, s, t)
      BY <1>27, ThrowMoves DEF Raise
    <3>2. pc'[p] = s /\ phase'[p] = t /\ subject'[p] = p
      BY <1>27, <3>1 DEF Raise, ThrownMove
    <3>3. QED
      BY <1>27, <2>1, <3>1, <3>2, ClaimantsAssumption DEF Raise, Throwing, Unlock, Over, ThrownMove
  <2>2. CASE q # p
    BY <1>27, <2>2, ThrowMoves, ClaimantsAssumption DEF Raise, Throwing, Unlock, Over, ThrownMove
  <2>3. QED
    BY <2>1, <2>2
<1>28. ASSUME NEW p \in Claimant, Die(p)
      PROVE  Holds(q)'
  BY <1>28, ClaimantsAssumption DEF Die, Unlock
<1>29. ASSUME NEW r \in Claimant, AckRecord(r)
      PROVE  Holds(q)'
  BY <1>29, ClaimantsAssumption DEF AckRecord, Unlocked, Lock
<1>30. CASE AckMarker
  BY <1>30, ClaimantsAssumption DEF AckMarker, Unlock
<1>31. ASSUME NEW x \in Pane, PaneDies(x)
      PROVE  Holds(q)'
  BY <1>31, ClaimantsAssumption DEF PaneDies
<1>32. ASSUME NEW r \in Claimant, Forget(r)
      PROVE  Holds(q)'
  BY <1>32, ClaimantsAssumption DEF Forget
<1>33. CASE UNCHANGED vars
  BY <1>33 DEF vars
<1>34. QED
  BY <1>1, <1>2, <1>3, <1>4, <1>5, <1>6, <1>7, <1>8, <1>9, <1>10, <1>11, <1>12,
     <1>13, <1>14, <1>15, <1>16, <1>17, <1>18, <1>19, <1>20, <1>21, <1>22, <1>23, <1>24,
     <1>25, <1>26, <1>27, <1>28, <1>29, <1>30, <1>31, <1>32, <1>33
  DEF Next, Step, Polling

-----------------------------------------------------------------------------
(* What every action does to the files, to the choices and to the panes. *)

LEMMA RecordMoves ==
  ASSUME TypeOK, Lives, Settles, AtWork, Locked, [Next]_vars
  PROVE  \A q \in Claimant : RecordMove(q)
<1> SUFFICES ASSUME NEW q \in Claimant PROVE RecordMove(q)
  OBVIOUS
<1> /\ pc \in [Claimant -> Stage]
    /\ todo \in [Claimant -> [Claimant -> Record]]
    /\ subject \in [Claimant -> Claimant]
    /\ record \in [Claimant -> Record]
    /\ alive \subseteq Claimant
  BY DEF TypeOK
<1> USE DEF RecordMove, Lives, Settles, SettlesOf, AtWork, AtWorkOn, Working, Locked, Holds
<1>1. ASSUME NEW c \in Creation, Start(c)
      PROVE  RecordMove(q)
  BY <1>1 DEF Start, Goto, Claimant
<1>2. ASSUME NEW p \in Claimant, List(p)
      PROVE  RecordMove(q)
  BY <1>2 DEF List, Goto
<1>3. ASSUME NEW p \in Claimant, NEW r \in Claimant, Ensure(p, r)
      PROVE  RecordMove(q)
  BY <1>3 DEF Ensure, Onward
<1>4. ASSUME NEW p \in Claimant, Reconciled(p)
      PROVE  RecordMove(q)
  BY <1>4 DEF Reconciled, Goto
<1>5. ASSUME NEW p \in Claimant, Judge(p)
      PROVE  RecordMove(q)
  BY <1>5 DEF Judge, Goto
<1>6. ASSUME NEW p \in Claimant, Choose(p)
      PROVE  RecordMove(q)
  BY <1>6 DEF Choose, Unlocked, Over
<1>7. ASSUME NEW p \in Claimant, Write(p)
      PROVE  RecordMove(q)
  BY <1>7 DEF Write, Goto
<1>8. ASSUME NEW p \in Claimant, Allocate(p)
      PROVE  RecordMove(q)
  BY <1>8 DEF Allocate, Goto
<1>9. ASSUME NEW p \in Claimant, BindRead(p)
      PROVE  RecordMove(q)
  BY <1>9, ThrowMoves DEF BindRead, Over, ThrownMove
<1>10. ASSUME NEW p \in Claimant, BindWrite(p)
      PROVE  RecordMove(q)
  BY <1>10 DEF BindWrite, Goto
<1>11. ASSUME NEW p \in Claimant, Build(p)
      PROVE  RecordMove(q)
  BY <1>11 DEF Build, Goto
<1>12. ASSUME NEW p \in Claimant, Persist(p)
      PROVE  RecordMove(q)
  BY <1>12, ThrowMoves DEF Persist, Over, ThrownMove
<1>13. ASSUME NEW p \in Claimant, Complete(p)
      PROVE  RecordMove(q)
  BY <1>13, ThrowMoves DEF Complete, Over, ThrownMove
<1>14. ASSUME NEW p \in Claimant, Clear(p)
      PROVE  RecordMove(q)
  BY <1>14, ThrowMoves DEF Clear, Onward, Unchanged, Over, ThrownMove
<1>15. ASSUME NEW p \in Claimant, Unblock(p)
      PROVE  RecordMove(q)
  BY <1>15 DEF Unblock, Onward, Over
<1>16. ASSUME NEW p \in Claimant, Mark(p)
      PROVE  RecordMove(q)
  BY <1>16 DEF Mark, Onward, Unchanged
<1>17. ASSUME NEW p \in Claimant, Shut(p)
      PROVE  RecordMove(q)
  BY <1>17, MarkedMoves DEF Shut, Over
<1>18. ASSUME NEW p \in Claimant, Stamp(p)
      PROVE  RecordMove(q)
  BY <1>18, MarkedMoves DEF Stamp, Over
<1>19. ASSUME NEW p \in Claimant, Failed(p)
      PROVE  RecordMove(q)
  BY <1>19 DEF Failed, Goto
<1>20. ASSUME NEW p \in Claimant, Teardown(p)
      PROVE  RecordMove(q)
  BY <1>20 DEF Teardown, Goto
<1>21. ASSUME NEW p \in Claimant, Retain(p)
      PROVE  RecordMove(q)
  BY <1>21, ThrowMoves DEF Retain, Over, ThrownMove
<1>22. ASSUME NEW p \in Claimant, Settle(p)
      PROVE  RecordMove(q)
  BY <1>22 DEF Settle, Over
<1>23. ASSUME NEW a \in Adoption, Poll(a)
      PROVE  RecordMove(q)
  BY <1>23 DEF Poll, Goto, Claimant
<1>24. ASSUME NEW a \in Adoption, Gate(a)
      PROVE  RecordMove(q)
  BY <1>24 DEF Gate, Decision, Claimant
<1>25. ASSUME NEW a \in Adoption, Decide(a)
      PROVE  RecordMove(q)
  BY <1>25 DEF Decide, Decision, Claimant
<1>26. ASSUME NEW a \in Adoption, ReadSaved(a)
      PROVE  RecordMove(q)
  BY <1>26 DEF ReadSaved, Claimant
<1>27. ASSUME NEW p \in Claimant, Raise(p)
      PROVE  RecordMove(q)
  BY <1>27, ThrowMoves DEF Raise, Over, ThrownMove
<1>28. ASSUME NEW p \in Claimant, Die(p)
      PROVE  RecordMove(q)
  BY <1>28 DEF Die
<1>29. ASSUME NEW r \in Claimant, AckRecord(r)
      PROVE  RecordMove(q)
  BY <1>29 DEF AckRecord, Unlocked
<1>30. CASE AckMarker
  BY <1>30 DEF AckMarker
<1>31. ASSUME NEW x \in Pane, PaneDies(x)
      PROVE  RecordMove(q)
  BY <1>31 DEF PaneDies
<1>32. ASSUME NEW r \in Claimant, Forget(r)
      PROVE  RecordMove(q)
  BY <1>32 DEF Forget
<1>33. CASE UNCHANGED vars
  BY <1>33 DEF vars
<1>34. QED
  BY <1>1, <1>2, <1>3, <1>4, <1>5, <1>6, <1>7, <1>8, <1>9, <1>10, <1>11, <1>12,
     <1>13, <1>14, <1>15, <1>16, <1>17, <1>18, <1>19, <1>20, <1>21, <1>22, <1>23, <1>24,
     <1>25, <1>26, <1>27, <1>28, <1>29, <1>30, <1>31, <1>32, <1>33
  DEF Next, Step, Polling

LEMMA MarkerMoves ==
  ASSUME TypeOK, [Next]_vars
  PROVE  \A q \in Claimant : MarkerMove(q)
<1> SUFFICES ASSUME NEW q \in Claimant PROVE MarkerMove(q)
  OBVIOUS
<1> /\ marker \in [Claimant -> {"none", "provisional", "quarantined"}]
    /\ subject \in [Claimant -> Claimant]
  BY DEF TypeOK
<1> USE DEF MarkerMove
<1>1. ASSUME NEW c \in Creation, Start(c)
      PROVE  MarkerMove(q)
  BY <1>1 DEF Start, Goto, Claimant
<1>2. ASSUME NEW p \in Claimant, List(p)
      PROVE  MarkerMove(q)
  BY <1>2 DEF List, Goto
<1>3. ASSUME NEW p \in Claimant, NEW r \in Claimant, Ensure(p, r)
      PROVE  MarkerMove(q)
  BY <1>3 DEF Ensure, Onward, MarkerFor
<1>4. ASSUME NEW p \in Claimant, Reconciled(p)
      PROVE  MarkerMove(q)
  BY <1>4 DEF Reconciled, Goto
<1>5. ASSUME NEW p \in Claimant, Judge(p)
      PROVE  MarkerMove(q)
  BY <1>5 DEF Judge, Goto
<1>6. ASSUME NEW p \in Claimant, Choose(p)
      PROVE  MarkerMove(q)
  BY <1>6 DEF Choose, Over
<1>7. ASSUME NEW p \in Claimant, Write(p)
      PROVE  MarkerMove(q)
  BY <1>7 DEF Write, Goto
<1>8. ASSUME NEW p \in Claimant, Allocate(p)
      PROVE  MarkerMove(q)
  BY <1>8 DEF Allocate, Goto
<1>9. ASSUME NEW p \in Claimant, BindRead(p)
      PROVE  MarkerMove(q)
  BY <1>9, ThrowMoves DEF BindRead, Over, ThrownMove
<1>10. ASSUME NEW p \in Claimant, BindWrite(p)
      PROVE  MarkerMove(q)
  BY <1>10 DEF BindWrite, Goto
<1>11. ASSUME NEW p \in Claimant, Build(p)
      PROVE  MarkerMove(q)
  BY <1>11 DEF Build, Goto
<1>12. ASSUME NEW p \in Claimant, Persist(p)
      PROVE  MarkerMove(q)
  BY <1>12, ThrowMoves DEF Persist, Over, ThrownMove
<1>13. ASSUME NEW p \in Claimant, Complete(p)
      PROVE  MarkerMove(q)
  BY <1>13, ThrowMoves DEF Complete, Over, ThrownMove
<1>14. ASSUME NEW p \in Claimant, Clear(p)
      PROVE  MarkerMove(q)
  BY <1>14, ThrowMoves DEF Clear, Onward, Over, ThrownMove
<1>15. ASSUME NEW p \in Claimant, Unblock(p)
      PROVE  MarkerMove(q)
  BY <1>15 DEF Unblock, Onward, Over
<1>16. ASSUME NEW p \in Claimant, Mark(p)
      PROVE  MarkerMove(q)
  BY <1>16 DEF Mark, Onward
<1>17. ASSUME NEW p \in Claimant, Shut(p)
      PROVE  MarkerMove(q)
  BY <1>17, MarkedMoves DEF Shut, Over
<1>18. ASSUME NEW p \in Claimant, Stamp(p)
      PROVE  MarkerMove(q)
  BY <1>18, MarkedMoves DEF Stamp, Over
<1>19. ASSUME NEW p \in Claimant, Failed(p)
      PROVE  MarkerMove(q)
  BY <1>19 DEF Failed, Goto
<1>20. ASSUME NEW p \in Claimant, Teardown(p)
      PROVE  MarkerMove(q)
  BY <1>20 DEF Teardown, Goto
<1>21. ASSUME NEW p \in Claimant, Retain(p)
      PROVE  MarkerMove(q)
  BY <1>21, ThrowMoves DEF Retain, Over, ThrownMove
<1>22. ASSUME NEW p \in Claimant, Settle(p)
      PROVE  MarkerMove(q)
  BY <1>22 DEF Settle, Over
<1>23. ASSUME NEW a \in Adoption, Poll(a)
      PROVE  MarkerMove(q)
  BY <1>23 DEF Poll, Goto, Claimant
<1>24. ASSUME NEW a \in Adoption, Gate(a)
      PROVE  MarkerMove(q)
  BY <1>24 DEF Gate, Decision, Claimant
<1>25. ASSUME NEW a \in Adoption, Decide(a)
      PROVE  MarkerMove(q)
  BY <1>25 DEF Decide, Decision, Claimant
<1>26. ASSUME NEW a \in Adoption, ReadSaved(a)
      PROVE  MarkerMove(q)
  BY <1>26 DEF ReadSaved, Claimant
<1>27. ASSUME NEW p \in Claimant, Raise(p)
      PROVE  MarkerMove(q)
  BY <1>27, ThrowMoves DEF Raise, Over, ThrownMove
<1>28. ASSUME NEW p \in Claimant, Die(p)
      PROVE  MarkerMove(q)
  BY <1>28 DEF Die
<1>29. ASSUME NEW r \in Claimant, AckRecord(r)
      PROVE  MarkerMove(q)
  BY <1>29 DEF AckRecord
<1>30. CASE AckMarker
  BY <1>30 DEF AckMarker
<1>31. ASSUME NEW x \in Pane, PaneDies(x)
      PROVE  MarkerMove(q)
  BY <1>31 DEF PaneDies
<1>32. ASSUME NEW r \in Claimant, Forget(r)
      PROVE  MarkerMove(q)
  BY <1>32 DEF Forget
<1>33. CASE UNCHANGED vars
  BY <1>33 DEF vars
<1>34. QED
  BY <1>1, <1>2, <1>3, <1>4, <1>5, <1>6, <1>7, <1>8, <1>9, <1>10, <1>11, <1>12,
     <1>13, <1>14, <1>15, <1>16, <1>17, <1>18, <1>19, <1>20, <1>21, <1>22, <1>23, <1>24,
     <1>25, <1>26, <1>27, <1>28, <1>29, <1>30, <1>31, <1>32, <1>33
  DEF Next, Step, Polling

LEMMA ConfigMoves ==
  ASSUME TypeOK, Settles, Untargeted, [Next]_vars
  PROVE  \A q \in Claimant : ConfigMove(q)
<1> SUFFICES ASSUME NEW q \in Claimant PROVE ConfigMove(q)
  OBVIOUS
<1> /\ pc \in [Claimant -> Stage]
    /\ subject \in [Claimant -> Claimant]
    /\ config \subseteq Claimant
    /\ target \in [Adoption -> Pane \cup {None}]
  BY DEF TypeOK
<1> USE DEF ConfigMove, Settles, SettlesOf, Untargeted, UntargetedOf, Owns, PaneOf, Working
<1>1. ASSUME NEW c \in Creation, Start(c)
      PROVE  ConfigMove(q)
  BY <1>1, ClaimantsAssumption DEF Start, Goto, Claimant
<1>2. ASSUME NEW p \in Claimant, List(p)
      PROVE  ConfigMove(q)
  BY <1>2, ClaimantsAssumption DEF List, Goto
<1>3. ASSUME NEW p \in Claimant, NEW r \in Claimant, Ensure(p, r)
      PROVE  ConfigMove(q)
  BY <1>3, ClaimantsAssumption DEF Ensure, Onward
<1>4. ASSUME NEW p \in Claimant, Reconciled(p)
      PROVE  ConfigMove(q)
  BY <1>4, ClaimantsAssumption DEF Reconciled, Goto
<1>5. ASSUME NEW p \in Claimant, Judge(p)
      PROVE  ConfigMove(q)
  BY <1>5, ClaimantsAssumption DEF Judge, Goto
<1>6. ASSUME NEW p \in Claimant, Choose(p)
      PROVE  ConfigMove(q)
  BY <1>6, ClaimantsAssumption DEF Choose, Over
<1>7. ASSUME NEW p \in Claimant, Write(p)
      PROVE  ConfigMove(q)
  BY <1>7, ClaimantsAssumption DEF Write, Goto
<1>8. ASSUME NEW p \in Claimant, Allocate(p)
      PROVE  ConfigMove(q)
  BY <1>8, ClaimantsAssumption DEF Allocate, Goto
<1>9. ASSUME NEW p \in Claimant, BindRead(p)
      PROVE  ConfigMove(q)
  BY <1>9, ThrowMoves, ClaimantsAssumption DEF BindRead, Over, ThrownMove
<1>10. ASSUME NEW p \in Claimant, BindWrite(p)
      PROVE  ConfigMove(q)
  BY <1>10, ClaimantsAssumption DEF BindWrite, Goto
<1>11. ASSUME NEW p \in Claimant, Build(p)
      PROVE  ConfigMove(q)
  BY <1>11, ClaimantsAssumption DEF Build, Goto
<1>12. ASSUME NEW p \in Claimant, Persist(p)
      PROVE  ConfigMove(q)
  BY <1>12, ThrowMoves, ClaimantsAssumption DEF Persist, Over, ThrownMove
<1>13. ASSUME NEW p \in Claimant, Complete(p)
      PROVE  ConfigMove(q)
  BY <1>13, ThrowMoves, ClaimantsAssumption DEF Complete, Over, ThrownMove
<1>14. ASSUME NEW p \in Claimant, Clear(p)
      PROVE  ConfigMove(q)
  BY <1>14, ThrowMoves, ClaimantsAssumption DEF Clear, Onward, Over, ThrownMove
<1>15. ASSUME NEW p \in Claimant, Unblock(p)
      PROVE  ConfigMove(q)
  BY <1>15, ClaimantsAssumption DEF Unblock, Onward, Over
<1>16. ASSUME NEW p \in Claimant, Mark(p)
      PROVE  ConfigMove(q)
  BY <1>16, ClaimantsAssumption DEF Mark, Onward
<1>17. ASSUME NEW p \in Claimant, Shut(p)
      PROVE  ConfigMove(q)
  BY <1>17, MarkedMoves, ClaimantsAssumption DEF Shut, Over
<1>18. ASSUME NEW p \in Claimant, Stamp(p)
      PROVE  ConfigMove(q)
  BY <1>18, MarkedMoves, ClaimantsAssumption DEF Stamp, Over
<1>19. ASSUME NEW p \in Claimant, Failed(p)
      PROVE  ConfigMove(q)
  BY <1>19, ClaimantsAssumption DEF Failed, Goto
<1>20. ASSUME NEW p \in Claimant, Teardown(p)
      PROVE  ConfigMove(q)
  BY <1>20, ClaimantsAssumption DEF Teardown, Goto
<1>21. ASSUME NEW p \in Claimant, Retain(p)
      PROVE  ConfigMove(q)
  BY <1>21, ThrowMoves, ClaimantsAssumption DEF Retain, Over, ThrownMove
<1>22. ASSUME NEW p \in Claimant, Settle(p)
      PROVE  ConfigMove(q)
  BY <1>22, ClaimantsAssumption DEF Settle, Over
<1>23. ASSUME NEW a \in Adoption, Poll(a)
      PROVE  ConfigMove(q)
  BY <1>23, ClaimantsAssumption DEF Poll, Goto, Claimant
<1>24. ASSUME NEW a \in Adoption, Gate(a)
      PROVE  ConfigMove(q)
  BY <1>24, ClaimantsAssumption DEF Gate, Decision, Claimant
<1>25. ASSUME NEW a \in Adoption, Decide(a)
      PROVE  ConfigMove(q)
  BY <1>25, ClaimantsAssumption DEF Decide, Decision, Claimant
<1>26. ASSUME NEW a \in Adoption, ReadSaved(a)
      PROVE  ConfigMove(q)
  BY <1>26, ClaimantsAssumption DEF ReadSaved, Claimant
<1>27. ASSUME NEW p \in Claimant, Raise(p)
      PROVE  ConfigMove(q)
  BY <1>27, ThrowMoves, ClaimantsAssumption DEF Raise, Over, ThrownMove
<1>28. ASSUME NEW p \in Claimant, Die(p)
      PROVE  ConfigMove(q)
  BY <1>28, ClaimantsAssumption DEF Die
<1>29. ASSUME NEW r \in Claimant, AckRecord(r)
      PROVE  ConfigMove(q)
  BY <1>29, ClaimantsAssumption DEF AckRecord
<1>30. CASE AckMarker
  BY <1>30, ClaimantsAssumption DEF AckMarker
<1>31. ASSUME NEW x \in Pane, PaneDies(x)
      PROVE  ConfigMove(q)
  BY <1>31, ClaimantsAssumption DEF PaneDies
<1>32. ASSUME NEW r \in Claimant, Forget(r)
      PROVE  ConfigMove(q)
  BY <1>32, ClaimantsAssumption DEF Forget
<1>33. CASE UNCHANGED vars
  BY <1>33 DEF vars
<1>34. QED
  BY <1>1, <1>2, <1>3, <1>4, <1>5, <1>6, <1>7, <1>8, <1>9, <1>10, <1>11, <1>12,
     <1>13, <1>14, <1>15, <1>16, <1>17, <1>18, <1>19, <1>20, <1>21, <1>22, <1>23, <1>24,
     <1>25, <1>26, <1>27, <1>28, <1>29, <1>30, <1>31, <1>32, <1>33
  DEF Next, Step, Polling

LEMMA SlugMoves ==
  ASSUME TypeOK, [Next]_vars
  PROVE  SlugMove
<1> pc \in [Claimant -> Stage]
  BY DEF TypeOK
<1> USE DEF SlugMove
<1>1. ASSUME NEW c \in Creation, Start(c)
      PROVE  SlugMove
  BY <1>1 DEF Start, Goto, Claimant
<1>2. ASSUME NEW p \in Claimant, List(p)
      PROVE  SlugMove
  BY <1>2 DEF List, Goto
<1>3. ASSUME NEW p \in Claimant, NEW r \in Claimant, Ensure(p, r)
      PROVE  SlugMove
  BY <1>3 DEF Ensure, Onward
<1>4. ASSUME NEW p \in Claimant, Reconciled(p)
      PROVE  SlugMove
  BY <1>4 DEF Reconciled, Goto
<1>5. ASSUME NEW p \in Claimant, Judge(p)
      PROVE  SlugMove
  BY <1>5 DEF Judge, Goto
<1>6. ASSUME NEW p \in Claimant, Choose(p)
      PROVE  SlugMove
  BY <1>6 DEF Choose, Over
<1>7. ASSUME NEW p \in Claimant, Write(p)
      PROVE  SlugMove
  BY <1>7 DEF Write, Goto
<1>8. ASSUME NEW p \in Claimant, Allocate(p)
      PROVE  SlugMove
  BY <1>8 DEF Allocate, Goto
<1>9. ASSUME NEW p \in Claimant, BindRead(p)
      PROVE  SlugMove
  BY <1>9, ThrowMoves DEF BindRead, Over, ThrownMove
<1>10. ASSUME NEW p \in Claimant, BindWrite(p)
      PROVE  SlugMove
  BY <1>10 DEF BindWrite, Goto
<1>11. ASSUME NEW p \in Claimant, Build(p)
      PROVE  SlugMove
  BY <1>11 DEF Build, Goto
<1>12. ASSUME NEW p \in Claimant, Persist(p)
      PROVE  SlugMove
  BY <1>12, ThrowMoves DEF Persist, Over, ThrownMove
<1>13. ASSUME NEW p \in Claimant, Complete(p)
      PROVE  SlugMove
  BY <1>13, ThrowMoves DEF Complete, Over, ThrownMove
<1>14. ASSUME NEW p \in Claimant, Clear(p)
      PROVE  SlugMove
  BY <1>14, ThrowMoves DEF Clear, Onward, Over, ThrownMove
<1>15. ASSUME NEW p \in Claimant, Unblock(p)
      PROVE  SlugMove
  BY <1>15 DEF Unblock, Onward, Over
<1>16. ASSUME NEW p \in Claimant, Mark(p)
      PROVE  SlugMove
  BY <1>16 DEF Mark, Onward
<1>17. ASSUME NEW p \in Claimant, Shut(p)
      PROVE  SlugMove
  BY <1>17, MarkedMoves DEF Shut, Over
<1>18. ASSUME NEW p \in Claimant, Stamp(p)
      PROVE  SlugMove
  BY <1>18, MarkedMoves DEF Stamp, Over
<1>19. ASSUME NEW p \in Claimant, Failed(p)
      PROVE  SlugMove
  BY <1>19 DEF Failed, Goto
<1>20. ASSUME NEW p \in Claimant, Teardown(p)
      PROVE  SlugMove
  BY <1>20 DEF Teardown, Goto
<1>21. ASSUME NEW p \in Claimant, Retain(p)
      PROVE  SlugMove
  BY <1>21, ThrowMoves DEF Retain, Over, ThrownMove
<1>22. ASSUME NEW p \in Claimant, Settle(p)
      PROVE  SlugMove
  BY <1>22 DEF Settle, Over
<1>23. ASSUME NEW a \in Adoption, Poll(a)
      PROVE  SlugMove
  BY <1>23 DEF Poll, Goto, Claimant
<1>24. ASSUME NEW a \in Adoption, Gate(a)
      PROVE  SlugMove
  BY <1>24 DEF Gate, Decision, Claimant
<1>25. ASSUME NEW a \in Adoption, Decide(a)
      PROVE  SlugMove
  BY <1>25 DEF Decide, Decision, Claimant
<1>26. ASSUME NEW a \in Adoption, ReadSaved(a)
      PROVE  SlugMove
  BY <1>26 DEF ReadSaved, Claimant
<1>27. ASSUME NEW p \in Claimant, Raise(p)
      PROVE  SlugMove
  BY <1>27, ThrowMoves DEF Raise, Over, ThrownMove
<1>28. ASSUME NEW p \in Claimant, Die(p)
      PROVE  SlugMove
  BY <1>28 DEF Die
<1>29. ASSUME NEW r \in Claimant, AckRecord(r)
      PROVE  SlugMove
  BY <1>29 DEF AckRecord
<1>30. CASE AckMarker
  BY <1>30 DEF AckMarker
<1>31. ASSUME NEW x \in Pane, PaneDies(x)
      PROVE  SlugMove
  BY <1>31 DEF PaneDies
<1>32. ASSUME NEW r \in Claimant, Forget(r)
      PROVE  SlugMove
  BY <1>32 DEF Forget
<1>33. CASE UNCHANGED vars
  BY <1>33 DEF vars
<1>34. QED
  BY <1>1, <1>2, <1>3, <1>4, <1>5, <1>6, <1>7, <1>8, <1>9, <1>10, <1>11, <1>12,
     <1>13, <1>14, <1>15, <1>16, <1>17, <1>18, <1>19, <1>20, <1>21, <1>22, <1>23, <1>24,
     <1>25, <1>26, <1>27, <1>28, <1>29, <1>30, <1>31, <1>32, <1>33
  DEF Next, Step, Polling

\* What a poller goes on with is nobody's whose record it has not passed over.
LEMMA DecisionMoves ==
  ASSUME TypeOK, NEW a \in Adoption, NEW part \in Part, Decision(a, part)
  PROVE  /\ \A q \in Adoption \ {a} : pc'[q] = pc[q] /\ seen'[q] = seen[q] /\ passed'[q] = passed[q]
         /\ target[a] = None \/ passed' = passed
         /\ pc'[a] = "saved" =>
              /\ seen'[a] \subseteq seen[a]
              /\ \E late \in SUBSET alive :
                   /\ seen'[a] \cap Named(late) = {} /\ ~Deferred(late)
                   /\ (seen'[a] \cap Creation) \cap late \subseteq passed'[a]
<1> /\ pc \in [Claimant -> Stage] /\ Adoption \subseteq Claimant
    /\ seen \in [Adoption -> SUBSET Pane] /\ passed \in [Adoption -> SUBSET Creation]
  BY DEF TypeOK, Claimant
<1> DEFINE left(late) == seen[a] \ Named(late)
<1>1. PICK late \in SUBSET alive :
        \/ pc' = [pc EXCEPT ![a] = "poll"] /\ seen' = [seen EXCEPT ![a] = {}] /\ passed' = passed
        \/ /\ target[a] = None /\ ~Deferred(late)
           /\ pc' = [pc EXCEPT ![a] = "saved"]
           /\ seen' = [seen EXCEPT ![a] = left(late)]
           /\ passed' = [passed EXCEPT ![a] = late \cap left(late) \cap Creation]
  BY DEF Decision, InFlight
<1> HIDE DEF left
<1>2. left(late) \subseteq seen[a] /\ left(late) \cap Named(late) = {}
  BY DEF left
<1>3. QED
  BY <1>1, <1>2

LEMMA TargetMoves ==
  ASSUME TypeOK, [Next]_vars
  PROVE  \A q \in Adoption : TargetMove(q)
<1> SUFFICES ASSUME NEW q \in Adoption PROVE TargetMove(q)
  OBVIOUS
<1> /\ pc \in [Claimant -> Stage]
    /\ target \in [Adoption -> Pane \cup {None}]
    /\ seen \in [Adoption -> SUBSET Pane]
    /\ passed \in [Adoption -> SUBSET Creation]
  BY DEF TypeOK
<1> USE DEF TargetMove, Claimant
<1>1. ASSUME NEW c \in Creation, Start(c)
      PROVE  TargetMove(q)
  BY <1>1 DEF Start, Goto
<1>2. ASSUME NEW p \in Claimant, List(p)
      PROVE  TargetMove(q)
  BY <1>2 DEF List, Goto
<1>3. ASSUME NEW p \in Claimant, NEW r \in Claimant, Ensure(p, r)
      PROVE  TargetMove(q)
  BY <1>3 DEF Ensure, Onward
<1>4. ASSUME NEW p \in Claimant, Reconciled(p)
      PROVE  TargetMove(q)
  BY <1>4 DEF Reconciled, Goto
<1>5. ASSUME NEW p \in Claimant, Judge(p)
      PROVE  TargetMove(q)
  BY <1>5 DEF Judge, Goto
<1>6. ASSUME NEW p \in Claimant, Choose(p)
      PROVE  TargetMove(q)
  BY <1>6 DEF Choose, Over
<1>7. ASSUME NEW p \in Claimant, Write(p)
      PROVE  TargetMove(q)
  BY <1>7 DEF Write, Goto
<1>8. ASSUME NEW p \in Claimant, Allocate(p)
      PROVE  TargetMove(q)
  BY <1>8 DEF Allocate, Goto
<1>9. ASSUME NEW p \in Claimant, BindRead(p)
      PROVE  TargetMove(q)
  BY <1>9, ThrowMoves DEF BindRead, Over, ThrownMove
<1>10. ASSUME NEW p \in Claimant, BindWrite(p)
      PROVE  TargetMove(q)
  BY <1>10 DEF BindWrite, Goto
<1>11. ASSUME NEW p \in Claimant, Build(p)
      PROVE  TargetMove(q)
  BY <1>11 DEF Build, Goto
<1>12. ASSUME NEW p \in Claimant, Persist(p)
      PROVE  TargetMove(q)
  BY <1>12, ThrowMoves DEF Persist, Over, ThrownMove
<1>13. ASSUME NEW p \in Claimant, Complete(p)
      PROVE  TargetMove(q)
  BY <1>13, ThrowMoves DEF Complete, Over, ThrownMove
<1>14. ASSUME NEW p \in Claimant, Clear(p)
      PROVE  TargetMove(q)
  BY <1>14, ThrowMoves DEF Clear, Onward, Over, ThrownMove
<1>15. ASSUME NEW p \in Claimant, Unblock(p)
      PROVE  TargetMove(q)
  BY <1>15 DEF Unblock, Onward, Over
<1>16. ASSUME NEW p \in Claimant, Mark(p)
      PROVE  TargetMove(q)
  BY <1>16 DEF Mark, Onward
<1>17. ASSUME NEW p \in Claimant, Shut(p)
      PROVE  TargetMove(q)
  BY <1>17, MarkedMoves DEF Shut, Over
<1>18. ASSUME NEW p \in Claimant, Stamp(p)
      PROVE  TargetMove(q)
  BY <1>18, MarkedMoves DEF Stamp, Over
<1>19. ASSUME NEW p \in Claimant, Failed(p)
      PROVE  TargetMove(q)
  BY <1>19 DEF Failed, Goto
<1>20. ASSUME NEW p \in Claimant, Teardown(p)
      PROVE  TargetMove(q)
  BY <1>20 DEF Teardown, Goto
<1>21. ASSUME NEW p \in Claimant, Retain(p)
      PROVE  TargetMove(q)
  BY <1>21, ThrowMoves DEF Retain, Over, ThrownMove
<1>22. ASSUME NEW p \in Claimant, Settle(p)
      PROVE  TargetMove(q)
  BY <1>22 DEF Settle, Over
<1>23. ASSUME NEW a \in Adoption, Poll(a)
      PROVE  TargetMove(q)
  BY <1>23 DEF Poll, Goto, Saved
<1>24. ASSUME NEW a \in Adoption, Gate(a)
      PROVE  TargetMove(q)
  <2>1. UNCHANGED <<target, record, alive, got>>
    BY <1>24 DEF Gate
  <2>2. CASE pc' = [pc EXCEPT ![a] = "list"] /\ UNCHANGED <<seen, passed>>
    BY <2>1, <2>2
  <2>3. CASE Decision(a, "reserve")
    BY <2>1, <2>3, DecisionMoves DEF Part
  <2>4. QED
    BY <1>24, <2>2, <2>3 DEF Gate
<1>25. ASSUME NEW a \in Adoption, Decide(a)
      PROVE  TargetMove(q)
  <2>1. UNCHANGED <<target, record, alive, got>> /\ Decision(a, "gate")
    BY <1>25 DEF Decide
  <2>2. QED
    BY <2>1, DecisionMoves DEF Part
<1>26. ASSUME NEW a \in Adoption, ReadSaved(a)
      PROVE  TargetMove(q)
  BY <1>26 DEF ReadSaved, SavedByNow, Saved
<1>27. ASSUME NEW p \in Claimant, Raise(p)
      PROVE  TargetMove(q)
  BY <1>27, ThrowMoves DEF Raise, Over, ThrownMove
<1>28. ASSUME NEW p \in Claimant, Die(p)
      PROVE  TargetMove(q)
  BY <1>28 DEF Die
<1>29. ASSUME NEW r \in Claimant, AckRecord(r)
      PROVE  TargetMove(q)
  BY <1>29 DEF AckRecord
<1>30. CASE AckMarker
  BY <1>30 DEF AckMarker
<1>31. ASSUME NEW x \in Pane, PaneDies(x)
      PROVE  TargetMove(q)
  BY <1>31 DEF PaneDies
<1>32. ASSUME NEW r \in Claimant, Forget(r)
      PROVE  TargetMove(q)
  BY <1>32 DEF Forget
<1>33. CASE UNCHANGED vars
  BY <1>33 DEF vars
<1>34. QED
  BY <1>1, <1>2, <1>3, <1>4, <1>5, <1>6, <1>7, <1>8, <1>9, <1>10, <1>11, <1>12,
     <1>13, <1>14, <1>15, <1>16, <1>17, <1>18, <1>19, <1>20, <1>21, <1>22, <1>23, <1>24,
     <1>25, <1>26, <1>27, <1>28, <1>29, <1>30, <1>31, <1>32, <1>33
  DEF Next, Step, Polling

LEMMA CreationMoves ==
  ASSUME TypeOK, [Next]_vars
  PROVE  \A q \in Creation : CreationMove(q)
<1> SUFFICES ASSUME NEW q \in Creation PROVE CreationMove(q)
  OBVIOUS
<1> /\ pc \in [Claimant -> Stage]
    /\ got \in [Claimant -> {"nothing", "pane", "record"}]
    /\ alive \subseteq Claimant
  BY DEF TypeOK
<1> USE DEF CreationMove, Claimant
<1>1. ASSUME NEW c \in Creation, Start(c)
      PROVE  CreationMove(q)
  BY <1>1 DEF Start, Goto
<1>2. ASSUME NEW p \in Claimant, List(p)
      PROVE  CreationMove(q)
  BY <1>2 DEF List, Goto
<1>3. ASSUME NEW p \in Claimant, NEW r \in Claimant, Ensure(p, r)
      PROVE  CreationMove(q)
  BY <1>3 DEF Ensure, Onward
<1>4. ASSUME NEW p \in Claimant, Reconciled(p)
      PROVE  CreationMove(q)
  BY <1>4 DEF Reconciled, Goto
<1>5. ASSUME NEW p \in Claimant, Judge(p)
      PROVE  CreationMove(q)
  BY <1>5 DEF Judge, Goto
<1>6. ASSUME NEW p \in Claimant, Choose(p)
      PROVE  CreationMove(q)
  BY <1>6 DEF Choose, Over
<1>7. ASSUME NEW p \in Claimant, Write(p)
      PROVE  CreationMove(q)
  BY <1>7 DEF Write, Goto
<1>8. ASSUME NEW p \in Claimant, Allocate(p)
      PROVE  CreationMove(q)
  BY <1>8 DEF Allocate, Goto
<1>9. ASSUME NEW p \in Claimant, BindRead(p)
      PROVE  CreationMove(q)
  BY <1>9, ThrowMoves DEF BindRead, Over, ThrownMove
<1>10. ASSUME NEW p \in Claimant, BindWrite(p)
      PROVE  CreationMove(q)
  BY <1>10 DEF BindWrite, Goto
<1>11. ASSUME NEW p \in Claimant, Build(p)
      PROVE  CreationMove(q)
  BY <1>11 DEF Build, Goto
<1>12. ASSUME NEW p \in Claimant, Persist(p)
      PROVE  CreationMove(q)
  BY <1>12, ThrowMoves DEF Persist, Over, ThrownMove
<1>13. ASSUME NEW p \in Claimant, Complete(p)
      PROVE  CreationMove(q)
  BY <1>13, ThrowMoves DEF Complete, Over, ThrownMove
<1>14. ASSUME NEW p \in Claimant, Clear(p)
      PROVE  CreationMove(q)
  BY <1>14, ThrowMoves DEF Clear, Onward, Over, ThrownMove
<1>15. ASSUME NEW p \in Claimant, Unblock(p)
      PROVE  CreationMove(q)
  BY <1>15 DEF Unblock, Onward, Over
<1>16. ASSUME NEW p \in Claimant, Mark(p)
      PROVE  CreationMove(q)
  BY <1>16 DEF Mark, Onward
<1>17. ASSUME NEW p \in Claimant, Shut(p)
      PROVE  CreationMove(q)
  BY <1>17, MarkedMoves DEF Shut, Over
<1>18. ASSUME NEW p \in Claimant, Stamp(p)
      PROVE  CreationMove(q)
  BY <1>18, MarkedMoves DEF Stamp, Over
<1>19. ASSUME NEW p \in Claimant, Failed(p)
      PROVE  CreationMove(q)
  BY <1>19 DEF Failed, Goto
<1>20. ASSUME NEW p \in Claimant, Teardown(p)
      PROVE  CreationMove(q)
  BY <1>20 DEF Teardown, Goto
<1>21. ASSUME NEW p \in Claimant, Retain(p)
      PROVE  CreationMove(q)
  BY <1>21, ThrowMoves DEF Retain, Over, ThrownMove
<1>22. ASSUME NEW p \in Claimant, Settle(p)
      PROVE  CreationMove(q)
  BY <1>22 DEF Settle, Over
<1>23. ASSUME NEW a \in Adoption, Poll(a)
      PROVE  CreationMove(q)
  BY <1>23 DEF Poll, Goto
<1>24. ASSUME NEW a \in Adoption, Gate(a)
      PROVE  CreationMove(q)
  BY <1>24 DEF Gate, Decision
<1>25. ASSUME NEW a \in Adoption, Decide(a)
      PROVE  CreationMove(q)
  BY <1>25 DEF Decide, Decision
<1>26. ASSUME NEW a \in Adoption, ReadSaved(a)
      PROVE  CreationMove(q)
  BY <1>26 DEF ReadSaved
<1>27. ASSUME NEW p \in Claimant, Raise(p)
      PROVE  CreationMove(q)
  BY <1>27, ThrowMoves DEF Raise, Over, ThrownMove
<1>28. ASSUME NEW p \in Claimant, Die(p)
      PROVE  CreationMove(q)
  BY <1>28 DEF Die
<1>29. ASSUME NEW r \in Claimant, AckRecord(r)
      PROVE  CreationMove(q)
  BY <1>29 DEF AckRecord
<1>30. CASE AckMarker
  BY <1>30 DEF AckMarker
<1>31. ASSUME NEW x \in Pane, PaneDies(x)
      PROVE  CreationMove(q)
  BY <1>31 DEF PaneDies
<1>32. ASSUME NEW r \in Claimant, Forget(r)
      PROVE  CreationMove(q)
  BY <1>32 DEF Forget
<1>33. CASE UNCHANGED vars
  BY <1>33 DEF vars
<1>34. QED
  BY <1>1, <1>2, <1>3, <1>4, <1>5, <1>6, <1>7, <1>8, <1>9, <1>10, <1>11, <1>12,
     <1>13, <1>14, <1>15, <1>16, <1>17, <1>18, <1>19, <1>20, <1>21, <1>22, <1>23, <1>24,
     <1>25, <1>26, <1>27, <1>28, <1>29, <1>30, <1>31, <1>32, <1>33
  DEF Next, Step, Polling

LEMMA AckedMoves ==
  ASSUME TypeOK, [Next]_vars
  PROVE  acked \subseteq acked'
<1> pc \in [Claimant -> Stage]
  BY DEF TypeOK
<1> USE DEF Unlock
<1>1. ASSUME NEW c \in Creation, Start(c)
      PROVE  acked \subseteq acked'
  BY <1>1 DEF Start, Goto, Claimant
<1>2. ASSUME NEW p \in Claimant, List(p)
      PROVE  acked \subseteq acked'
  BY <1>2 DEF List, Goto
<1>3. ASSUME NEW p \in Claimant, NEW r \in Claimant, Ensure(p, r)
      PROVE  acked \subseteq acked'
  BY <1>3 DEF Ensure, Onward
<1>4. ASSUME NEW p \in Claimant, Reconciled(p)
      PROVE  acked \subseteq acked'
  BY <1>4 DEF Reconciled, Goto
<1>5. ASSUME NEW p \in Claimant, Judge(p)
      PROVE  acked \subseteq acked'
  BY <1>5 DEF Judge, Goto
<1>6. ASSUME NEW p \in Claimant, Choose(p)
      PROVE  acked \subseteq acked'
  BY <1>6 DEF Choose, Over
<1>7. ASSUME NEW p \in Claimant, Write(p)
      PROVE  acked \subseteq acked'
  BY <1>7 DEF Write, Goto
<1>8. ASSUME NEW p \in Claimant, Allocate(p)
      PROVE  acked \subseteq acked'
  BY <1>8 DEF Allocate, Goto
<1>9. ASSUME NEW p \in Claimant, BindRead(p)
      PROVE  acked \subseteq acked'
  BY <1>9, ThrowMoves DEF BindRead, Over, ThrownMove
<1>10. ASSUME NEW p \in Claimant, BindWrite(p)
      PROVE  acked \subseteq acked'
  BY <1>10 DEF BindWrite, Goto
<1>11. ASSUME NEW p \in Claimant, Build(p)
      PROVE  acked \subseteq acked'
  BY <1>11 DEF Build, Goto
<1>12. ASSUME NEW p \in Claimant, Persist(p)
      PROVE  acked \subseteq acked'
  BY <1>12, ThrowMoves DEF Persist, Over, ThrownMove
<1>13. ASSUME NEW p \in Claimant, Complete(p)
      PROVE  acked \subseteq acked'
  BY <1>13, ThrowMoves DEF Complete, Over, ThrownMove
<1>14. ASSUME NEW p \in Claimant, Clear(p)
      PROVE  acked \subseteq acked'
  BY <1>14, ThrowMoves DEF Clear, Onward, Over, ThrownMove
<1>15. ASSUME NEW p \in Claimant, Unblock(p)
      PROVE  acked \subseteq acked'
  BY <1>15 DEF Unblock, Onward, Over
<1>16. ASSUME NEW p \in Claimant, Mark(p)
      PROVE  acked \subseteq acked'
  BY <1>16 DEF Mark, Onward
<1>17. ASSUME NEW p \in Claimant, Shut(p)
      PROVE  acked \subseteq acked'
  BY <1>17, MarkedMoves DEF Shut, Over
<1>18. ASSUME NEW p \in Claimant, Stamp(p)
      PROVE  acked \subseteq acked'
  BY <1>18, MarkedMoves DEF Stamp, Over
<1>19. ASSUME NEW p \in Claimant, Failed(p)
      PROVE  acked \subseteq acked'
  BY <1>19 DEF Failed, Goto
<1>20. ASSUME NEW p \in Claimant, Teardown(p)
      PROVE  acked \subseteq acked'
  BY <1>20 DEF Teardown, Goto
<1>21. ASSUME NEW p \in Claimant, Retain(p)
      PROVE  acked \subseteq acked'
  BY <1>21, ThrowMoves DEF Retain, Over, ThrownMove
<1>22. ASSUME NEW p \in Claimant, Settle(p)
      PROVE  acked \subseteq acked'
  BY <1>22 DEF Settle, Over
<1>23. ASSUME NEW a \in Adoption, Poll(a)
      PROVE  acked \subseteq acked'
  BY <1>23 DEF Poll, Goto, Claimant
<1>24. ASSUME NEW a \in Adoption, Gate(a)
      PROVE  acked \subseteq acked'
  BY <1>24 DEF Gate, Decision, Claimant
<1>25. ASSUME NEW a \in Adoption, Decide(a)
      PROVE  acked \subseteq acked'
  BY <1>25 DEF Decide, Decision, Claimant
<1>26. ASSUME NEW a \in Adoption, ReadSaved(a)
      PROVE  acked \subseteq acked'
  BY <1>26 DEF ReadSaved, Claimant
<1>27. ASSUME NEW p \in Claimant, Raise(p)
      PROVE  acked \subseteq acked'
  BY <1>27, ThrowMoves DEF Raise, Over, ThrownMove
<1>28. ASSUME NEW p \in Claimant, Die(p)
      PROVE  acked \subseteq acked'
  BY <1>28 DEF Die
<1>29. ASSUME NEW r \in Claimant, AckRecord(r)
      PROVE  acked \subseteq acked'
  BY <1>29 DEF AckRecord
<1>30. CASE AckMarker
  BY <1>30 DEF AckMarker
<1>31. ASSUME NEW x \in Pane, PaneDies(x)
      PROVE  acked \subseteq acked'
  BY <1>31 DEF PaneDies
<1>32. ASSUME NEW r \in Claimant, Forget(r)
      PROVE  acked \subseteq acked'
  BY <1>32 DEF Forget
<1>33. CASE UNCHANGED vars
  BY <1>33 DEF vars
<1>34. QED
  BY <1>1, <1>2, <1>3, <1>4, <1>5, <1>6, <1>7, <1>8, <1>9, <1>10, <1>11, <1>12,
     <1>13, <1>14, <1>15, <1>16, <1>17, <1>18, <1>19, <1>20, <1>21, <1>22, <1>23, <1>24,
     <1>25, <1>26, <1>27, <1>28, <1>29, <1>30, <1>31, <1>32, <1>33
  DEF Next, Step, Polling

LEMMA AckingMoves ==
  ASSUME TypeOK, Lives, Settles, AtWork, Locked, [Next]_vars
  PROVE  AckingMove
<1> /\ pc \in [Claimant -> Stage]
    /\ slugLock \in Claimant \cup {None, "operator"}
  BY DEF TypeOK
<1> USE DEF AckingMove, Lives, Settles, SettlesOf, AtWork, AtWorkOn, Working, Locked, Holds
<1>1. ASSUME NEW c \in Creation, Start(c)
      PROVE  AckingMove
  BY <1>1, ClaimantsAssumption DEF Start, Goto, Claimant
<1>2. ASSUME NEW p \in Claimant, List(p)
      PROVE  AckingMove
  BY <1>2, ClaimantsAssumption DEF List, Goto
<1>3. ASSUME NEW p \in Claimant, NEW r \in Claimant, Ensure(p, r)
      PROVE  AckingMove
  BY <1>3, ClaimantsAssumption DEF Ensure, Onward
<1>4. ASSUME NEW p \in Claimant, Reconciled(p)
      PROVE  AckingMove
  BY <1>4, ClaimantsAssumption DEF Reconciled, Goto
<1>5. ASSUME NEW p \in Claimant, Judge(p)
      PROVE  AckingMove
  BY <1>5, ClaimantsAssumption DEF Judge, Goto
<1>6. ASSUME NEW p \in Claimant, Choose(p)
      PROVE  AckingMove
  BY <1>6, ClaimantsAssumption DEF Choose, Lock, Unlocked, Over
<1>7. ASSUME NEW p \in Claimant, Write(p)
      PROVE  AckingMove
  BY <1>7, ClaimantsAssumption DEF Write, Goto, Unlock
<1>8. ASSUME NEW p \in Claimant, Allocate(p)
      PROVE  AckingMove
  BY <1>8, ClaimantsAssumption DEF Allocate, Goto
<1>9. ASSUME NEW p \in Claimant, BindRead(p)
      PROVE  AckingMove
  BY <1>9, ThrowMoves, ClaimantsAssumption DEF BindRead, Over, ThrownMove
<1>10. ASSUME NEW p \in Claimant, BindWrite(p)
      PROVE  AckingMove
  BY <1>10, ClaimantsAssumption DEF BindWrite, Goto
<1>11. ASSUME NEW p \in Claimant, Build(p)
      PROVE  AckingMove
  BY <1>11, ClaimantsAssumption DEF Build, Goto
<1>12. ASSUME NEW p \in Claimant, Persist(p)
      PROVE  AckingMove
  BY <1>12, ThrowMoves, ClaimantsAssumption DEF Persist, Over, ThrownMove
<1>13. ASSUME NEW p \in Claimant, Complete(p)
      PROVE  AckingMove
  BY <1>13, ThrowMoves, ClaimantsAssumption DEF Complete, Over, ThrownMove
<1>14. ASSUME NEW p \in Claimant, Clear(p)
      PROVE  AckingMove
  BY <1>14, ThrowMoves, ClaimantsAssumption DEF Clear, Onward, Over, ThrownMove
<1>15. ASSUME NEW p \in Claimant, Unblock(p)
      PROVE  AckingMove
  BY <1>15, ClaimantsAssumption DEF Unblock, Onward, Over
<1>16. ASSUME NEW p \in Claimant, Mark(p)
      PROVE  AckingMove
  BY <1>16, ClaimantsAssumption DEF Mark, Onward, Lock
<1>17. ASSUME NEW p \in Claimant, Shut(p)
      PROVE  AckingMove
  BY <1>17, MarkedMoves, ClaimantsAssumption DEF Shut, Lock, Unlock, Over
<1>18. ASSUME NEW p \in Claimant, Stamp(p)
      PROVE  AckingMove
  BY <1>18, MarkedMoves, ClaimantsAssumption DEF Stamp, Unlock, Over
<1>19. ASSUME NEW p \in Claimant, Failed(p)
      PROVE  AckingMove
  BY <1>19, ClaimantsAssumption DEF Failed, Goto
<1>20. ASSUME NEW p \in Claimant, Teardown(p)
      PROVE  AckingMove
  BY <1>20, ClaimantsAssumption DEF Teardown, Goto
<1>21. ASSUME NEW p \in Claimant, Retain(p)
      PROVE  AckingMove
  BY <1>21, ThrowMoves, ClaimantsAssumption DEF Retain, Over, ThrownMove
<1>22. ASSUME NEW p \in Claimant, Settle(p)
      PROVE  AckingMove
  BY <1>22, ClaimantsAssumption DEF Settle, Over
<1>23. ASSUME NEW a \in Adoption, Poll(a)
      PROVE  AckingMove
  BY <1>23, ClaimantsAssumption DEF Poll, Goto, Claimant
<1>24. ASSUME NEW a \in Adoption, Gate(a)
      PROVE  AckingMove
  BY <1>24, ClaimantsAssumption DEF Gate, Decision, Claimant
<1>25. ASSUME NEW a \in Adoption, Decide(a)
      PROVE  AckingMove
  BY <1>25, ClaimantsAssumption DEF Decide, Decision, Claimant
<1>26. ASSUME NEW a \in Adoption, ReadSaved(a)
      PROVE  AckingMove
  BY <1>26, ClaimantsAssumption DEF ReadSaved, Claimant
<1>27. ASSUME NEW p \in Claimant, Raise(p)
      PROVE  AckingMove
  BY <1>27, ThrowMoves, ClaimantsAssumption DEF Raise, Unlock, Over, ThrownMove
<1>28. ASSUME NEW p \in Claimant, Die(p)
      PROVE  AckingMove
  BY <1>28, ClaimantsAssumption DEF Die, Unlock
<1>29. ASSUME NEW r \in Claimant, AckRecord(r)
      PROVE  AckingMove
  BY <1>29, ClaimantsAssumption DEF AckRecord, Unlocked, Lock
<1>30. CASE AckMarker
  BY <1>30, ClaimantsAssumption DEF AckMarker, Unlock
<1>31. ASSUME NEW x \in Pane, PaneDies(x)
      PROVE  AckingMove
  BY <1>31, ClaimantsAssumption DEF PaneDies
<1>32. ASSUME NEW r \in Claimant, Forget(r)
      PROVE  AckingMove
  BY <1>32, ClaimantsAssumption DEF Forget
<1>33. CASE UNCHANGED vars
  BY <1>33 DEF vars
<1>34. QED
  BY <1>1, <1>2, <1>3, <1>4, <1>5, <1>6, <1>7, <1>8, <1>9, <1>10, <1>11, <1>12,
     <1>13, <1>14, <1>15, <1>16, <1>17, <1>18, <1>19, <1>20, <1>21, <1>22, <1>23, <1>24,
     <1>25, <1>26, <1>27, <1>28, <1>29, <1>30, <1>31, <1>32, <1>33
  DEF Next, Step, Polling

-----------------------------------------------------------------------------
(* What a process owns, has chosen, and leaves unprotected. *)

LEMMA UnreservedStep ==
  ASSUME TypeOK, Lives, Settles, Parts, AtWork, Locked, Unreserved, Untargeted, [Next]_vars
  PROVE  Unreserved'
<1> SUFFICES ASSUME NEW q \in Claimant PROVE UnreservedOf(q)'
  BY DEF Unreserved
<1> /\ pc \in [Claimant -> Stage]
    /\ phase \in [Claimant -> Part]
    /\ todo \in [Claimant -> [Claimant -> Record]]
    /\ subject \in [Claimant -> Claimant]
    /\ record \in [Claimant -> Record]
    /\ got \in [Claimant -> {"nothing", "pane", "record"}]
    /\ alive \subseteq Claimant
    /\ config \subseteq Claimant
  BY DEF TypeOK
<1> USE DEF Unreserved, UnreservedOf, Owns, Lives, AtWork, AtWorkOn, Working, Settles, SettlesOf, Locked, Holds, Parts, PartOf, Untargeted, UntargetedOf
<1>1. ASSUME NEW c \in Creation, Start(c)
      PROVE  UnreservedOf(q)'
  BY <1>1, ClaimantsAssumption DEF Start, Goto, Claimant
<1>2. ASSUME NEW p \in Claimant, List(p)
      PROVE  UnreservedOf(q)'
  BY <1>2, ClaimantsAssumption DEF List, Goto
<1>3. ASSUME NEW p \in Claimant, NEW r \in Claimant, Ensure(p, r)
      PROVE  UnreservedOf(q)'
  BY <1>3, ClaimantsAssumption DEF Ensure, Onward
<1>4. ASSUME NEW p \in Claimant, Reconciled(p)
      PROVE  UnreservedOf(q)'
  BY <1>4, ClaimantsAssumption DEF Reconciled, Goto
<1>5. ASSUME NEW p \in Claimant, Judge(p)
      PROVE  UnreservedOf(q)'
  BY <1>5, ClaimantsAssumption DEF Judge, Goto
<1>6. ASSUME NEW p \in Claimant, Choose(p)
      PROVE  UnreservedOf(q)'
  BY <1>6, ClaimantsAssumption DEF Choose, Over
<1>7. ASSUME NEW p \in Claimant, Write(p)
      PROVE  UnreservedOf(q)'
  BY <1>7, ClaimantsAssumption DEF Write, Goto
<1>8. ASSUME NEW p \in Claimant, Allocate(p)
      PROVE  UnreservedOf(q)'
  BY <1>8, ClaimantsAssumption DEF Allocate, Goto
<1>9. ASSUME NEW p \in Claimant, BindRead(p)
      PROVE  UnreservedOf(q)'
  BY <1>9, ThrowMoves, ClaimantsAssumption DEF BindRead, Over, ThrownMove
<1>10. ASSUME NEW p \in Claimant, BindWrite(p)
      PROVE  UnreservedOf(q)'
  BY <1>10, ClaimantsAssumption DEF BindWrite, Goto
<1>11. ASSUME NEW p \in Claimant, Build(p)
      PROVE  UnreservedOf(q)'
  BY <1>11, ClaimantsAssumption DEF Build, Goto
<1>12. ASSUME NEW p \in Claimant, Persist(p)
      PROVE  UnreservedOf(q)'
  <2>1. CASE q = p
    BY <1>12, <2>1, ThrowMoves, ClaimantsAssumption DEF Persist, Over, ThrownMove
  <2>2. CASE q # p
    BY <1>12, <2>2, ThrowMoves, ClaimantsAssumption DEF Persist, Over, ThrownMove
  <2>3. QED
    BY <2>1, <2>2
<1>13. ASSUME NEW p \in Claimant, Complete(p)
      PROVE  UnreservedOf(q)'
  <2>1. CASE q = p
    BY <1>13, <2>1, ThrowMoves, ClaimantsAssumption DEF Complete, Over, ThrownMove
  <2>2. CASE q # p
    BY <1>13, <2>2, ThrowMoves, ClaimantsAssumption DEF Complete, Over, ThrownMove
  <2>3. QED
    BY <2>1, <2>2
<1>14. ASSUME NEW p \in Claimant, Clear(p)
      PROVE  UnreservedOf(q)'
  BY <1>14, ThrowMoves, ClaimantsAssumption DEF Clear, Onward, Over, ThrownMove
<1>15. ASSUME NEW p \in Claimant, Unblock(p)
      PROVE  UnreservedOf(q)'
  BY <1>15, ClaimantsAssumption DEF Unblock, Onward, Over
<1>16. ASSUME NEW p \in Claimant, Mark(p)
      PROVE  UnreservedOf(q)'
  BY <1>16, ClaimantsAssumption DEF Mark, Onward
<1>17. ASSUME NEW p \in Claimant, Shut(p)
      PROVE  UnreservedOf(q)'
  BY <1>17, MarkedMoves, ClaimantsAssumption DEF Shut, Over
<1>18. ASSUME NEW p \in Claimant, Stamp(p)
      PROVE  UnreservedOf(q)'
  BY <1>18, MarkedMoves, ClaimantsAssumption DEF Stamp, Over
<1>19. ASSUME NEW p \in Claimant, Failed(p)
      PROVE  UnreservedOf(q)'
  BY <1>19, ClaimantsAssumption DEF Failed, Goto
<1>20. ASSUME NEW p \in Claimant, Teardown(p)
      PROVE  UnreservedOf(q)'
  BY <1>20, ClaimantsAssumption DEF Teardown, Goto
<1>21. ASSUME NEW p \in Claimant, Retain(p)
      PROVE  UnreservedOf(q)'
  BY <1>21, ThrowMoves, ClaimantsAssumption DEF Retain, Over, ThrownMove
<1>22. ASSUME NEW p \in Claimant, Settle(p)
      PROVE  UnreservedOf(q)'
  BY <1>22, ClaimantsAssumption DEF Settle, Over
<1>23. ASSUME NEW a \in Adoption, Poll(a)
      PROVE  UnreservedOf(q)'
  BY <1>23, ClaimantsAssumption DEF Poll, Goto, Claimant
<1>24. ASSUME NEW a \in Adoption, Gate(a)
      PROVE  UnreservedOf(q)'
  <2>1. CASE q = a
    BY <1>24, <2>1, ClaimantsAssumption DEF Gate, Decision, Claimant
  <2>2. CASE q # a
    BY <1>24, <2>2, ClaimantsAssumption DEF Gate, Decision, Claimant
  <2>3. QED
    BY <2>1, <2>2
<1>25. ASSUME NEW a \in Adoption, Decide(a)
      PROVE  UnreservedOf(q)'
  BY <1>25, ClaimantsAssumption DEF Decide, Decision, Claimant
<1>26. ASSUME NEW a \in Adoption, ReadSaved(a)
      PROVE  UnreservedOf(q)'
  <2>1. CASE q = a
    BY <1>26, <2>1, ClaimantsAssumption DEF ReadSaved, Claimant
  <2>2. CASE q # a
    BY <1>26, <2>2, ClaimantsAssumption DEF ReadSaved, Claimant
  <2>3. QED
    BY <2>1, <2>2
<1>27. ASSUME NEW p \in Claimant, Raise(p)
      PROVE  UnreservedOf(q)'
  <2>1. CASE q = p
    <3>1. PICK s \in Stage, t \in Part : ThrownMove(p, s, t)
      BY <1>27, ThrowMoves DEF Raise
    <3>2. pc'[p] = s /\ phase'[p] = t /\ subject'[p] = p
      BY <1>27, <3>1 DEF Raise, ThrownMove
    <3>3. QED
      BY <1>27, <2>1, <3>1, <3>2, ClaimantsAssumption DEF Raise, Over, ThrownMove
  <2>2. CASE q # p
    BY <1>27, <2>2, ThrowMoves, ClaimantsAssumption DEF Raise, Over, ThrownMove
  <2>3. QED
    BY <2>1, <2>2
<1>28. ASSUME NEW p \in Claimant, Die(p)
      PROVE  UnreservedOf(q)'
  BY <1>28, ClaimantsAssumption DEF Die
<1>29. ASSUME NEW r \in Claimant, AckRecord(r)
      PROVE  UnreservedOf(q)'
  BY <1>29, ClaimantsAssumption DEF AckRecord
<1>30. CASE AckMarker
  BY <1>30, ClaimantsAssumption DEF AckMarker
<1>31. ASSUME NEW x \in Pane, PaneDies(x)
      PROVE  UnreservedOf(q)'
  BY <1>31, ClaimantsAssumption DEF PaneDies
<1>32. ASSUME NEW r \in Claimant, Forget(r)
      PROVE  UnreservedOf(q)'
  BY <1>32, ClaimantsAssumption DEF Forget
<1>33. CASE UNCHANGED vars
  BY <1>33 DEF vars
<1>34. QED
  BY <1>1, <1>2, <1>3, <1>4, <1>5, <1>6, <1>7, <1>8, <1>9, <1>10, <1>11, <1>12,
     <1>13, <1>14, <1>15, <1>16, <1>17, <1>18, <1>19, <1>20, <1>21, <1>22, <1>23, <1>24,
     <1>25, <1>26, <1>27, <1>28, <1>29, <1>30, <1>31, <1>32, <1>33
  DEF Next, Step, Polling

LEMMA UntargetedStep ==
  ASSUME TypeOK, Lives, Settles, Parts, AtWork, Locked, Untargeted, [Next]_vars
  PROVE  Untargeted'
<1> SUFFICES ASSUME NEW q \in Adoption PROVE UntargetedOf(q)'
  BY DEF Untargeted
<1> /\ pc \in [Claimant -> Stage]
    /\ phase \in [Claimant -> Part]
    /\ todo \in [Claimant -> [Claimant -> Record]]
    /\ subject \in [Claimant -> Claimant]
    /\ record \in [Claimant -> Record]
    /\ target \in [Adoption -> Pane \cup {None}]
    /\ seen \in [Adoption -> SUBSET Pane]
    /\ config \subseteq Claimant
  BY DEF TypeOK
<1> USE DEF Claimant, Untargeted, UntargetedOf, Owns, Lives, AtWork, AtWorkOn, Working, Settles, SettlesOf, Locked, Holds, Parts, PartOf
<1>1. ASSUME NEW c \in Creation, Start(c)
      PROVE  UntargetedOf(q)'
  BY <1>1, ClaimantsAssumption DEF Start, Goto
<1>2. ASSUME NEW p \in Claimant, List(p)
      PROVE  UntargetedOf(q)'
  BY <1>2, ClaimantsAssumption DEF List, Goto
<1>3. ASSUME NEW p \in Claimant, NEW r \in Claimant, Ensure(p, r)
      PROVE  UntargetedOf(q)'
  BY <1>3, ClaimantsAssumption DEF Ensure, Onward
<1>4. ASSUME NEW p \in Claimant, Reconciled(p)
      PROVE  UntargetedOf(q)'
  BY <1>4, ClaimantsAssumption DEF Reconciled, Goto
<1>5. ASSUME NEW p \in Claimant, Judge(p)
      PROVE  UntargetedOf(q)'
  BY <1>5, ClaimantsAssumption DEF Judge, Goto
<1>6. ASSUME NEW p \in Claimant, Choose(p)
      PROVE  UntargetedOf(q)'
  BY <1>6, ClaimantsAssumption DEF Choose, Over
<1>7. ASSUME NEW p \in Claimant, Write(p)
      PROVE  UntargetedOf(q)'
  BY <1>7, ClaimantsAssumption DEF Write, Goto
<1>8. ASSUME NEW p \in Claimant, Allocate(p)
      PROVE  UntargetedOf(q)'
  BY <1>8, ClaimantsAssumption DEF Allocate, Goto
<1>9. ASSUME NEW p \in Claimant, BindRead(p)
      PROVE  UntargetedOf(q)'
  BY <1>9, ThrowMoves, ClaimantsAssumption DEF BindRead, Over, ThrownMove
<1>10. ASSUME NEW p \in Claimant, BindWrite(p)
      PROVE  UntargetedOf(q)'
  BY <1>10, ClaimantsAssumption DEF BindWrite, Goto
<1>11. ASSUME NEW p \in Claimant, Build(p)
      PROVE  UntargetedOf(q)'
  BY <1>11, ClaimantsAssumption DEF Build, Goto
<1>12. ASSUME NEW p \in Claimant, Persist(p)
      PROVE  UntargetedOf(q)'
  BY <1>12, ThrowMoves, ClaimantsAssumption DEF Persist, Over, ThrownMove
<1>13. ASSUME NEW p \in Claimant, Complete(p)
      PROVE  UntargetedOf(q)'
  BY <1>13, ThrowMoves, ClaimantsAssumption DEF Complete, Over, ThrownMove
<1>14. ASSUME NEW p \in Claimant, Clear(p)
      PROVE  UntargetedOf(q)'
  BY <1>14, ThrowMoves, ClaimantsAssumption DEF Clear, Onward, Over, ThrownMove
<1>15. ASSUME NEW p \in Claimant, Unblock(p)
      PROVE  UntargetedOf(q)'
  BY <1>15, ClaimantsAssumption DEF Unblock, Onward, Over
<1>16. ASSUME NEW p \in Claimant, Mark(p)
      PROVE  UntargetedOf(q)'
  BY <1>16, ClaimantsAssumption DEF Mark, Onward
<1>17. ASSUME NEW p \in Claimant, Shut(p)
      PROVE  UntargetedOf(q)'
  BY <1>17, MarkedMoves, ClaimantsAssumption DEF Shut, Over
<1>18. ASSUME NEW p \in Claimant, Stamp(p)
      PROVE  UntargetedOf(q)'
  <2>1. CASE q = p
    BY <1>18, <2>1, MarkedMoves, ClaimantsAssumption DEF Stamp, Over
  <2>2. CASE q # p
    BY <1>18, <2>2, MarkedMoves, ClaimantsAssumption DEF Stamp, Over
  <2>3. QED
    BY <2>1, <2>2
<1>19. ASSUME NEW p \in Claimant, Failed(p)
      PROVE  UntargetedOf(q)'
  BY <1>19, ClaimantsAssumption DEF Failed, Goto
<1>20. ASSUME NEW p \in Claimant, Teardown(p)
      PROVE  UntargetedOf(q)'
  BY <1>20, ClaimantsAssumption DEF Teardown, Goto
<1>21. ASSUME NEW p \in Claimant, Retain(p)
      PROVE  UntargetedOf(q)'
  BY <1>21, ThrowMoves, ClaimantsAssumption DEF Retain, Over, ThrownMove
<1>22. ASSUME NEW p \in Claimant, Settle(p)
      PROVE  UntargetedOf(q)'
  BY <1>22, ClaimantsAssumption DEF Settle, Over
<1>23. ASSUME NEW a \in Adoption, Poll(a)
      PROVE  UntargetedOf(q)'
  BY <1>23, ClaimantsAssumption DEF Poll, Goto
<1>24. ASSUME NEW a \in Adoption, Gate(a)
      PROVE  UntargetedOf(q)'
  BY <1>24, ClaimantsAssumption DEF Gate, Decision
<1>25. ASSUME NEW a \in Adoption, Decide(a)
      PROVE  UntargetedOf(q)'
  BY <1>25, ClaimantsAssumption DEF Decide, Decision
<1>26. ASSUME NEW a \in Adoption, ReadSaved(a)
      PROVE  UntargetedOf(q)'
  <2>1. CASE q = a
    BY <1>26, <2>1, ClaimantsAssumption DEF ReadSaved
  <2>2. CASE q # a
    BY <1>26, <2>2, ClaimantsAssumption DEF ReadSaved
  <2>3. QED
    BY <2>1, <2>2
<1>27. ASSUME NEW p \in Claimant, Raise(p)
      PROVE  UntargetedOf(q)'
  <2>1. CASE q = p
    <3>1. PICK s \in Stage, t \in Part : ThrownMove(p, s, t)
      BY <1>27, ThrowMoves DEF Raise
    <3>2. pc'[p] = s /\ phase'[p] = t /\ subject'[p] = p
      BY <1>27, <3>1 DEF Raise, ThrownMove
    <3>3. QED
      BY <1>27, <2>1, <3>1, <3>2, ClaimantsAssumption DEF Raise, Throwing, Over, ThrownMove
  <2>2. CASE q # p
    BY <1>27, <2>2, ThrowMoves, ClaimantsAssumption DEF Raise, Throwing, Over, ThrownMove
  <2>3. QED
    BY <2>1, <2>2
<1>28. ASSUME NEW p \in Claimant, Die(p)
      PROVE  UntargetedOf(q)'
  BY <1>28, ClaimantsAssumption DEF Die
<1>29. ASSUME NEW r \in Claimant, AckRecord(r)
      PROVE  UntargetedOf(q)'
  BY <1>29, ClaimantsAssumption DEF AckRecord
<1>30. CASE AckMarker
  BY <1>30, ClaimantsAssumption DEF AckMarker
<1>31. ASSUME NEW x \in Pane, PaneDies(x)
      PROVE  UntargetedOf(q)'
  BY <1>31, ClaimantsAssumption DEF PaneDies
<1>32. ASSUME NEW r \in Claimant, Forget(r)
      PROVE  UntargetedOf(q)'
  BY <1>32, ClaimantsAssumption DEF Forget
<1>33. CASE UNCHANGED vars
  BY <1>33 DEF vars
<1>34. QED
  BY <1>1, <1>2, <1>3, <1>4, <1>5, <1>6, <1>7, <1>8, <1>9, <1>10, <1>11, <1>12,
     <1>13, <1>14, <1>15, <1>16, <1>17, <1>18, <1>19, <1>20, <1>21, <1>22, <1>23, <1>24,
     <1>25, <1>26, <1>27, <1>28, <1>29, <1>30, <1>31, <1>32, <1>33
  DEF Next, Step, Polling

LEMMA ClearedStep ==
  ASSUME TypeOK, Lives, Settles, AtWork, Locked, Cleared, Unsplit, [Next]_vars
  PROVE  Cleared'
<1> SUFFICES ASSUME NEW q \in Claimant PROVE ClearedBy(q)'
  BY DEF Cleared
<1> /\ pc \in [Claimant -> Stage]
    /\ phase \in [Claimant -> Part]
    /\ todo \in [Claimant -> [Claimant -> Record]]
    /\ subject \in [Claimant -> Claimant]
    /\ record \in [Claimant -> Record]
    /\ marker \in [Claimant -> {"none", "provisional", "quarantined"}]
    /\ got \in [Claimant -> {"nothing", "pane", "record"}]
    /\ alive \subseteq Claimant
    /\ acking \in Claimant \cup {None}
    /\ slugLock \in Claimant \cup {None, "operator"}
  BY DEF TypeOK
<1> USE DEF Lives, Settles, SettlesOf, AtWork, AtWorkOn, Working, Locked, Holds, Cleared, ClearedBy, Unsplit
<1>1. ASSUME NEW c \in Creation, Start(c)
      PROVE  ClearedBy(q)'
  BY <1>1, ClaimantsAssumption DEF Start, Goto, Claimant
<1>2. ASSUME NEW p \in Claimant, List(p)
      PROVE  ClearedBy(q)'
  BY <1>2, ClaimantsAssumption DEF List, Goto
<1>3. ASSUME NEW p \in Claimant, NEW r \in Claimant, Ensure(p, r)
      PROVE  ClearedBy(q)'
  BY <1>3, ClaimantsAssumption DEF Ensure, Onward, MarkerFor
<1>4. ASSUME NEW p \in Claimant, Reconciled(p)
      PROVE  ClearedBy(q)'
  BY <1>4, ClaimantsAssumption DEF Reconciled, Goto
<1>5. ASSUME NEW p \in Claimant, Judge(p)
      PROVE  ClearedBy(q)'
  <2>1. CASE q = p
    BY <1>5, <2>1, ClaimantsAssumption DEF Judge, Goto, Gone, PaneOf
  <2>2. CASE q # p
    BY <1>5, <2>2, ClaimantsAssumption DEF Judge, Goto, Gone, PaneOf
  <2>3. QED
    BY <2>1, <2>2
<1>6. ASSUME NEW p \in Claimant, Choose(p)
      PROVE  ClearedBy(q)'
  BY <1>6, ClaimantsAssumption DEF Choose, Lock, Unlocked, Over
<1>7. ASSUME NEW p \in Claimant, Write(p)
      PROVE  ClearedBy(q)'
  BY <1>7, ClaimantsAssumption DEF Write, Goto
<1>8. ASSUME NEW p \in Claimant, Allocate(p)
      PROVE  ClearedBy(q)'
  BY <1>8, ClaimantsAssumption DEF Allocate, Goto
<1>9. ASSUME NEW p \in Claimant, BindRead(p)
      PROVE  ClearedBy(q)'
  BY <1>9, ThrowMoves, ClaimantsAssumption DEF BindRead, Over, ThrownMove
<1>10. ASSUME NEW p \in Claimant, BindWrite(p)
      PROVE  ClearedBy(q)'
  BY <1>10, ClaimantsAssumption DEF BindWrite, Goto
<1>11. ASSUME NEW p \in Claimant, Build(p)
      PROVE  ClearedBy(q)'
  BY <1>11, ClaimantsAssumption DEF Build, Goto
<1>12. ASSUME NEW p \in Claimant, Persist(p)
      PROVE  ClearedBy(q)'
  <2>1. CASE q = p
    BY <1>12, <2>1, ThrowMoves, ClaimantsAssumption DEF Persist, Over, ThrownMove
  <2>2. CASE q # p
    BY <1>12, <2>2, ThrowMoves, ClaimantsAssumption DEF Persist, Over, ThrownMove
  <2>3. QED
    BY <2>1, <2>2
<1>13. ASSUME NEW p \in Claimant, Complete(p)
      PROVE  ClearedBy(q)'
  BY <1>13, ThrowMoves, ClaimantsAssumption DEF Complete, Over, ThrownMove
<1>14. ASSUME NEW p \in Claimant, Clear(p)
      PROVE  ClearedBy(q)'
  <2>1. CASE q = p
    BY <1>14, <2>1, ThrowMoves, ClaimantsAssumption DEF Clear, Onward, Unchanged, Over, ThrownMove
  <2>2. CASE q # p
    BY <1>14, <2>2, ThrowMoves, ClaimantsAssumption DEF Clear, Onward, Unchanged, Over, ThrownMove
  <2>3. QED
    BY <2>1, <2>2
<1>15. ASSUME NEW p \in Claimant, Unblock(p)
      PROVE  ClearedBy(q)'
  BY <1>15, ClaimantsAssumption DEF Unblock, Onward, Over
<1>16. ASSUME NEW p \in Claimant, Mark(p)
      PROVE  ClearedBy(q)'
  BY <1>16, ClaimantsAssumption DEF Mark, Onward, Unchanged, Lock
<1>17. ASSUME NEW p \in Claimant, Shut(p)
      PROVE  ClearedBy(q)'
  <2>1. CASE q = p
    BY <1>17, <2>1, MarkedMoves, ClaimantsAssumption DEF Shut, Lock, Over
  <2>2. CASE q # p
    BY <1>17, <2>2, MarkedMoves, ClaimantsAssumption DEF Shut, Lock, Over
  <2>3. QED
    BY <2>1, <2>2
<1>18. ASSUME NEW p \in Claimant, Stamp(p)
      PROVE  ClearedBy(q)'
  <2>1. CASE q = p
    BY <1>18, <2>1, MarkedMoves, ClaimantsAssumption DEF Stamp, Over
  <2>2. CASE q # p
    BY <1>18, <2>2, MarkedMoves, ClaimantsAssumption DEF Stamp, Over
  <2>3. QED
    BY <2>1, <2>2
<1>19. ASSUME NEW p \in Claimant, Failed(p)
      PROVE  ClearedBy(q)'
  BY <1>19, ClaimantsAssumption DEF Failed, Goto
<1>20. ASSUME NEW p \in Claimant, Teardown(p)
      PROVE  ClearedBy(q)'
  BY <1>20, ClaimantsAssumption DEF Teardown, Goto
<1>21. ASSUME NEW p \in Claimant, Retain(p)
      PROVE  ClearedBy(q)'
  <2>1. CASE q = p
    BY <1>21, <2>1, ThrowMoves, ClaimantsAssumption DEF Retain, Over, ThrownMove
  <2>2. CASE q # p
    BY <1>21, <2>2, ThrowMoves, ClaimantsAssumption DEF Retain, Over, ThrownMove
  <2>3. QED
    BY <2>1, <2>2
<1>22. ASSUME NEW p \in Claimant, Settle(p)
      PROVE  ClearedBy(q)'
  <2>1. CASE q = p
    BY <1>22, <2>1, ClaimantsAssumption DEF Settle, Over
  <2>2. CASE q # p
    BY <1>22, <2>2, ClaimantsAssumption DEF Settle, Over
  <2>3. QED
    BY <2>1, <2>2
<1>23. ASSUME NEW a \in Adoption, Poll(a)
      PROVE  ClearedBy(q)'
  BY <1>23, ClaimantsAssumption DEF Poll, Goto, Claimant
<1>24. ASSUME NEW a \in Adoption, Gate(a)
      PROVE  ClearedBy(q)'
  BY <1>24, ClaimantsAssumption DEF Gate, Decision, Claimant
<1>25. ASSUME NEW a \in Adoption, Decide(a)
      PROVE  ClearedBy(q)'
  BY <1>25, ClaimantsAssumption DEF Decide, Decision, Claimant
<1>26. ASSUME NEW a \in Adoption, ReadSaved(a)
      PROVE  ClearedBy(q)'
  BY <1>26, ClaimantsAssumption DEF ReadSaved, Claimant
<1>27. ASSUME NEW p \in Claimant, Raise(p)
      PROVE  ClearedBy(q)'
  <2>1. CASE q = p
    <3>1. PICK s \in Stage, t \in Part : ThrownMove(p, s, t)
      BY <1>27, ThrowMoves DEF Raise
    <3>2. pc'[p] = s /\ phase'[p] = t /\ subject'[p] = p
      BY <1>27, <3>1 DEF Raise, ThrownMove
    <3>3. QED
      BY <1>27, <2>1, <3>1, <3>2, ClaimantsAssumption DEF Raise, Throwing, Over, ThrownMove
  <2>2. CASE q # p
    BY <1>27, <2>2, ThrowMoves, ClaimantsAssumption DEF Raise, Throwing, Over, ThrownMove
  <2>3. QED
    BY <2>1, <2>2
<1>28. ASSUME NEW p \in Claimant, Die(p)
      PROVE  ClearedBy(q)'
  BY <1>28, ClaimantsAssumption DEF Die
<1>29. ASSUME NEW r \in Claimant, AckRecord(r)
      PROVE  ClearedBy(q)'
  BY <1>29, ClaimantsAssumption DEF AckRecord, Unlocked, Lock
<1>30. CASE AckMarker
  BY <1>30, ClaimantsAssumption DEF AckMarker
<1>31. ASSUME NEW x \in Pane, PaneDies(x)
      PROVE  ClearedBy(q)'
  BY <1>31, ClaimantsAssumption DEF PaneDies
<1>32. ASSUME NEW r \in Claimant, Forget(r)
      PROVE  ClearedBy(q)'
  BY <1>32, ClaimantsAssumption DEF Forget, PaneOf
<1>33. CASE UNCHANGED vars
  BY <1>33 DEF vars
<1>34. QED
  BY <1>1, <1>2, <1>3, <1>4, <1>5, <1>6, <1>7, <1>8, <1>9, <1>10, <1>11, <1>12,
     <1>13, <1>14, <1>15, <1>16, <1>17, <1>18, <1>19, <1>20, <1>21, <1>22, <1>23, <1>24,
     <1>25, <1>26, <1>27, <1>28, <1>29, <1>30, <1>31, <1>32, <1>33
  DEF Next, Step, Polling

LEMMA UnsplitStep ==
  ASSUME TypeOK, Lives, Unsplit, [Next]_vars
  PROVE  Unsplit'
<1> /\ pc \in [Claimant -> Stage]
    /\ got \in [Claimant -> {"nothing", "pane", "record"}]
    /\ alive \subseteq Claimant
    /\ target \in [Adoption -> Pane \cup {None}]
    /\ seen \in [Adoption -> SUBSET Pane]
  BY DEF TypeOK
<1> USE DEF Lives, Unsplit, Claimant
<1>1. ASSUME NEW c \in Creation, Start(c)
      PROVE  Unsplit'
  BY <1>1, ClaimantsAssumption DEF Start, Goto
<1>2. ASSUME NEW p \in Claimant, List(p)
      PROVE  Unsplit'
  BY <1>2, ClaimantsAssumption DEF List, Goto
<1>3. ASSUME NEW p \in Claimant, NEW r \in Claimant, Ensure(p, r)
      PROVE  Unsplit'
  BY <1>3, ClaimantsAssumption DEF Ensure, Onward
<1>4. ASSUME NEW p \in Claimant, Reconciled(p)
      PROVE  Unsplit'
  BY <1>4, ClaimantsAssumption DEF Reconciled, Goto
<1>5. ASSUME NEW p \in Claimant, Judge(p)
      PROVE  Unsplit'
  BY <1>5, ClaimantsAssumption DEF Judge, Goto
<1>6. ASSUME NEW p \in Claimant, Choose(p)
      PROVE  Unsplit'
  BY <1>6, ClaimantsAssumption DEF Choose, Over
<1>7. ASSUME NEW p \in Claimant, Write(p)
      PROVE  Unsplit'
  BY <1>7, ClaimantsAssumption DEF Write, Goto
<1>8. ASSUME NEW p \in Claimant, Allocate(p)
      PROVE  Unsplit'
  BY <1>8, ClaimantsAssumption DEF Allocate, Goto
<1>9. ASSUME NEW p \in Claimant, BindRead(p)
      PROVE  Unsplit'
  BY <1>9, ThrowMoves, ClaimantsAssumption DEF BindRead, Over, ThrownMove
<1>10. ASSUME NEW p \in Claimant, BindWrite(p)
      PROVE  Unsplit'
  BY <1>10, ClaimantsAssumption DEF BindWrite, Goto
<1>11. ASSUME NEW p \in Claimant, Build(p)
      PROVE  Unsplit'
  BY <1>11, ClaimantsAssumption DEF Build, Goto
<1>12. ASSUME NEW p \in Claimant, Persist(p)
      PROVE  Unsplit'
  BY <1>12, ThrowMoves, ClaimantsAssumption DEF Persist, Over, ThrownMove
<1>13. ASSUME NEW p \in Claimant, Complete(p)
      PROVE  Unsplit'
  BY <1>13, ThrowMoves, ClaimantsAssumption DEF Complete, Over, ThrownMove
<1>14. ASSUME NEW p \in Claimant, Clear(p)
      PROVE  Unsplit'
  BY <1>14, ThrowMoves, ClaimantsAssumption DEF Clear, Onward, Over, ThrownMove
<1>15. ASSUME NEW p \in Claimant, Unblock(p)
      PROVE  Unsplit'
  BY <1>15, ClaimantsAssumption DEF Unblock, Onward, Over
<1>16. ASSUME NEW p \in Claimant, Mark(p)
      PROVE  Unsplit'
  BY <1>16, ClaimantsAssumption DEF Mark, Onward
<1>17. ASSUME NEW p \in Claimant, Shut(p)
      PROVE  Unsplit'
  BY <1>17, MarkedMoves, ClaimantsAssumption DEF Shut, Over
<1>18. ASSUME NEW p \in Claimant, Stamp(p)
      PROVE  Unsplit'
  BY <1>18, MarkedMoves, ClaimantsAssumption DEF Stamp, Over
<1>19. ASSUME NEW p \in Claimant, Failed(p)
      PROVE  Unsplit'
  BY <1>19, ClaimantsAssumption DEF Failed, Goto
<1>20. ASSUME NEW p \in Claimant, Teardown(p)
      PROVE  Unsplit'
  BY <1>20, ClaimantsAssumption DEF Teardown, Goto
<1>21. ASSUME NEW p \in Claimant, Retain(p)
      PROVE  Unsplit'
  BY <1>21, ThrowMoves, ClaimantsAssumption DEF Retain, Over, ThrownMove
<1>22. ASSUME NEW p \in Claimant, Settle(p)
      PROVE  Unsplit'
  BY <1>22, ClaimantsAssumption DEF Settle, Over
<1>23. ASSUME NEW a \in Adoption, Poll(a)
      PROVE  Unsplit'
  BY <1>23, ClaimantsAssumption DEF Poll, Goto
<1>24. ASSUME NEW a \in Adoption, Gate(a)
      PROVE  Unsplit'
  BY <1>24, ClaimantsAssumption DEF Gate, Decision
<1>25. ASSUME NEW a \in Adoption, Decide(a)
      PROVE  Unsplit'
  BY <1>25, ClaimantsAssumption DEF Decide, Decision
<1>26. ASSUME NEW a \in Adoption, ReadSaved(a)
      PROVE  Unsplit'
  BY <1>26, ClaimantsAssumption DEF ReadSaved
<1>27. ASSUME NEW p \in Claimant, Raise(p)
      PROVE  Unsplit'
  BY <1>27, ThrowMoves, ClaimantsAssumption DEF Raise, Over, ThrownMove
<1>28. ASSUME NEW p \in Claimant, Die(p)
      PROVE  Unsplit'
  BY <1>28, ClaimantsAssumption DEF Die
<1>29. ASSUME NEW r \in Claimant, AckRecord(r)
      PROVE  Unsplit'
  BY <1>29, ClaimantsAssumption DEF AckRecord
<1>30. CASE AckMarker
  BY <1>30, ClaimantsAssumption DEF AckMarker
<1>31. ASSUME NEW x \in Pane, PaneDies(x)
      PROVE  Unsplit'
  BY <1>31, ClaimantsAssumption DEF PaneDies
<1>32. ASSUME NEW r \in Claimant, Forget(r)
      PROVE  Unsplit'
  BY <1>32, ClaimantsAssumption DEF Forget
<1>33. CASE UNCHANGED vars
  BY <1>33 DEF vars
<1>34. QED
  BY <1>1, <1>2, <1>3, <1>4, <1>5, <1>6, <1>7, <1>8, <1>9, <1>10, <1>11, <1>12,
     <1>13, <1>14, <1>15, <1>16, <1>17, <1>18, <1>19, <1>20, <1>21, <1>22, <1>23, <1>24,
     <1>25, <1>26, <1>27, <1>28, <1>29, <1>30, <1>31, <1>32, <1>33
  DEF Next, Step, Polling

-----------------------------------------------------------------------------
(* What relates several processes, from what an action does to each. *)

LEMMA OwnsMoves ==
  ASSUME IInv, NEW r \in Claimant, RecordMove(r), ConfigMove(r), Owns(r)'
  PROVE  Owns(r) \/ pc[r] = "write"
BY DEF IInv, AtWork, AtWorkOn, Working, RecordMove, ConfigMove, Owns

LEMMA NamedFreelyStep ==
  ASSUME IInv, [Next]_vars
  PROVE  NamedFreely'
<1> SUFFICES ASSUME NEW p \in Claimant, NEW q \in Claimant, pc'[p] = "write", p # q, Owns(q)'
             PROVE  slug'[q] # slug'[p]
  BY DEF NamedFreely
<1> USE DEF IInv
<1>1. RecordMove(q) /\ ConfigMove(q)
  BY RecordMoves, ConfigMoves
<1>2. CASE slug' = slug /\ pc[p] = "write"
  <2>1. slugLock = p
    BY <1>2 DEF Locked, Holds
  <2>2. Owns(q)
    BY <1>1, <2>1, OwnsMoves DEF Locked, Holds
  <2>3. QED
    BY <1>2, <2>2 DEF NamedFreely
<1>3. ASSUME NEW w \in Claimant, Choose(w)
      PROVE  slug'[q] # slug'[p]
  <2>1. slugLock = None /\ UNCHANGED <<record, config>>
    BY <1>3 DEF Choose, Unlocked, files
  <2>2. pc[p] # "write"
    BY <2>1, ClaimantsAssumption DEF Locked, Holds
  <2>3. p = w
    BY <1>3, <2>2 DEF Choose, TypeOK
  <2>4. PICK s \in Names : slug' = [slug EXCEPT ![p] = s]
    BY <1>3, <2>3 DEF Choose, TypeOK, Over
  <2>5. slug[q] \in Occupied
    BY <2>1 DEF Owns, Occupied
  <2>6. QED
    BY <2>4, <2>5 DEF Names, TypeOK
<1>4. QED
  BY <1>2, <1>3, SlugMoves DEF SlugMove

LEMMA UniqueSlugStep ==
  ASSUME IInv, [Next]_vars
  PROVE  UniqueSlug'
<1> SUFFICES ASSUME NEW p \in Claimant, NEW q \in Claimant, p # q, Owns(p)', Owns(q)'
             PROVE  slug'[p] # slug'[q]
  BY DEF UniqueSlug
<1> USE DEF IInv
<1>1. /\ RecordMove(p) /\ ConfigMove(p)
      /\ RecordMove(q) /\ ConfigMove(q)
  BY RecordMoves, ConfigMoves
<1>2. CASE slug' = slug
  <2>1. CASE Owns(p) /\ Owns(q)
    BY <1>2, <2>1 DEF UniqueSlug
  <2>2. CASE pc[p] = "write" /\ Owns(q)
    BY <1>2, <2>2 DEF NamedFreely
  <2>3. CASE pc[q] = "write" /\ Owns(p)
    BY <1>2, <2>3 DEF NamedFreely
  <2>4. CASE pc[p] = "write" /\ pc[q] = "write"
    BY <2>4 DEF Locked, Holds
  <2>5. QED
    BY <1>1, <2>1, <2>2, <2>3, <2>4, OwnsMoves
<1>3. ASSUME NEW w \in Claimant, Choose(w)
      PROVE  slug'[p] # slug'[q]
  <2>1. UNCHANGED <<record, config>>
    BY <1>3 DEF Choose
  <2>2. Owns(p) /\ Owns(q)
    BY <2>1 DEF Owns
  <2>3. ~Owns(w)
    <3>1. w \in alive /\ phase[w] = "reserve"
      BY <1>3 DEF Choose, Lives, Parts, PartOf
    <3>2. QED
      BY <3>1 DEF Unreserved, UnreservedOf
  <2>4. slug'[p] = slug[p] /\ slug'[q] = slug[q]
    BY <1>3, <2>2, <2>3 DEF Choose, TypeOK
  <2>5. QED
    BY <2>2, <2>4 DEF UniqueSlug
<1>4. QED
  BY <1>2, <1>3, SlugMoves DEF SlugMove

\* A marker that goes was not needed.
LEMMA MarkerStays ==
  ASSUME IInv, [Next]_vars, NEW r \in Claimant, marker[r] # "none", marker'[r] = "none"
  PROVE  /\ record[r] = "none" /\ pc[r] # "write"
         /\ r \in Creation => r \notin panes \/ r \in config \/ r \in acked
<1> USE DEF IInv
<1>1. MarkerMove(r)
  BY MarkerMoves
<1>2. ASSUME NEW p \in Claimant, pc[p] = "unblock", subject[p] = r
      PROVE  /\ record[r] = "none" /\ pc[r] # "write"
             /\ r \in Creation => r \notin panes \/ r \in config
  BY <1>2 DEF Cleared, ClearedBy, Settles, SettlesOf, Lives
<1>3. CASE acking = r
  <2>1. slugLock = "operator" /\ record[r] = "none" /\ r \in acked
    BY <1>3, ClaimantsAssumption DEF Locked
  <2>2. pc[r] # "write"
    BY <2>1, ClaimantsAssumption DEF Locked, Holds
  <2>3. QED
    BY <2>1, <2>2
<1>4. QED
  BY <1>1, <1>2, <1>3 DEF MarkerMove

LEMMA CleanupFailsClosedStep ==
  ASSUME IInv, [Next]_vars
  PROVE  CleanupFailsClosed'
<1> USE DEF IInv
<1>1. ASSUME NEW r \in Claimant, record'[r] # "none"
      PROVE  marker'[r] # "none"
  <2>1. RecordMove(r)
    BY RecordMoves
  <2>2. record[r] # "none" \/ pc[r] = "write"
    BY <1>1, <2>1 DEF RecordMove, AtWork, AtWorkOn, Working
  <2>3. marker[r] # "none"
    BY <2>2 DEF CleanupFailsClosed, Cleared, ClearedBy
  <2>4. QED
    BY <2>2, <2>3, MarkerStays
<1>2. ASSUME NEW c \in Creation \cap panes'
      PROVE  c \in Saved' \/ marker'[c] # "none" \/ c \in acked'
  <2>1. c \in Claimant /\ PaneOf(c) = c /\ PaneOf(c)' = c
    BY ClaimantsAssumption DEF Claimant, PaneOf
  <2>2. acked \subseteq acked'
    BY AckedMoves
  <2>3. CASE c \in Saved
    <3>1. PICK r \in config : PaneOf(r) = c
      BY <2>3 DEF Saved
    <3>2. r \in config' /\ PaneOf(r)' = c
      <4>1. ConfigMove(r)
        BY ConfigMoves DEF TypeOK
      <4>2. QED
        BY <1>2, <3>1, <4>1 DEF ConfigMove
    <3>3. QED
      BY <3>2 DEF Saved
  <2>4. CASE c \in acked
    BY <2>2, <2>4
  <2>5. CASE c \notin panes
    <3>1. pc[c] = "allocate"
      BY <2>5, <1>2, CreationMoves DEF CreationMove
    <3>2. record[c] # "none"
      BY <2>1, <3>1 DEF AtWork, AtWorkOn, Working, Provisional
    <3>3. marker[c] # "none"
      BY <2>1, <3>2 DEF CleanupFailsClosed
    <3>4. QED
      BY <2>1, <3>2, <3>3, MarkerStays
  <2>6. CASE c \in panes /\ c \notin Saved /\ c \notin acked
    <3>1. marker[c] # "none"
      BY <2>6 DEF CleanupFailsClosed
    <3>2. c \notin config
      BY <2>1, <2>6 DEF Saved
    <3>3. QED
      BY <2>1, <2>6, <3>1, <3>2, MarkerStays
  <2>7. QED
    BY <2>3, <2>4, <2>5, <2>6
<1>3. QED
  BY <1>1, <1>2 DEF CleanupFailsClosed

\* A pane that nobody accounts for stays so.
LEMMA StrayStays ==
  ASSUME IInv, [Next]_vars, NEW c \in Creation, Stray(c)
  PROVE  Stray(c)' /\ (c \notin config => c \notin config')
<1> USE DEF IInv
<1>1. c \in Claimant
  BY DEF Claimant
<1>2. CreationMove(c) /\ RecordMove(c) /\ ConfigMove(c)
  BY <1>1, CreationMoves, RecordMoves, ConfigMoves
<1>3. ~Working(c)
  <2>1. ASSUME Working(c) PROVE c \in alive /\ record[c] \in Provisional
    BY <1>1, <2>1 DEF Working, Lives, AtWork, AtWorkOn
  <2>2. QED
    BY <2>1 DEF Stray, Provisional
<1>4. pc[c] \notin {"write", "bindWrite"}
  <2>1. pc[c] # "write"
    <3>1. ASSUME pc[c] = "write" PROVE c \in alive /\ phase[c] = "reserve"
      BY <1>1, <3>1 DEF Lives, Parts, PartOf
    <3>2. QED
      BY <1>1, <3>1 DEF Unreserved, UnreservedOf, Stray
  <2>2. QED
    BY <1>3, <2>1 DEF Working
<1>5. c \in alive' => c \in alive /\ got'[c] # "nothing"
  BY <1>2 DEF CreationMove, Stray
<1>6. \/ record'[c] \in {"none", "unresolved"}
      \/ record'[c] = "reserved" /\ c \notin alive
  BY <1>2, <1>3, <1>4 DEF RecordMove, Stray
<1>7. QED
  BY <1>2, <1>3, <1>5, <1>6 DEF Stray, ConfigMove

LEMMA StraysStep ==
  ASSUME IInv, [Next]_vars
  PROVE  Strays'
<1> USE DEF IInv
<1> SUFFICES ASSUME NEW a \in Adoption, NEW c \in Creation
             PROVE  /\ pc'[a] = "saved" /\ c \in seen'[a] \ passed'[a] => Stray(c)'
                    /\ target'[a] = c /\ c \notin passed'[a] => Stray(c)' /\ c \notin config'
  BY DEF Strays
<1>1. TargetMove(a)
  BY TargetMoves
<1>2. ASSUME pc'[a] = "saved", c \in seen'[a] \ passed'[a]
      PROVE  Stray(c)'
  <2>1. CASE pc[a] = "saved" /\ seen'[a] = seen[a] /\ passed'[a] = passed[a]
    <3>1. Stray(c)
      BY <1>2, <2>1 DEF Strays
    <3>2. QED
      BY <3>1, StrayStays
  <2>2. ASSUME seen'[a] \subseteq seen[a], UNCHANGED <<record, alive, got>>,
               NEW late \in SUBSET alive,
               seen'[a] \cap Named(late) = {}, ~Deferred(late),
               (seen'[a] \cap Creation) \cap late \subseteq passed'[a]
        PROVE  Stray(c)'
    <3>1. c \in Claimant /\ PaneOf(c) = c /\ record[c] \in Record /\ c \notin late
      BY <1>2, <2>2, ClaimantsAssumption DEF Claimant, PaneOf, TypeOK
    <3>2. record[c] \notin {"bound", "quarantined"}
      BY <1>2, <2>2, <3>1 DEF Named
    <3>3. record[c] = "reserved" => c \notin alive
      BY <2>2, <3>1 DEF Deferred
    <3>4. c \in alive => got[c] # "nothing"
      BY <1>2, <2>2 DEF Unsplit
    <3>5. QED
      BY <2>2, <3>1, <3>2, <3>3, <3>4 DEF Stray, Record, Provisional, Quarantined
  <2>3. QED
    BY <1>1, <1>2, <2>1, <2>2 DEF TargetMove
<1>3. ASSUME target'[a] = c, c \notin passed'[a]
      PROVE  Stray(c)' /\ c \notin config'
  <2>1. CASE target'[a] = target[a] /\ (target[a] = None \/ passed'[a] = passed[a])
    <3>1. c # None
      BY ClaimantsAssumption DEF Claimant
    <3>2. QED
      BY <1>3, <2>1, <3>1, StrayStays DEF Strays
  <2>2. CASE /\ pc[a] = "saved" /\ target'[a] \in seen[a] \ Saved /\ passed'[a] = passed[a]
             /\ UNCHANGED <<config, record, alive, got>>
    <3>1. Stray(c)
      BY <1>3, <2>2 DEF Strays
    <3>2. PaneOf(c) = c
      BY <1>3, ClaimantsAssumption DEF PaneOf
    <3>3. c \notin config
      BY <1>3, <2>2, <3>2 DEF Saved
    <3>4. QED
      BY <1>3, <3>1, <3>3, StrayStays
  <2>3. QED
    BY <1>1, <2>1, <2>2 DEF TargetMove
<1>4. QED
  BY <1>2, <1>3

-----------------------------------------------------------------------------
(* The invariant and the theorems. *)

LEMMA InitIInv == Init => IInv
<1> SUFFICES ASSUME Init PROVE IInv
  OBVIOUS
<1>1. TypeOK
  BY TypeInit
<1>2. \A p \in Claimant : pc[p] \in {"idle", "poll"} /\ subject[p] = p /\ phase[p] = "reserve" /\ ~Owns(p)
  BY DEF Init, Nothing, Owns
<1>3. Lives /\ Settles /\ Parts /\ AtWork
  BY <1>2 DEF Init, Lives, Settles, SettlesOf, Parts, PartOf, AtWork, AtWorkOn, Working
<1>4. Locked /\ Unreserved
  <2>1. Locked
    BY <1>2 DEF Init, Locked, Holds
  <2>2. \A p \in Creation : p \in Claimant /\ got[p] = "nothing"
    BY DEF Init, Claimant
  <2>3. QED
    BY <1>2, <2>1, <2>2 DEF Unreserved, UnreservedOf
<1>5. Untargeted
  <2>1. \A a \in Adoption : pc[a] = "poll" /\ target[a] = None /\ a \in Claimant
    BY DEF Init, Claimant
  <2>2. QED
    BY <1>2, <2>1 DEF Untargeted, UntargetedOf
<1>6. NamedFreely /\ Cleared /\ UniqueSlug
  BY <1>2 DEF NamedFreely, Cleared, ClearedBy, UniqueSlug
<1>7. Unsplit /\ Strays
  BY ClaimantsAssumption DEF Init, Unsplit, Strays, Claimant, Pane
<1>8. CleanupFailsClosed
  BY ClaimantsAssumption DEF Init, CleanupFailsClosed, Nothing
<1>9. QED
  BY <1>1, <1>3, <1>4, <1>5, <1>6, <1>7, <1>8 DEF IInv

LEMMA AckStep ==
  ASSUME IInv, [Next]_vars, acking' # None
  PROVE  slugLock' = "operator" /\ record'[acking'] = "none" /\ acking' \in acked'
<1> USE DEF IInv
<1>1. CASE \E r \in Claimant : AckRecord(r)
  BY <1>1 DEF AckRecord, Lock, TypeOK
<1>2. CASE UNCHANGED <<acking, slugLock>>
  <2>1. acking \in Claimant /\ slugLock = "operator" /\ record[acking] = "none" /\ acking \in acked
    BY <1>2 DEF Locked, TypeOK
  <2>2. RecordMove(acking)
    BY <2>1, RecordMoves
  <2>3. record'[acking] = "none"
    BY <2>1, <2>2, ClaimantsAssumption DEF RecordMove, Locked, Holds, AtWork, AtWorkOn, Working, Provisional
  <2>4. QED
    BY <1>2, <2>1, <2>3, AckedMoves
<1>3. QED
  BY <1>1, <1>2, AckingMoves DEF AckingMove

LEMMA Inductive == Spec => []IInv
<1>1. IInv /\ [Next]_vars => IInv'
  <2> SUFFICES ASSUME IInv, [Next]_vars PROVE IInv'
    OBVIOUS
  <2> USE DEF IInv
  <2>1. TypeOK'
    BY TypeStep
  <2>2. Lives' /\ Settles' /\ Parts' /\ AtWork'
    BY LivesStep, SettlesStep, PartsStep, AtWorkStep
  <2>3. Locked'
    BY HoldsStep, AckStep DEF Locked
  <2>4. Unreserved' /\ Untargeted'
    BY UnreservedStep, UntargetedStep
  <2>5. NamedFreely' /\ UniqueSlug'
    BY NamedFreelyStep, UniqueSlugStep
  <2>6. Cleared' /\ Unsplit'
    BY ClearedStep, UnsplitStep
  <2>7. Strays' /\ CleanupFailsClosed'
    BY StraysStep, CleanupFailsClosedStep
  <2>8. QED
    BY <2>1, <2>2, <2>3, <2>4, <2>5, <2>6, <2>7
<1>2. QED
  BY <1>1, InitIInv, PTL DEF Spec

\* Every variable keeps its type (PaneSlugs.tla, TypeOK).
THEOREM TypeCorrect == Spec => []TypeOK
BY Inductive, PTL DEF IInv

\* A slug has one owner in the session, saved or not, whoever reserves, crashes,
\* reconciles and acknowledges (reservePaneSlug, quarantinePaneSlugOwnershipRecord).
THEOREM SlugsAreUnique == Spec => []UniqueSlug
BY Inductive, PTL DEF IInv

\* While there is an ownership record, or a pane that was split and is not saved,
\* a marker blocks destructive cleanup, unless the operator has seen to it
\* (writeWorktreeRecoveryMarkerInternal, removePaneSlugCleanupBlocker).
THEOREM CleanupIsBlocked == Spec => []CleanupFailsClosed
BY Inductive, PTL DEF IInv

\* The poller adopts only panes nobody accounts for, unless it found the record of
\* the creation of that pane too old and passed it over (gateUntrackedPaneAdoption).
THEOREM OnlyStraysAdopted == Spec => []AdoptsStrays
<1>1. IInv => AdoptsStrays
  BY DEF IInv, Strays, Stray, AdoptsStrays
<1>2. QED
  BY <1>1, Inductive, PTL

\* A reservation that was settled does not come back, although quarantine writes the
\* record anew (writeWorktreeRecoveryMarkerIfPaneSlugOwned).
THEOREM SettledForGood == Spec => SettledStays
<1>1. IInv /\ [Next]_vars =>
        [\A r \in Claimant : record[r] = "none" /\ record'[r] # "none" => pc[r] = "write"]_vars
  <2> SUFFICES ASSUME IInv, [Next]_vars, NEW r \in Claimant, record[r] = "none", record'[r] # "none"
               PROVE  pc[r] = "write"
    OBVIOUS
  <2>1. RecordMove(r)
    BY RecordMoves DEF IInv
  <2>2. QED
    BY <2>1 DEF RecordMove, IInv, AtWork, AtWorkOn, Working, Provisional
<1>2. QED
  BY <1>1, Inductive, PTL DEF Spec, SettledStays

\* Nobody but its owner touches the provisional record of a live process, which
\* recordPaneEffect relies on when it writes without the lock.
THEOREM ProducersUndisturbed == Spec => ProducerUndisturbed
<1>1. IInv /\ [Next]_vars =>
        [\A r \in alive :
            record[r] \in Provisional /\ record'[r] # record[r] => pc'[r] # pc[r]]_vars
  <2> SUFFICES ASSUME IInv, [Next]_vars,
                      NEW r \in alive, record[r] \in Provisional, record'[r] # record[r]
               PROVE  pc'[r] # pc[r]
    OBVIOUS
  <2>1. r \in Claimant
    BY DEF IInv, TypeOK
  <2>2. RecordMove(r)
    BY <2>1, RecordMoves DEF IInv
  <2>3. QED
    BY <2>2 DEF RecordMove, Working
<1>2. QED
  BY <1>1, Inductive, PTL DEF Spec, ProducerUndisturbed

-----------------------------------------------------------------------------
(* Locks do not wait in a circle. *)

HasLock(h) == slugLock = h \/ \E t \in Project : targetLock[t] = h

\* Locks are held by processes that live, at the steps between taking a lock and
\* letting go of it, and by an operator who is acknowledging.
HolderOf(h) ==
    HasLock(h) =>
        IF h = "operator" THEN acking # None
        ELSE h \in alive /\ pc[h] \in {"write", "shut", "stamp"}

Holders == \A h \in Claimant \cup {"operator"} : HolderOf(h)

LEMMA HoldersStep ==
  ASSUME TypeOK, Lives, Holders, [Next]_vars
  PROVE  Holders'
<1> SUFFICES ASSUME NEW h \in Claimant \cup {"operator"} PROVE HolderOf(h)'
  BY DEF Holders
<1> /\ pc \in [Claimant -> Stage]
    /\ targetLock \in [Project -> Claimant \cup {None, "operator"}]
    /\ slugLock \in Claimant \cup {None, "operator"}
  BY DEF TypeOK
<1> HolderOf(h)
  BY DEF Holders
<1> USE DEF HolderOf, HasLock, Lives
<1>1. ASSUME NEW c \in Creation, Start(c)
      PROVE  HolderOf(h)'
  BY <1>1, ClaimantsAssumption DEF Start, Goto, Claimant
<1>2. ASSUME NEW p \in Claimant, List(p)
      PROVE  HolderOf(h)'
  BY <1>2, ClaimantsAssumption DEF List, Goto
<1>3. ASSUME NEW p \in Claimant, NEW r \in Claimant, Ensure(p, r)
      PROVE  HolderOf(h)'
  BY <1>3, ClaimantsAssumption DEF Ensure, Onward
<1>4. ASSUME NEW p \in Claimant, Reconciled(p)
      PROVE  HolderOf(h)'
  BY <1>4, ClaimantsAssumption DEF Reconciled, Goto
<1>5. ASSUME NEW p \in Claimant, Judge(p)
      PROVE  HolderOf(h)'
  BY <1>5, ClaimantsAssumption DEF Judge, Goto
<1>6. ASSUME NEW p \in Claimant, Choose(p)
      PROVE  HolderOf(h)'
  BY <1>6, ClaimantsAssumption DEF Choose, Lock, Unlocked, Over
<1>7. ASSUME NEW p \in Claimant, Write(p)
      PROVE  HolderOf(h)'
  BY <1>7, ClaimantsAssumption DEF Write, Goto, Unlock
<1>8. ASSUME NEW p \in Claimant, Allocate(p)
      PROVE  HolderOf(h)'
  BY <1>8, ClaimantsAssumption DEF Allocate, Goto
<1>9. ASSUME NEW p \in Claimant, BindRead(p)
      PROVE  HolderOf(h)'
  BY <1>9, ThrowMoves, ClaimantsAssumption DEF BindRead, Over, ThrownMove
<1>10. ASSUME NEW p \in Claimant, BindWrite(p)
      PROVE  HolderOf(h)'
  BY <1>10, ClaimantsAssumption DEF BindWrite, Goto
<1>11. ASSUME NEW p \in Claimant, Build(p)
      PROVE  HolderOf(h)'
  BY <1>11, ClaimantsAssumption DEF Build, Goto
<1>12. ASSUME NEW p \in Claimant, Persist(p)
      PROVE  HolderOf(h)'
  BY <1>12, ThrowMoves, ClaimantsAssumption DEF Persist, Over, ThrownMove
<1>13. ASSUME NEW p \in Claimant, Complete(p)
      PROVE  HolderOf(h)'
  BY <1>13, ThrowMoves, ClaimantsAssumption DEF Complete, Over, ThrownMove
<1>14. ASSUME NEW p \in Claimant, Clear(p)
      PROVE  HolderOf(h)'
  BY <1>14, ThrowMoves, ClaimantsAssumption DEF Clear, Onward, Over, ThrownMove
<1>15. ASSUME NEW p \in Claimant, Unblock(p)
      PROVE  HolderOf(h)'
  BY <1>15, ClaimantsAssumption DEF Unblock, Onward, Over
<1>16. ASSUME NEW p \in Claimant, Mark(p)
      PROVE  HolderOf(h)'
  BY <1>16, ClaimantsAssumption DEF Mark, Onward, Lock
<1>17. ASSUME NEW p \in Claimant, Shut(p)
      PROVE  HolderOf(h)'
  BY <1>17, MarkedMoves, ClaimantsAssumption DEF Shut, Lock, Unlock, Over
<1>18. ASSUME NEW p \in Claimant, Stamp(p)
      PROVE  HolderOf(h)'
  BY <1>18, MarkedMoves, ClaimantsAssumption DEF Stamp, Unlock, Over
<1>19. ASSUME NEW p \in Claimant, Failed(p)
      PROVE  HolderOf(h)'
  BY <1>19, ClaimantsAssumption DEF Failed, Goto
<1>20. ASSUME NEW p \in Claimant, Teardown(p)
      PROVE  HolderOf(h)'
  BY <1>20, ClaimantsAssumption DEF Teardown, Goto
<1>21. ASSUME NEW p \in Claimant, Retain(p)
      PROVE  HolderOf(h)'
  BY <1>21, ThrowMoves, ClaimantsAssumption DEF Retain, Over, ThrownMove
<1>22. ASSUME NEW p \in Claimant, Settle(p)
      PROVE  HolderOf(h)'
  BY <1>22, ClaimantsAssumption DEF Settle, Over
<1>23. ASSUME NEW a \in Adoption, Poll(a)
      PROVE  HolderOf(h)'
  BY <1>23, ClaimantsAssumption DEF Poll, Goto, Claimant
<1>24. ASSUME NEW a \in Adoption, Gate(a)
      PROVE  HolderOf(h)'
  BY <1>24, ClaimantsAssumption DEF Gate, Decision, Claimant
<1>25. ASSUME NEW a \in Adoption, Decide(a)
      PROVE  HolderOf(h)'
  BY <1>25, ClaimantsAssumption DEF Decide, Decision, Claimant
<1>26. ASSUME NEW a \in Adoption, ReadSaved(a)
      PROVE  HolderOf(h)'
  BY <1>26, ClaimantsAssumption DEF ReadSaved, Claimant
<1>27. ASSUME NEW p \in Claimant, Raise(p)
      PROVE  HolderOf(h)'
  BY <1>27, ThrowMoves, ClaimantsAssumption DEF Raise, Unlock, Over, ThrownMove
<1>28. ASSUME NEW p \in Claimant, Die(p)
      PROVE  HolderOf(h)'
  BY <1>28, ClaimantsAssumption DEF Die, Unlock
<1>29. ASSUME NEW r \in Claimant, AckRecord(r)
      PROVE  HolderOf(h)'
  BY <1>29, ClaimantsAssumption DEF AckRecord, Unlocked, Lock
<1>30. CASE AckMarker
  BY <1>30, ClaimantsAssumption DEF AckMarker, Unlock
<1>31. ASSUME NEW x \in Pane, PaneDies(x)
      PROVE  HolderOf(h)'
  BY <1>31, ClaimantsAssumption DEF PaneDies
<1>32. ASSUME NEW r \in Claimant, Forget(r)
      PROVE  HolderOf(h)'
  BY <1>32, ClaimantsAssumption DEF Forget
<1>33. CASE UNCHANGED vars
  BY <1>33 DEF vars
<1>34. QED
  BY <1>1, <1>2, <1>3, <1>4, <1>5, <1>6, <1>7, <1>8, <1>9, <1>10, <1>11, <1>12,
     <1>13, <1>14, <1>15, <1>16, <1>17, <1>18, <1>19, <1>20, <1>21, <1>22, <1>23, <1>24,
     <1>25, <1>26, <1>27, <1>28, <1>29, <1>30, <1>31, <1>32, <1>33
  DEF Next, Step, Polling

\* A holder of locks whose next step waits for nobody.
Unhindered(h) ==
    \/ h = "operator" /\ acking # None
    \/ /\ h \in alive
       /\ pc[h] \in {"write", "stamp"} \/ (pc[h] = "shut" /\ slugLock \in {None, h})

\* Target recovery before session slug: the holder of the slug lock waits for nobody,
\* and the holder of a target's recovery lock at most for the slug lock.
LocksLetGo ==
    /\ slugLock # None => Unhindered(slugLock)
    /\ \A t \in Project : targetLock[t] # None =>
         LET h == targetLock[t] IN
         Unhindered(h) \/ (h \in alive /\ pc[h] = "shut" /\ slugLock \notin {None, h})

\* Nobody waits for ever for the recovery lock of a target or for the session's slug
\* lock because of how they nest: whoever holds one lives and has its next step, or
\* waits only for the slug lock, whose holder has its next step.  The owner that
\* quarantines its reservation is the one that takes them at two steps
\* (writeWorktreeRecoveryMarkerInternal: target recovery, then the slug); where the
\* code takes both at once the model does so in one step.
THEOREM NoLockCircle == Spec => []LocksLetGo
<1>1. Init => Holders
  BY ClaimantsAssumption DEF Init, Holders, HolderOf, HasLock
<1>2. IInv /\ Holders /\ [Next]_vars => Holders'
  BY HoldersStep DEF IInv
<1>3. IInv /\ Holders => LocksLetGo
  <2> SUFFICES ASSUME IInv, Holders PROVE LocksLetGo
    OBVIOUS
  <2>1. \A h \in Claimant \cup {"operator"} : HolderOf(h)
    BY DEF Holders
  <2>2. slugLock # None => Unhindered(slugLock)
    BY <2>1, ClaimantsAssumption DEF IInv, TypeOK, HolderOf, HasLock, Unhindered
  <2>3. ASSUME NEW t \in Project, targetLock[t] # None
        PROVE  \/ Unhindered(targetLock[t])
               \/ /\ targetLock[t] \in alive /\ pc[targetLock[t]] = "shut"
                  /\ slugLock \notin {None, targetLock[t]}
    <3>1. targetLock[t] \in Claimant \cup {"operator"} /\ HasLock(targetLock[t])
      BY <2>3 DEF IInv, TypeOK, HasLock
    <3>2. HolderOf(targetLock[t])
      BY <2>1, <3>1
    <3>3. QED
      BY <3>1, <3>2 DEF HolderOf, Unhindered
  <2>4. QED
    BY <2>2, <2>3 DEF LocksLetGo
<1>4. QED
  BY <1>1, <1>2, <1>3, Inductive, PTL DEF Spec

=============================================================================
