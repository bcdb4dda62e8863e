------------------------- MODULE DurableBudget_proofs -------------------------
(***************************************************************************)
(* The durability budget, for any keys, calls and limits: every running    *)
(* execution has room left in the dirty map, as long as no approval has    *)
(* been decided.  The second terminal event of a gated command is published*)
(* without a reservation (DurableApprovals), and from then on the sum may  *)
(* exceed the budget by its key.                                           *)
(*                                                                         *)
(* tryReserveFreshExecution counts the dirty outcomes and the executions   *)
(* that are running, so the sum stays within the budget as long as nothing *)
(* else makes a key dirty.  A terminal event does, but its execution was   *)
(* counted; a lookup of a retained event would, but a running process has  *)
(* every key without a sidecar in its dirty map already (Replayable): when *)
(* it started, restoreRetainedOutcomes read all events the snapshot does   *)
(* not cover, and a key whose events are covered has a sidecar (Covered).  *)
(***************************************************************************)
EXTENDS DurableApprovals, DurableOutcomes_proofs

USE KeysAssumption, LimitsAssumption

\* A dirty entry is a value.
LEMMA EntryFacts == None \notin DirtyEntry
<1>1. DirtyEntry \subseteq [seq : Nat, out : Attempt \cup {"unknown", "compacted", None}]
  BY DEF DirtyEntry, Outcome
<1> QED
  BY <1>1, NoneAssumption

-----------------------------------------------------------------------------
(* The invariant. *)

\* Sequence number q holds a terminal event of key k.
Ends(k, q) == q \in Span /\ IsTerminal(At(q)) /\ KeyOf[At(q).tx] = k

\* A terminal event up to c leaves a sidecar, unless a later one is beyond c.
Backed(k, c) ==
    \A q \in Span : Ends(k, q) /\ q <= c =>
        sidecar[k] # None \/ \E r \in Span : Ends(k, r) /\ r > c

Creating == mode \in {"recover", "publish"}

Covered ==
    /\ \A k \in Key : Backed(k, snapshot.covered)
    /\ Creating => baseline <= LastSequence /\ \A k \in Key : Backed(k, baseline)

Replayable ==
    mode = "up" => \A k \in Key : \A q \in Span : Ends(k, q) => sidecar[k] # None \/ dirty[k] # None

\* Dirty keys and running executions are within the budget.
ChargesFit ==
    mode = "up" => Cardinality(DirtyKeys \cup {KeyOf[a] : a \in Active}) <= Budget

FewCharges == IsFiniteSet(DirtyKeys) /\ IsFiniteSet(Active)

BInv == FewCharges /\ Covered /\ Replayable /\ ChargesFit

-----------------------------------------------------------------------------
(* What a step does to the log and the snapshot. *)

LogStays == UNCHANGED <<journal, dropped>>

LogGrows(e) == e \in Written /\ journal' = Append(journal, e) /\ UNCHANGED dropped

\* A prefix goes; a line found whole at a restart may follow the rest.
LogDrops(d) ==
    /\ LastSequence' >= LastSequence
    /\ \A q \in Span : q > d => q \in Span' /\ At(q)' = At(q)
    /\ \A q \in Span' : \/ q \in Span /\ q > d /\ At(q)' = At(q)
                        \/ q = LastSequence + 1 /\ mode' # "up"

LogMoves == LogStays \/ (\E e \in Written : LogGrows(e)) \/ (\E d \in Nat : LogDrops(d))

SnapshotMoves ==
    \/ UNCHANGED snapshot
    \/ /\ compaction.step = "snapshot" /\ LogStays
       /\ \A k \in Key : compaction.expected[k] # None => sidecar[k] # None
       /\ snapshot'.covered = compaction.covered

BaselineMoves ==
    Creating' => \/ Creating /\ UNCHANGED baseline
                 \/ baseline' = snapshot.covered /\ UNCHANGED snapshot

\* Events have numbers up to the last one, and the snapshot covers no others.
LEMMA SpanFacts ==
    ASSUME IInv
    PROVE  /\ LastSequence \in Nat /\ snapshot.covered \in Nat /\ snapshot.covered <= LastSequence
           /\ \A q \in Span : q \in Nat /\ q <= LastSequence
<1>1. Typed /\ Positions
  BY DEF IInv
<1>2. LastSequence \in Nat /\ snapshot.covered \in Nat /\ dropped \in Nat
  BY <1>1, LogFacts, NumberFacts
<1> QED
  BY <1>1, <1>2, LogFacts DEF Positions, Span

\* No sequence number is lost at the end of the log.
LEMMA LastGrows ==
    ASSUME IInv, IInv', LogMoves
    PROVE  LastSequence \in Nat /\ LastSequence' \in Nat /\ LastSequence' >= LastSequence
<1>1. LastSequence \in Nat /\ LastSequence' \in Nat
  <2>1. /\ journal \in Seq(Written) /\ dropped \in Nat
        /\ journal' \in Seq(Written) /\ cut' \in Nat /\ dropped' \in 0..cut'
    BY NumberFacts DEF IInv, Typed, TypeOK
  <2>2. Len(journal) \in Nat /\ Len(journal') \in Nat
    BY <2>1
  <2> QED
    BY <2>1, <2>2 DEF LastSequence
<1>2. CASE LogStays
  BY <1>1, <1>2 DEF LogStays, LastSequence
<1>3. ASSUME NEW e \in Written, LogGrows(e) PROVE LastSequence' = LastSequence + 1
  BY <1>3, Grows DEF LogGrows, IInv
<1> QED
  BY <1>1, <1>2, <1>3 DEF LogMoves, LogDrops

\* What backs the events up to a number stays when the log moves.
LEMMA BackedStep ==
    ASSUME IInv, NEW k \in Key, NEW c \in Nat, c <= LastSequence, Backed(k, c), LogMoves, SidecarKept
    PROVE  Backed(k, c)'
<1>1. LastSequence \in Nat /\ \A q \in Span : q \in Nat /\ q <= LastSequence
  BY SpanFacts
<1>2. sidecar[k] # None => sidecar'[k] # None
  BY DEF SidecarKept
<1>3. CASE LogStays
  <2>1. Span' = Span /\ \A q \in Span : At(q)' = At(q)
    BY <1>3, SameLog DEF LogStays
  <2> QED
    BY <2>1, <1>2 DEF Backed, Ends, IsTerminal
<1>4. ASSUME NEW e \in Written, LogGrows(e) PROVE Backed(k, c)'
  <2>1. PICK n \in Nat : n = LastSequence + 1
    BY <1>1
  <2>2. Span' = Span \cup {n} /\ \A q \in Span : At(q)' = At(q)
    BY <1>4, <2>1, Grows DEF LogGrows, IInv
  <2>3. ~(n <= c)
    BY <1>1, <2>1
  <2> QED
    BY <2>2, <2>3, <1>2 DEF Backed, Ends, IsTerminal
<1>5. ASSUME NEW d \in Nat, LogDrops(d) PROVE Backed(k, c)'
  <2> SUFFICES ASSUME NEW q \in Span', Ends(k, q)', q <= c, sidecar'[k] = None
               PROVE  \E r \in Span' : Ends(k, r)' /\ r > c
    BY DEF Backed
  <2>1. q \in Span /\ q > d /\ At(q)' = At(q)
    BY <1>1, <1>5 DEF LogDrops
  <2>2. PICK r \in Span : Ends(k, r) /\ r > c
    BY <2>1, <1>2 DEF Backed, Ends, IsTerminal
  <2>3. r > d
    BY <2>1, <2>2, <1>1
  <2>4. r \in Span' /\ At(r)' = At(r)
    BY <2>3, <1>5 DEF LogDrops
  <2> QED
    BY <2>2, <2>4 DEF Ends, IsTerminal
<1> QED
  BY <1>3, <1>4, <1>5 DEF LogMoves

\* An event the snapshot covers leaves a sidecar, unless a later one is not covered.
LEMMA CoveredStep ==
    ASSUME IInv, IInv', Covered, LogMoves, SnapshotMoves, SidecarKept, BaselineMoves
    PROVE  Covered'
<1>1. /\ LastSequence \in Nat /\ LastSequence' \in Nat /\ LastSequence' >= LastSequence
      /\ snapshot.covered \in Nat /\ snapshot.covered <= LastSequence
  BY SpanFacts, LastGrows
<1>2. PICK c \in Nat : c = snapshot.covered
  BY <1>1
<1>3. \A k \in Key : Backed(k, c)'
  <2> TAKE k \in Key
  <2>1. Backed(k, c)
    BY <1>2 DEF Covered, Backed
  <2> QED
    BY <1>1, <1>2, <2>1, BackedStep
<1>4. \A k \in Key : Backed(k, snapshot.covered)'
  <2>1. CASE UNCHANGED snapshot
    BY <1>2, <1>3, <2>1 DEF Backed
  <2>2. CASE /\ compaction.step = "snapshot" /\ LogStays
             /\ \A k \in Key : compaction.expected[k] # None => sidecar[k] # None
             /\ snapshot'.covered = compaction.covered
    <3>1. Span' = Span /\ \A q \in Span : At(q)' = At(q)
      BY <2>2, SameLog DEF LogStays
    <3>2. ASSUME NEW k \in Key, sidecar'[k] = None, NEW q \in Span, Ends(k, q), q <= compaction.covered
          PROVE  \E r \in Span : Ends(k, r) /\ r > compaction.covered
      <4>1. Demands(k)
        BY <2>2 DEF IInv, Shown
      <4>2. sidecar[k] = None
        BY <3>2 DEF SidecarKept
      <4> QED
        BY <2>2, <3>2, <4>1, <4>2 DEF Demands, Ends
    <3> QED
      BY <2>2, <3>1, <3>2 DEF Backed, Ends, IsTerminal
  <2> QED
    BY <2>1, <2>2 DEF SnapshotMoves
<1>5. ASSUME Creating' PROVE baseline' <= LastSequence' /\ \A k \in Key : Backed(k, baseline)'
  <2>1. CASE Creating /\ UNCHANGED baseline
    <3>1. PICK b \in Nat : b = baseline
      BY DEF IInv, Typed, TypeOK
    <3>2. b <= LastSequence /\ \A k \in Key : Backed(k, b)
      BY <2>1, <3>1 DEF Covered, Backed
    <3>3. \A k \in Key : Backed(k, b)'
      BY <3>2, BackedStep
    <3> QED
      BY <1>1, <2>1, <3>1, <3>2, <3>3 DEF Backed
  <2>2. CASE baseline' = snapshot.covered
    BY <1>1, <1>2, <1>3, <2>2 DEF Backed
  <2> QED
    BY <1>5, <2>1, <2>2 DEF BaselineMoves
<1> QED
  BY <1>4, <1>5 DEF Covered

-----------------------------------------------------------------------------
(* What a step does to the dirty map and the running executions. *)

Charged == DirtyKeys \cup {KeyOf[a] : a \in Active}

\* No key and no execution is added.
Calm == DirtyKeys' \subseteq DirtyKeys /\ Active' \subseteq Active /\ (mode' = "up" => mode = "up")

\* tryReserveFreshExecution lets execution a start.
Starts(a) ==
    /\ DirtyKeys' \subseteq DirtyKeys /\ Active' = Active \cup {a}
    /\ Cardinality(DirtyKeys') + Cardinality(Active) < Budget

\* The key of the running execution a becomes dirty.
Finishes(a) ==
    /\ DirtyKeys' \subseteq DirtyKeys \cup {KeyOf[a]} /\ Active' \subseteq Active
    /\ a \in Active /\ mode = "up"

\* A recovered transaction's key becomes dirty while the process starts.
Publishes(k) == DirtyKeys' \subseteq DirtyKeys \cup {k} /\ Active' \subseteq Active /\ mode' # "up"

\* A process that starts has no execution, and what it restored is in the limit.
Begins ==
    /\ Active' = {}
    /\ IsFiniteSet(DirtyKeys') /\ Cardinality(DirtyKeys') <= Budget

Charges ==
    \/ Calm \/ Begins
    \/ \E a \in Attempt : Starts(a) \/ Finishes(a)
    \/ \E k \in Key : Publishes(k)

\* The keys of finitely many executions are no more than the executions.
LEMMA FewKeys ==
    ASSUME IsFiniteSet(Active)
    PROVE  /\ IsFiniteSet({KeyOf[a] : a \in Active})
           /\ Cardinality({KeyOf[a] : a \in Active}) <= Cardinality(Active)
<1> DEFINE A == Active
           K == {KeyOf[a] : a \in A}
           f == [a \in A |-> KeyOf[a]]
<1>1. f \in Surjection(A, K)
  BY DEF Surjection
<1> HIDE DEF A, K, f
<1>2. IsFiniteSet(K) /\ Cardinality(K) <= Cardinality(A)
  BY <1>1, FS_Surjection DEF A
<1> QED
  BY <1>2 DEF A, K

\* A step that charges the budget within its rules keeps it.
LEMMA BudgetStep ==
    ASSUME FewCharges, ChargesFit, Charges
    PROVE  FewCharges' /\ ChargesFit'
<1> DEFINE Keys == {KeyOf[a] : a \in Active}
<1>1. /\ IsFiniteSet(DirtyKeys) /\ IsFiniteSet(Active) /\ IsFiniteSet(Keys)
      /\ Cardinality(Keys) <= Cardinality(Active)
  BY FewKeys DEF FewCharges
<1>2. Keys' = {KeyOf[a] : a \in Active'}
  OBVIOUS
<1> HIDE DEF Keys
<1>3. IsFiniteSet(DirtyKeys \cup Keys)
  BY <1>1, FS_Union
<1>4. mode = "up" => Cardinality(DirtyKeys \cup Keys) <= Budget
  BY DEF ChargesFit, Keys
<1>5. SUFFICES /\ IsFiniteSet(DirtyKeys') /\ IsFiniteSet(Active')
               /\ mode' = "up" => Cardinality(DirtyKeys' \cup Keys') <= Budget
  BY DEF FewCharges, ChargesFit, Keys
<1>6. ASSUME DirtyKeys' \cup Keys' \subseteq DirtyKeys \cup Keys, mode = "up"
      PROVE  Cardinality(DirtyKeys' \cup Keys') <= Budget
  <2>1. /\ Cardinality(DirtyKeys' \cup Keys') <= Cardinality(DirtyKeys \cup Keys)
        /\ Cardinality(DirtyKeys' \cup Keys') \in Nat /\ Cardinality(DirtyKeys \cup Keys) \in Nat
    BY <1>3, <1>6, FS_Subset, FS_CardinalityType
  <2> QED
    BY <1>4, <1>6, <2>1
<1>7. Active' \subseteq Active => IsFiniteSet(Active') /\ Keys' \subseteq Keys
  BY <1>1, <1>2, FS_Subset DEF Keys
<1>8. CASE Calm
  <2>1. IsFiniteSet(DirtyKeys')
    BY <1>1, <1>8, FS_Subset DEF Calm
  <2> QED
    BY <1>6, <1>7, <1>8, <2>1 DEF Calm
<1>9. CASE Begins
  <2>1. Keys' = {} /\ IsFiniteSet(Active')
    BY <1>2, <1>9, FS_EmptySet DEF Begins
  <2>2. DirtyKeys' \cup Keys' = DirtyKeys'
    BY <2>1
  <2> QED
    BY <1>9, <2>1, <2>2 DEF Begins
<1>10. ASSUME NEW a \in Attempt, Starts(a)
       PROVE  /\ IsFiniteSet(DirtyKeys') /\ IsFiniteSet(Active')
              /\ Cardinality(DirtyKeys' \cup Keys') <= Budget
  <2>1. IsFiniteSet(DirtyKeys') /\ IsFiniteSet(Active')
    BY <1>1, <1>10, FS_Subset, FS_AddElement DEF Starts
  <2>2. Keys' = Keys \cup {KeyOf[a]}
    BY <1>2, <1>10 DEF Starts, Keys
  <2>3. /\ IsFiniteSet(Keys') /\ Cardinality(Keys') \in {Cardinality(Keys), Cardinality(Keys) + 1}
    BY <1>1, <2>2, FS_AddElement
  <2>4. /\ Cardinality(DirtyKeys') \in Nat /\ Cardinality(Keys) \in Nat /\ Cardinality(Active) \in Nat
        /\ Cardinality(DirtyKeys' \cap Keys') \in Nat
    <3>1. IsFiniteSet(DirtyKeys' \cap Keys')
      BY <2>1, FS_Intersection
    <3> QED
      BY <1>1, <2>1, <3>1, FS_CardinalityType
  <2>5. Cardinality(DirtyKeys' \cup Keys')
          = Cardinality(DirtyKeys') + Cardinality(Keys') - Cardinality(DirtyKeys' \cap Keys')
    BY <2>1, <2>3, FS_Union
  <2>6. Cardinality(DirtyKeys') + Cardinality(Active) < Budget
    BY <1>10 DEF Starts
  <2>7. PICK u, v, w, x, y : /\ u = Cardinality(DirtyKeys') /\ v = Cardinality(Keys)
                             /\ w = Cardinality(Active) /\ x = Cardinality(DirtyKeys' \cap Keys')
                             /\ y = Cardinality(Keys')
    OBVIOUS
  <2>8. /\ u \in Nat /\ v \in Nat /\ w \in Nat /\ x \in Nat /\ y \in {v, v + 1} /\ v <= w /\ u + w < Budget
    BY <1>1, <2>3, <2>4, <2>6, <2>7
  <2>9. u + y - x <= Budget
    BY <2>8
  <2> QED
    BY <2>1, <2>5, <2>7, <2>9
<1>11. ASSUME NEW a \in Attempt, Finishes(a)
       PROVE  /\ IsFiniteSet(DirtyKeys') /\ IsFiniteSet(Active')
              /\ Cardinality(DirtyKeys' \cup Keys') <= Budget
  <2>1. KeyOf[a] \in Keys
    BY <1>11 DEF Finishes, Keys
  <2>2. DirtyKeys' \cup Keys' \subseteq DirtyKeys \cup Keys
    BY <1>7, <1>11, <2>1 DEF Finishes
  <2>3. IsFiniteSet(DirtyKeys')
    BY <1>3, <2>2, FS_Subset
  <2> QED
    BY <1>6, <1>7, <1>11, <2>2, <2>3 DEF Finishes
<1>12. ASSUME NEW k \in Key, Publishes(k)
       PROVE  IsFiniteSet(DirtyKeys') /\ IsFiniteSet(Active') /\ mode' # "up"
  <2>1. IsFiniteSet(DirtyKeys \cup {k})
    BY <1>1, FS_AddElement
  <2> QED
    BY <1>7, <1>12, <2>1, FS_Subset DEF Publishes
<1> QED
  BY <1>8, <1>9, <1>10, <1>11, <1>12 DEF Charges

-----------------------------------------------------------------------------
(* The actions. *)

\* A running process adds a terminal event of a key with the key's dirty entry.
Replays ==
    mode' = "up" =>
        /\ mode = "up"
        /\ \A k \in Key : dirty[k] # None => dirty'[k] # None \/ sidecar'[k] # None
        /\ \A k \in Key : \A q \in Span' : Ends(k, q)' => (q \in Span /\ Ends(k, q)) \/ dirty'[k] # None

\* What every step but the last of create() is seen as.
Moves == LogMoves /\ SnapshotMoves /\ SidecarKept /\ BaselineMoves /\ Charges /\ Replays

\* The entries a step takes from the dirty map have their sidecars.
DirtyKept == \A k \in Key : dirty[k] # None => dirty'[k] # None \/ sidecar'[k] # None

\* A step that leaves log and snapshot alone.
LEMMA LogStaysMoves ==
    ASSUME LogStays, UNCHANGED snapshot, SidecarKept, Charges, mode' = "up" => mode = "up" /\ DirtyKept,
           Creating' => Creating /\ UNCHANGED baseline
    PROVE  Moves
<1>1. Span' = Span /\ \A q \in Span : At(q)' = At(q)
  BY SameLog DEF LogStays
<1>2. Replays
  BY <1>1 DEF Replays, DirtyKept, Ends, IsTerminal
<1> QED
  BY <1>2 DEF Moves, LogMoves, SnapshotMoves, BaselineMoves

\* An append that a running process makes dirty, or that is no terminal event.
LEMMA LogGrowsMoves ==
    ASSUME IInv, NEW e \in Written, LogGrows(e), UNCHANGED <<snapshot, sidecar, baseline>>, Charges,
           Creating' => Creating, mode' = "up" => mode = "up" /\ DirtyKept,
           mode' = "up" /\ IsTerminal(e) => dirty'[KeyOf[e.tx]] # None
    PROVE  Moves
<1>1. PICK n \in Nat : n = LastSequence + 1
  BY SpanFacts
<1>2. Span' = Span \cup {n} /\ (\A q \in Span : At(q)' = At(q)) /\ At(n)' = e
  BY <1>1, Grows DEF LogGrows, IInv
<1>3. Replays
  BY <1>2 DEF Replays, DirtyKept, Ends, IsTerminal
<1> QED
  BY <1>3 DEF Moves, LogMoves, SnapshotMoves, BaselineMoves, SidecarKept

\* A settled execution runs no more, and no other starts.
LEMMA SettleActive ==
    ASSUME NEW a \in Attempt, NEW result \in {"answered", "failed"}, NEW o, Settle(a, result, o)
    PROVE  Active' \subseteq Active
<1>1. \A b \in Attempt : pc'[b] \in {result, pc[b]}
  BY DEF Settle
<1> QED
  BY <1>1 DEF Active, Executing

\* Progress of one call.
LEMMA AdvanceActive ==
    ASSUME Typed, NEW a \in Attempt, NEW next, pc' = [pc EXCEPT ![a] = next]
    PROVE  /\ Active' \subseteq Active \cup {a}
           /\ a \in Active \/ next \notin Executing \ {"reserve"} => Active' \subseteq Active
           /\ next \in Executing \ {"reserve"} => Active' = Active \cup {a}
<1>1. pc'[a] = next /\ \A b \in Attempt \ {a} : pc'[b] = pc[b]
  BY DEF Typed, TypeOK
<1> QED
  BY <1>1 DEF Active

\* No key becomes dirty.
LEMMA DirtyShrinks ==
    ASSUME \A k \in Key : dirty'[k] = None \/ dirty'[k] = dirty[k]
    PROVE  DirtyKeys' \subseteq DirtyKeys
BY DEF DirtyKeys

\* A flush clears an entry with its sidecar in place.
LEMMA FlushKeeps ==
    ASSUME Typed, NEW d \in [Key -> DirtyEntry \cup {None}],
           NEW keys \in SUBSET {k \in Key : d[k] # None}, FlushFrom(d, keys)
    PROVE  \A k \in Key : d[k] # None => dirty'[k] # None \/ sidecar'[k] # None
<1> DEFINE ready == {k \in keys : d[k].out # None}
           put(done) == [k \in Key |-> IF k \in done THEN d[k].out ELSE sidecar[k]]
           clear(done) == [k \in Key |-> IF k \in done THEN None ELSE d[k]]
<1>1. \E done \in SUBSET ready : \E more \in SUBSET ready :
        done \subseteq more /\ dirty' = clear(done) /\ sidecar' = put(more)
  <2>1. CASE dirty' = clear(ready) /\ sidecar' = put(ready)
    <3> HIDE DEF ready, put, clear
    <3> QED
      BY <2>1
  <2>2. CASE \E bad \in SUBSET ready \ {{}} :
               dirty' = clear(ready \ bad) /\ (sidecar' = put(ready) \/ sidecar' = put(ready \ bad))
    <3>1. PICK bad \in SUBSET ready : /\ dirty' = clear(ready \ bad)
                                      /\ sidecar' = put(ready) \/ sidecar' = put(ready \ bad)
      BY <2>2
    <3> HIDE DEF ready, put, clear
    <3> QED
      BY <3>1
  <2> QED
    BY <2>1, <2>2 DEF FlushFrom
<1> QED
  BY <1>1

\* submit(), a lookup that found no retained event, the durability gate, the effect.
LEMMA SubmitMoves ==
    ASSUME IInv, NEW a \in Attempt, Submit(a) \/ LookupSidecar(a) \/ PassDurabilityGate(a) \/ PerformEffect(a)
    PROVE  Moves
<1>1. UNCHANGED <<journal, dropped, snapshot, sidecar, dirty, baseline, mode>>
  BY DEF Submit, LookupSidecar, PassDurabilityGate, PerformEffect, files, memory
<1>2. \/ \E result \in {"answered", "failed"} : \E o : Settle(a, result, o)
      \/ \E next \in {"answered", "joined", "lookup", "ready", "reserve", "await"} :
           pc' = [pc EXCEPT ![a] = next]
      \/ pc[a] = "effect" /\ pc' = [pc EXCEPT ![a] = "terminal"]
  <2>1. CASE Submit(a)
    BY <2>1 DEF Submit
  <2>2. CASE LookupSidecar(a)
    BY <2>2 DEF LookupSidecar
  <2>3. CASE PassDurabilityGate(a)
    BY <2>3 DEF PassDurabilityGate
  <2>4. CASE PerformEffect(a)
    BY <2>4 DEF PerformEffect
  <2> QED
    BY <2>1, <2>2, <2>3, <2>4
<1>3. Active' \subseteq Active
  <2>1. ASSUME NEW next \in {"answered", "joined", "lookup", "ready", "reserve", "await"}
        PROVE  next \notin Executing \ {"reserve"}
    BY DEF Executing
  <2>2. pc[a] = "effect" => a \in Active
    BY DEF Active, Executing
  <2> QED
    BY <1>2, <2>1, <2>2, SettleActive, AdvanceActive DEF IInv
<1>4. DirtyKeys' = DirtyKeys
  BY <1>1 DEF DirtyKeys
<1> QED
  BY <1>1, <1>3, <1>4, LogStaysMoves DEF LogStays, SidecarKept, Charges, Calm, DirtyKept, Creating

\* A lookup of a retained event: its key is dirty already, or has a sidecar.
LEMMA LookupRetainedMoves ==
    ASSUME IInv, Replayable, NEW a \in Attempt, LookupRetained(a)
    PROVE  Moves
<1> DEFINE k == KeyOf[a]
<1>1. k \in Key
  BY OutcomeFacts
<1>2. /\ UNCHANGED <<journal, dropped, snapshot, sidecar, baseline, mode>>
      /\ mode = "up" /\ EndsTerminal(k)
  BY DEF LookupRetained, files
<1>3. Active' \subseteq Active
  <2> SUFFICES \E result \in {"answered", "failed"} : \E o : Settle(a, result, o)
    BY SettleActive
  <2> QED
    BY Zenon DEF LookupRetained
<1>4. PICK event, seq : event = journal[Latest(EventsOf(k))] /\ seq = SequenceAt(Latest(EventsOf(k)))
  OBVIOUS
<1>5. PICK out : out = IF Reconstructible(event) THEN event.out ELSE None
  OBVIOUS
<1>6. \/ dirty' = dirty
      \/ sidecar[k] # None /\ dirty' = [dirty EXCEPT ![k] = None]
      \/ sidecar[k] = None /\ dirty' = [dirty EXCEPT ![k] = [seq |-> seq, out |-> out]]
  BY <1>4, <1>5 DEF LookupRetained
<1>7. /\ sidecar[k] = None => dirty[k] # None
      /\ [seq |-> seq, out |-> out] \in DirtyEntry
  <2>1. EventsOf(k) # {} /\ EventsOf(k) \subseteq 1..Len(journal) /\ Len(journal) \in Nat
    BY <1>2, NumberFacts DEF EndsTerminal, EventsOf, IInv
  <2>2. PICK i \in 1..Len(journal) : i = Latest(EventsOf(k)) /\ i \in EventsOf(k)
    BY <2>1, LatestFact
  <2>3. PICK q \in Span : q = dropped + i /\ At(q) = journal[i] /\ q \in Nat
    BY <2>2, LogFacts DEF IInv
  <2>4. Ends(k, q) /\ event = At(q) /\ seq = q
    BY <1>2, <1>4, <2>2, <2>3 DEF EndsTerminal, EventsOf, IsTerminal, Ends, SequenceAt
  <2>5. event.out \in Outcome
    BY <2>4, LogFacts, OutcomeFacts DEF Written, IsTerminal, Ends, IInv
  <2> QED
    BY <1>1, <1>2, <1>5, <2>3, <2>4, <2>5 DEF Replayable, DirtyEntry
<1>8. dirty' \in [Key -> DirtyEntry \cup {None}] /\ dirty \in [Key -> DirtyEntry \cup {None}]
  <2>1. Typed' /\ Typed
    BY LookupRetainedQuiet DEF Quiet, IInv
  <2> QED
    BY <2>1 DEF Typed, TypeOK, DirtyEntry
<1>9. \A j \in Key \ {k} : dirty'[j] = dirty[j]
  BY <1>1, <1>6, <1>8
<1>10. DirtyKeys' \subseteq DirtyKeys
  <2>1. dirty'[k] # None => dirty[k] # None
    BY <1>1, <1>6, <1>7, <1>8
  <2> QED
    BY <1>9, <2>1 DEF DirtyKeys
<1>11. DirtyKept
  <2>1. dirty[k] # None => dirty'[k] # None \/ sidecar'[k] # None
    <3>1. CASE sidecar[k] = None /\ dirty' = [dirty EXCEPT ![k] = [seq |-> seq, out |-> out]]
      <4>1. dirty'[k] = [seq |-> seq, out |-> out]
        BY <1>1, <1>8, <3>1
      <4> QED
        BY <1>7, <4>1, EntryFacts
    <3> QED
      BY <1>1, <1>2, <1>6, <1>8, <3>1
  <2> QED
    BY <1>9, <2>1 DEF DirtyKept
<1> QED
  BY <1>2, <1>3, <1>10, <1>11, LogStaysMoves DEF LogStays, SidecarKept, Charges, Calm, Creating

\* tryReserveFreshExecution, after a flush if there is no room.
LEMMA ReserveMoves ==
    ASSUME IInv, NEW a \in Attempt, Reserve(a)
    PROVE  Moves
<1>1. UNCHANGED <<journal, dropped, snapshot, baseline, mode>>
  BY DEF Reserve
<1>2. dirty \in [Key -> DirtyEntry \cup {None}] /\ DirtyKeys \in SUBSET {k \in Key : dirty[k] # None}
  BY DirtyTyped DEF DirtyKeys, IInv
<1>3. UNCHANGED <<sidecar, dirty>> \/ FlushFrom(dirty, DirtyKeys)
  BY DEF Reserve, Flush
<1>4. SidecarKept /\ \A k \in Key : dirty'[k] = None \/ dirty'[k] = dirty[k]
  BY <1>2, <1>3, FlushFacts DEF SidecarKept, IInv
<1>5. DirtyKept
  BY <1>2, <1>3, FlushKeeps DEF DirtyKept, IInv
<1>6. DirtyKeys' \subseteq DirtyKeys
  BY <1>4, DirtyShrinks
<1>7. \/ HasRoom(dirty') /\ pc' = [pc EXCEPT ![a] = "request"]
      \/ Settle(a, "failed", None)
  BY DEF Reserve
<1>8. CASE HasRoom(dirty') /\ pc' = [pc EXCEPT ![a] = "request"]
  <2>1. "request" \in Executing \ {"reserve"}
    BY DEF Executing
  <2>2. Active' = Active \cup {a}
    BY <1>8, <2>1, AdvanceActive DEF IInv
  <2>3. Cardinality(DirtyKeys') + Cardinality(Active) < Budget
    BY <1>8 DEF HasRoom, DirtyKeys
  <2>4. Charges
    BY <1>6, <2>2, <2>3 DEF Charges, Starts
  <2> QED
    BY <1>1, <1>4, <1>5, <2>4, LogStaysMoves DEF LogStays, Creating
<1>9. CASE Settle(a, "failed", None)
  <2>1. Active' \subseteq Active
    BY <1>9, SettleActive
  <2> QED
    BY <1>1, <1>4, <1>5, <1>6, <2>1, LogStaysMoves DEF LogStays, Creating, Charges, Calm
<1> QED
  BY <1>7, <1>8, <1>9

\* persistTerminalOutcomeOrLeaveDirty: a key leaves the dirty map for its sidecar.
LEMMA PersistOutcomeMoves ==
    ASSUME IInv, NEW a \in Attempt, PersistOutcome(a)
    PROVE  Moves
<1>1. PICK k \in Key : k = KeyOf[a]
  BY OutcomeFacts
<1>2. /\ UNCHANGED <<journal, dropped, snapshot, baseline, mode>>
      /\ Settle(a, "answered", a)
      /\ \/ sidecar' = [sidecar EXCEPT ![k] = a] /\ dirty' = [dirty EXCEPT ![k] = None]
         \/ UNCHANGED dirty
  BY <1>1 DEF PersistOutcome
<1>3. SidecarKept
  BY PersistOutcomeQuiet DEF Quiet, QuietStep, FilesStep
<1>4. /\ dirty \in [Key -> DirtyEntry \cup {None}] /\ sidecar \in [Key -> Outcome \cup {None}]
      /\ a # None
  BY DirtyTyped, OutcomeFacts DEF IInv, Typed, TypeOK
<1>5. DirtyKept /\ \A j \in Key : dirty'[j] = None \/ dirty'[j] = dirty[j]
  BY <1>2, <1>4 DEF DirtyKept
<1>6. DirtyKeys' \subseteq DirtyKeys /\ Active' \subseteq Active
  BY <1>2, <1>5, DirtyShrinks, SettleActive
<1> QED
  BY <1>2, <1>3, <1>5, <1>6, LogStaysMoves DEF LogStays, Creating, Charges, Calm

\* The request event ends nothing.
LEMMA AppendRequestMoves ==
    ASSUME IInv, NEW a \in Attempt, AppendRequest(a)
    PROVE  Moves
<1>1. /\ UNCHANGED <<dropped, snapshot, sidecar, baseline, mode, dirty>> /\ pc[a] = "request"
      /\ \/ journal' = Append(journal, Requested(a)) /\ pc' = [pc EXCEPT ![a] = "effect"]
         \/ UNCHANGED journal /\ Settle(a, "failed", None)
  BY DEF AppendRequest, AppendSucceeds, AppendFails
<1>2. PICK e \in Written : e = Requested(a) /\ ~IsTerminal(e)
  <2>1. Requested(a) \in Written /\ ~IsTerminal(Requested(a))
    BY DEF Requested, Written, Event, IsTerminal
  <2> QED
    BY <2>1
<1>3. DirtyKeys' = DirtyKeys /\ DirtyKept
  BY <1>1 DEF DirtyKeys, DirtyKept
<1>4. a \in Active
  BY <1>1 DEF Active, Executing
<1>5. Active' \subseteq Active
  BY <1>1, <1>4, SettleActive, AdvanceActive DEF IInv
<1>6. Charges /\ SidecarKept
  BY <1>1, <1>3, <1>5 DEF Charges, Calm, SidecarKept
<1>7. CASE journal' = Append(journal, e)
  BY <1>1, <1>2, <1>3, <1>6, <1>7, LogGrowsMoves DEF LogGrows, Creating
<1>8. CASE UNCHANGED journal
  BY <1>1, <1>3, <1>6, <1>8, LogStaysMoves DEF LogStays, Creating
<1> QED
  BY <1>1, <1>2, <1>7, <1>8

\* A running execution finds room for its key in the dirty map: it was counted.
LEMMA RoomForRunning ==
    ASSUME FewCharges, ChargesFit, mode = "up", NEW a \in Active, NEW k \in Key, k = KeyOf[a]
    PROVE  ~DirtyFull(k)
<1> SUFFICES ASSUME dirty[k] = None PROVE Cardinality(DirtyKeys) < Budget
  BY FS_CardinalityType DEF DirtyFull, FewCharges
<1> DEFINE U == DirtyKeys \cup {KeyOf[b] : b \in Active}
<1>1. IsFiniteSet(U) /\ Cardinality(U) <= Budget
  BY FewKeys, FS_Union DEF ChargesFit, FewCharges
<1>2. k \notin DirtyKeys /\ DirtyKeys \cup {k} \in SUBSET U
  BY DEF DirtyKeys
<1> HIDE DEF U
<1>3. Cardinality(DirtyKeys \cup {k}) <= Cardinality(U)
  BY <1>1, <1>2, FS_Subset
<1>4. Cardinality(DirtyKeys \cup {k}) = Cardinality(DirtyKeys) + 1
  BY <1>2, FS_AddElement DEF FewCharges
<1>5. Cardinality(DirtyKeys) \in Nat /\ Cardinality(U) \in Nat
  BY <1>1, FS_CardinalityType DEF FewCharges
<1> QED
  BY <1>1, <1>3, <1>4, <1>5

\* The terminal event of an execution: its key becomes dirty.
LEMMA AppendTerminalMoves ==
    ASSUME IInv, FewCharges, ChargesFit, NEW a \in Attempt, AppendTerminal(a)
    PROVE  Moves
<1>1. PICK k \in Key : k = KeyOf[a]
  BY OutcomeFacts
<1>2. /\ UNCHANGED <<dropped, snapshot, sidecar, baseline, mode>> /\ pc[a] = "terminal" /\ mode = "up"
      /\ \/ /\ journal' = Append(journal, Terminal(a, a))
            /\ IF DirtyFull(k) THEN Settle(a, "failed", None) /\ UNCHANGED dirty
               ELSE /\ dirty' = [dirty EXCEPT ![k] = [seq |-> LastSequence + 1, out |-> a]]
                    /\ pc' = [pc EXCEPT ![a] = "persist"]
         \/ UNCHANGED <<journal, dirty>> /\ Settle(a, "failed", None)
  BY <1>1 DEF AppendTerminal, AppendSucceeds, AppendFails
<1>3. a \in Active
  BY <1>2 DEF Active, Executing
<1>4. ~DirtyFull(k)
  BY <1>1, <1>2, <1>3, RoomForRunning
<1>5. CASE UNCHANGED <<journal, dirty>> /\ Settle(a, "failed", None)
  <2>1. DirtyKeys' = DirtyKeys /\ DirtyKept /\ Active' \subseteq Active
    BY <1>5, SettleActive DEF DirtyKeys, DirtyKept
  <2> QED
    BY <1>2, <1>5, <2>1, LogStaysMoves DEF LogStays, Creating, Charges, Calm, SidecarKept
<1>6. CASE /\ journal' = Append(journal, Terminal(a, a))
           /\ dirty' = [dirty EXCEPT ![k] = [seq |-> LastSequence + 1, out |-> a]]
           /\ pc' = [pc EXCEPT ![a] = "persist"]
  <2>1. PICK e \in Written : e = Terminal(a, a) /\ e.tx = a
    <3>1. Terminal(a, a) \in Written /\ Terminal(a, a).tx = a
      BY OutcomeFacts DEF Terminal, Written, Event, Exact
    <3> QED
      BY <3>1
  <2>2. [seq |-> LastSequence + 1, out |-> a] \in DirtyEntry
    BY SpanFacts, OutcomeFacts DEF DirtyEntry
  <2>3. /\ dirty \in [Key -> DirtyEntry \cup {None}] /\ dirty'[k] # None
        /\ \A j \in Key \ {k} : dirty'[j] = dirty[j]
    BY <1>6, <2>2, DirtyTyped, EntryFacts DEF IInv
  <2>4. DirtyKept /\ DirtyKeys' \subseteq DirtyKeys \cup {KeyOf[a]}
    BY <1>1, <2>3 DEF DirtyKept, DirtyKeys
  <2>5. Active' \subseteq Active
    BY <1>3, <1>6, AdvanceActive DEF IInv
  <2>6. Charges
    BY <1>2, <1>3, <2>4, <2>5 DEF Charges, Finishes
  <2> QED
    BY <1>1, <1>2, <1>6, <2>1, <2>3, <2>4, <2>6, LogGrowsMoves DEF LogGrows, Creating
<1> QED
  BY <1>2, <1>4, <1>5, <1>6

\* Evictions, the end of recovery, and the steps of a compaction around its snapshot.
LEMMA EasyMoves ==
    ASSUME IInv, \/ RecoveryDone \/ CompactBatch \/ CompactEnd
                 \/ \E k \in Key : Evict(k) \/ MarkCompacted(k)
    PROVE  Moves
<1>1. /\ UNCHANGED <<journal, dropped, snapshot, baseline, dirty, pc>>
      /\ mode' = mode \/ (mode = "recover" /\ mode' = "publish")
  BY DEF RecoveryDone, CompactBatch, CompactEnd, Evict, MarkCompacted, files, memory
<1>2. SidecarKept
  <2>1. CASE RecoveryDone \/ CompactBatch \/ CompactEnd \/ \E k \in Key : Evict(k)
    BY <2>1 DEF RecoveryDone, CompactBatch, CompactEnd, Evict, files, SidecarKept
  <2>2. CASE \E k \in Key : MarkCompacted(k)
    BY <2>2, MarkCompactedQuiet DEF Quiet, QuietStep, FilesStep
  <2> QED
    BY <2>1, <2>2
<1>3. DirtyKeys' = DirtyKeys /\ DirtyKept /\ Active' = Active
  BY <1>1 DEF DirtyKeys, DirtyKept, Active
<1> QED
  BY <1>1, <1>2, <1>3, LogStaysMoves DEF LogStays, Creating, Charges, Calm

\* The flush of a compaction.
LEMMA CompactFlushMoves ==
    ASSUME IInv, CompactFlush
    PROVE  Moves
<1> DEFINE due == {k \in DirtyKeys : dirty[k].seq <= compaction.covered}
<1>1. /\ UNCHANGED <<journal, dropped, snapshot, baseline, mode, pc>>
      /\ FlushFrom(dirty, due)
  BY DEF CompactFlush, Flush
<1>2. dirty \in [Key -> DirtyEntry \cup {None}] /\ due \in SUBSET {k \in Key : dirty[k] # None}
  BY DirtyTyped DEF DirtyKeys, IInv
<1> HIDE DEF due
<1>3. SidecarKept /\ DirtyKept /\ \A k \in Key : dirty'[k] = None \/ dirty'[k] = dirty[k]
  BY <1>1, <1>2, FlushFacts, FlushKeeps DEF DirtyKept, IInv
<1>4. DirtyKeys' \subseteq DirtyKeys /\ Active' = Active
  BY <1>1, <1>3, DirtyShrinks DEF Active
<1> QED
  BY <1>1, <1>3, <1>4, LogStaysMoves DEF LogStays, Creating, Charges, Calm

\* verifyCoveredTerminalOutcomes, then the snapshot.
LEMMA CompactSnapshotMoves ==
    ASSUME IInv, CompactSnapshot
    PROVE  Moves
<1>1. /\ UNCHANGED <<journal, dropped, baseline, sidecar, mode, pc, dirty>> /\ compaction.step = "snapshot"
  BY DEF CompactSnapshot
<1>2. SnapshotMoves /\ (Creating' => UNCHANGED snapshot \/ Creating)
  <2> DEFINE next == [covered |-> compaction.covered, open |-> OpenBelow(compaction.covered)]
             verified == \A k \in Key : compaction.expected[k] # None =>
                           sidecar[k] \in {"compacted", compaction.expected[k]}
  <2>1. snapshot' = snapshot \/ (verified /\ snapshot' = next)
    <3> HIDE DEF next, verified
    <3>1. \/ snapshot' = snapshot
          \/ verified /\ snapshot' = next
          \/ verified /\ snapshot' \in {snapshot, next}
      BY DEF CompactSnapshot, next, verified
    <3> QED
      BY <3>1
  <2>2. verified => \A k \in Key : compaction.expected[k] # None => sidecar[k] # None
    BY DEF IInv, Typed, TypeOK
  <2>3. snapshot' = next => snapshot'.covered = compaction.covered
    OBVIOUS
  <2> HIDE DEF next, verified
  <2> QED
    BY <1>1, <2>1, <2>2, <2>3 DEF SnapshotMoves, LogStays, Creating
<1>3. DirtyKeys' = DirtyKeys /\ DirtyKept /\ Active' = Active /\ SidecarKept
  BY <1>1 DEF DirtyKeys, DirtyKept, Active, SidecarKept
<1>4. Span' = Span /\ \A q \in Span : At(q)' = At(q)
  BY <1>1, SameLog
<1>5. Replays
  BY <1>1, <1>3, <1>4 DEF Replays, DirtyKept, Ends, IsTerminal
<1> QED
  BY <1>1, <1>2, <1>3, <1>5 DEF Moves, LogMoves, LogStays, BaselineMoves, Creating, Charges, Calm

\* A step that takes a prefix of the log away.
LEMMA LogDropsMoves ==
    ASSUME NEW d \in Nat, LogDrops(d), UNCHANGED <<snapshot, sidecar, dirty, pc>>,
           mode' = "up" => mode = "up", BaselineMoves
    PROVE  Moves
<1>1. DirtyKeys' = DirtyKeys /\ Active' = Active /\ SidecarKept
  BY DEF DirtyKeys, Active, SidecarKept
<1>2. Replays
  BY DEF Replays, LogDrops, Ends, IsTerminal
<1> QED
  BY <1>1, <1>2 DEF Moves, LogMoves, SnapshotMoves, Charges, Calm

\* ControlJournal.compact.
LEMMA CompactTruncateMoves ==
    ASSUME IInv, CompactTruncate
    PROVE  Moves
<1>1. /\ compaction.step = "markers"
      /\ UNCHANGED <<baseline, snapshot, sidecar, mode, pc, dirty>>
      /\ \/ UNCHANGED <<journal, dropped>>
         \/ /\ journal' = SubSeq(journal, compaction.covered - dropped + 1, Len(journal))
            /\ dropped' = compaction.covered
  BY DEF CompactTruncate
<1>2. CASE UNCHANGED <<journal, dropped>>
  <2>1. DirtyKeys' = DirtyKeys /\ DirtyKept /\ Active' = Active /\ SidecarKept
    BY <1>1 DEF DirtyKeys, DirtyKept, Active, SidecarKept
  <2> QED
    BY <1>1, <1>2, <2>1, LogStaysMoves DEF LogStays, Creating, Charges, Calm
<1>3. CASE /\ journal' = SubSeq(journal, compaction.covered - dropped + 1, Len(journal))
           /\ dropped' = compaction.covered
  <2>1. PICK c \in Nat : c = compaction.covered
    BY DEF IInv, Typed, TypeOK
  <2>2. dropped <= c /\ c + Retain <= LastSequence /\ LastSequence \in Nat /\ dropped \in Nat
    BY <1>1, <2>1, LogFacts DEF IInv, Positions
  <2>3. c \in dropped..LastSequence
    BY <2>2
  <2>4. /\ LastSequence' = LastSequence /\ Span' = {q \in Span : q > c}
        /\ \A q \in Span' : At(q)' = At(q)
    BY <1>3, <2>1, <2>3, Drops DEF IInv
  <2>5. LogDrops(c)
    BY <2>2, <2>4 DEF LogDrops
  <2> QED
    BY <1>1, <2>5, LogDropsMoves DEF BaselineMoves, Creating
<1> QED
  BY <1>1, <1>2, <1>3

\* ControlJournal.open.
LEMMA OpenMoves ==
    ASSUME IInv, Open
    PROVE  Moves
<1>1. /\ mode' = "recover" /\ dropped' = cut /\ baseline' = snapshot.covered
      /\ UNCHANGED <<snapshot, sidecar, pc, dirty>>
      /\ journal' = IF torn \in {None, Shorter} THEN SubSeq(journal, cut - dropped + 1, Len(journal))
                    ELSE Append(SubSeq(journal, cut - dropped + 1, Len(journal)), torn)
  BY DEF Open
<1>2. PICK d \in Nat : d = cut
  BY DEF IInv, Typed, TypeOK
<1>3. LastSequence \in Nat /\ d \in dropped..LastSequence
  <2>1. dropped \in Nat /\ LastSequence \in Nat /\ snapshot.covered \in Nat /\ snapshot.covered <= LastSequence
    BY LogFacts, SpanFacts DEF IInv
  <2> QED
    BY <1>2, <2>1 DEF IInv, Positions
<1>4. CASE torn \in {None, Shorter}
  <2>1. LastSequence' = LastSequence /\ Span' = {q \in Span : q > d} /\ \A q \in Span' : At(q)' = At(q)
    BY <1>1, <1>2, <1>3, <1>4, Drops DEF IInv
  <2>2. LogDrops(d)
    BY <1>3, <2>1 DEF LogDrops
  <2> QED
    BY <1>1, <2>2, LogDropsMoves DEF BaselineMoves
<1>5. CASE torn \notin {None, Shorter}
  <2>1. PICK n \in Nat : n = LastSequence + 1
    BY <1>3
  <2>2. torn \in Written
    BY <1>5 DEF IInv, Typed
  <2>3. /\ LastSequence' = n /\ Span' = {q \in Span : q > cut} \cup {n}
        /\ \A q \in Span : q < n /\ (q > cut => At(q)' = At(q))
    <3>1. Typed /\ cut \in dropped..LastSequence /\ dropped' = cut
          /\ journal' = Append(SubSeq(journal, cut - dropped + 1, Len(journal)), torn)
      BY <1>1, <1>2, <1>3, <1>5 DEF IInv
    <3> QED
      BY <2>1, <2>2, <3>1, DropsAndGrows
  <2>4. LogDrops(d)
    BY <1>1, <1>2, <1>3, <2>1, <2>3 DEF LogDrops
  <2> QED
    BY <1>1, <2>4, LogDropsMoves DEF BaselineMoves
<1> QED
  BY <1>4, <1>5

\* recoverNonterminalCommands.
LEMMA RecoverOneMoves ==
    ASSUME IInv, NEW a \in Attempt, RecoverOne(a)
    PROVE  Moves
<1>1. /\ UNCHANGED <<dropped, baseline, snapshot, sidecar, pc, dirty>> /\ mode = "recover"
      /\ \/ journal' = Append(journal, Terminal(a, "unknown")) /\ UNCHANGED mode
         \/ UNCHANGED journal /\ mode' = "down"
  BY DEF RecoverOne, AppendSucceeds, AppendFails
<1>2. DirtyKeys' = DirtyKeys /\ DirtyKept /\ Active' = Active /\ SidecarKept
  BY <1>1 DEF DirtyKeys, DirtyKept, Active, SidecarKept
<1>3. Charges
  BY <1>1, <1>2 DEF Charges, Calm
<1>4. PICK e \in Written : e = Terminal(a, "unknown")
  <2>1. Terminal(a, "unknown") \in Written
    BY DEF Terminal, Written, Event, Exact, Outcome
  <2> QED
    BY <2>1
<1>5. CASE journal' = Append(journal, e) /\ UNCHANGED mode
  BY <1>1, <1>2, <1>3, <1>5, LogGrowsMoves DEF LogGrows, Creating
<1>6. CASE UNCHANGED journal /\ mode' = "down"
  BY <1>1, <1>2, <1>3, <1>6, LogStaysMoves DEF LogStays, Creating
<1> QED
  BY <1>1, <1>4, <1>5, <1>6

\* A process that stops forgets its dirty map and its executions.
LEMMA ForgetMoves ==
    ASSUME IInv, ForgetMemory, UNCHANGED <<journal, dropped, snapshot, sidecar>>, mode' \in {"down", "broken"}
    PROVE  Moves
<1>1. /\ \A k \in Key : dirty'[k] = None
      /\ \A a \in Attempt : pc'[a] \in {"idle"} \cup Answered
  BY ForgetFacts DEF IInv
<1>2. DirtyKeys' = {} /\ Active' = {} /\ SidecarKept
  BY <1>1 DEF DirtyKeys, Active, Answered, Executing, SidecarKept
<1> QED
  BY <1>2, LogStaysMoves DEF LogStays, Charges, Calm, Creating

\* The first element of a sequence is of its kind.
LEMMA HeadType == ASSUME NEW S, NEW s \in Seq(S), s # <<>> PROVE Head(s) \in S
OBVIOUS

\* persistRecoveredTerminalOutcomes.
LEMMA PublishRecoveredMoves ==
    ASSUME IInv, PublishRecovered
    PROVE  Moves
<1>1. PICK k : k = KeyOf[Head(recovered).tx]
  OBVIOUS
<1>2. PICK entry : entry = [seq |-> Head(recovered).seq, out |-> "unknown"]
  OBVIOUS
<1>3. /\ UNCHANGED <<journal, dropped, snapshot, baseline>> /\ mode = "publish" /\ recovered # <<>>
      /\ \/ ForgetMemory /\ mode' = "down" /\ UNCHANGED sidecar
         \/ /\ UNCHANGED <<mode, pc>>
            /\ dirty' \in {[dirty EXCEPT ![k] = None], [dirty EXCEPT ![k] = entry]}
  BY <1>1, <1>2 DEF PublishRecovered
<1>4. CASE ForgetMemory /\ mode' = "down" /\ UNCHANGED sidecar
  BY <1>3, <1>4, ForgetMoves
<1>5. CASE UNCHANGED <<mode, pc>> /\ dirty' \in {[dirty EXCEPT ![k] = None], [dirty EXCEPT ![k] = entry]}
  <2>1. k \in Key
    <3>1. recovered \in Seq([seq : Nat, tx : Attempt])
      BY DEF IInv, Typed, TypeOK
    <3>2. Head(recovered) \in [seq : Nat, tx : Attempt]
      BY <1>3, <3>1, HeadType
    <3> QED
      BY <1>1, <3>2
  <2>2. \A j \in Key \ {k} : dirty'[j] = dirty[j]
    BY <1>5, DirtyTyped DEF IInv
  <2>3. DirtyKeys' \subseteq DirtyKeys \cup {k} /\ Active' = Active
    BY <1>5, <2>2 DEF DirtyKeys, Active
  <2>4. SidecarKept
    BY PublishRecoveredQuiet DEF Quiet, QuietStep, FilesStep
  <2>5. Charges
    BY <1>3, <1>5, <2>1, <2>3 DEF Charges, Publishes
  <2> QED
    BY <1>3, <1>5, <2>4, <2>5, LogStaysMoves DEF LogStays, Creating
<1> QED
  BY <1>3, <1>4, <1>5

\* restoreRetainedOutcomes: a process that comes up has every key without a sidecar
\* in its dirty map, and no more keys there than the limit.
LEMMA RestoreMoves ==
    ASSUME IInv, FewCharges, Covered, Restore
    PROVE  /\ LogMoves /\ SnapshotMoves /\ SidecarKept /\ BaselineMoves /\ Charges
           /\ mode' = "up" => Replayable'
<1> DEFINE tail(k) == {i \in TerminalsOf(k) : SequenceAt(i) > baseline}
           keys == {k \in Key : tail(k) # {}}
           event(k) == journal[Latest(tail(k))]
           missing == {k \in keys : sidecar[k] = None}
           restored == [k \in Key |->
                          IF k \in missing
                          THEN [seq |-> SequenceAt(Latest(tail(k))), out |-> event(k).out]
                          ELSE IF k \in keys THEN None ELSE dirty[k]]
           R == {k \in Key : restored[k] # None}
<1>1. /\ UNCHANGED <<journal, dropped, baseline, snapshot>> /\ mode = "publish"
      /\ \/ ForgetMemory /\ mode' = "broken" /\ UNCHANGED sidecar
         \/ /\ mode' = "up" /\ UNCHANGED pc
            /\ Cardinality(R) <= Budget
            /\ FlushFrom(restored, R)
  BY DEF Restore
<1>2. CASE ForgetMemory /\ mode' = "broken" /\ UNCHANGED sidecar
  BY <1>1, <1>2, ForgetMoves DEF Moves
<1>3. ASSUME NEW k \in Key, NEW i \in TerminalsOf(k), SequenceAt(i) > baseline, sidecar[k] = None
      PROVE  restored[k] \in DirtyEntry
  <2>1. /\ i \in tail(k) /\ tail(k) \subseteq 1..Len(journal) /\ Len(journal) \in Nat
        /\ tail(k) \subseteq TerminalsOf(k)
    BY <1>3, NumberFacts DEF TerminalsOf, EventsOf, IInv
  <2>2. PICK j \in 1..Len(journal) : j = Latest(tail(k)) /\ j \in TerminalsOf(k)
    <3> HIDE DEF tail
    <3> QED
      BY <2>1, LatestFact
  <2>3. PICK q \in Span : q = dropped + j /\ At(q) = journal[j] /\ q \in Nat
    BY <2>2, LogFacts DEF IInv
  <2>4. IsTerminal(At(q)) /\ event(k) = At(q) /\ SequenceAt(Latest(tail(k))) = q
    BY <2>2, <2>3 DEF TerminalsOf, IsTerminal, SequenceAt
  <2>5. event(k).out \in Outcome
    BY <2>4, LogFacts, OutcomeFacts DEF Written, IsTerminal, IInv
  <2>6. restored[k] = [seq |-> SequenceAt(Latest(tail(k))), out |-> event(k).out]
    BY <1>3, <2>1
  <2> QED
    BY <2>3, <2>4, <2>5, <2>6 DEF DirtyEntry
<1>4. IsFiniteSet(R)
  <2> DEFINE J == 1..Len(journal)
             f == [i \in J |-> KeyOf[journal[i].tx]]
             K == {KeyOf[journal[i].tx] : i \in J}
  <2>1. f \in Surjection(J, K)
    BY DEF Surjection
  <2>2. IsFiniteSet(J)
    BY NumberFacts, FS_Interval DEF IInv
  <2>3. keys \subseteq K
    BY DEF TerminalsOf, EventsOf
  <2>4. R \subseteq keys \cup DirtyKeys
    BY DEF DirtyKeys
  <2> HIDE DEF J, f, K, R, keys
  <2>5. IsFiniteSet(K)
    BY <2>1, <2>2, FS_Surjection
  <2>6. IsFiniteSet(K \cup DirtyKeys)
    BY <2>5, FS_Union DEF FewCharges
  <2> QED
    BY <2>3, <2>4, <2>6, FS_Subset
<1>5. restored \in [Key -> DirtyEntry \cup {None}]
  <2> SUFFICES ASSUME NEW k \in Key PROVE restored[k] \in DirtyEntry \cup {None}
    OBVIOUS
  <2>1. CASE k \in missing
    <3>1. PICK i \in TerminalsOf(k) : SequenceAt(i) > baseline
      BY <2>1
    <3> QED
      BY <1>3, <2>1, <3>1
  <2>2. CASE k \notin missing
    BY <2>2, DirtyTyped DEF IInv
  <2> QED
    BY <2>1, <2>2
<1>6. ASSUME NEW k \in Key, NEW q \in Span, Ends(k, q), sidecar[k] = None
      PROVE  restored[k] # None
  <2>1. PICK r \in Span : Ends(k, r) /\ r > baseline
    <3>1. q \in Nat /\ baseline \in Nat
      BY SpanFacts DEF IInv, Typed, TypeOK
    <3>2. Backed(k, baseline)
      BY <1>1 DEF Covered, Creating
    <3> QED
      BY <1>6, <3>1, <3>2 DEF Backed
  <2>2. PICK i \in 1..Len(journal) : i = r - dropped /\ r \in Nat /\ dropped \in Nat
    BY LogFacts DEF IInv
  <2>3. i \in TerminalsOf(k) /\ SequenceAt(i) = r
    BY <2>1, <2>2 DEF TerminalsOf, EventsOf, Ends, IsTerminal, At, SequenceAt
  <2> QED
    BY <1>3, <1>6, <2>1, <2>3, EntryFacts
<1> HIDE DEF restored
<1>7. CASE mode' = "up" /\ UNCHANGED pc /\ Cardinality(R) <= Budget /\ FlushFrom(restored, R)
  <2>1. /\ SidecarKept
        /\ \A k \in Key : dirty'[k] = None \/ dirty'[k] = restored[k]
        /\ \A k \in Key : restored[k] # None => dirty'[k] # None \/ sidecar'[k] # None
    BY <1>5, <1>7, FlushFacts, FlushKeeps DEF IInv
  <2>2. Active' = {}
    BY <1>1, <1>7 DEF Active, IInv, Progress, Answered, Executing
  <2>3. DirtyKeys' \in SUBSET R
    BY <2>1 DEF DirtyKeys
  <2>4. IsFiniteSet(DirtyKeys') /\ Cardinality(DirtyKeys') <= Budget
    <3> HIDE DEF R
    <3>1. /\ IsFiniteSet(DirtyKeys') /\ Cardinality(DirtyKeys') <= Cardinality(R)
          /\ Cardinality(DirtyKeys') \in Nat /\ Cardinality(R) \in Nat
      BY <1>4, <2>3, FS_Subset, FS_CardinalityType
    <3> QED
      BY <1>7, <3>1
  <2>5. Span' = Span /\ \A q \in Span : At(q)' = At(q)
    BY <1>1, SameLog
  <2>6. Replayable'
    BY <1>6, <2>1, <2>5 DEF Replayable, Ends, IsTerminal, SidecarKept
  <2> QED
    BY <1>1, <1>7, <2>1, <2>2, <2>4, <2>6
       DEF LogMoves, LogStays, SnapshotMoves, BaselineMoves, Creating, Charges, Begins
<1> QED
  BY <1>1, <1>2, <1>7

-----------------------------------------------------------------------------
(* Every step. *)

\* Every step moves log, snapshot, sidecars and charges as above.
LEMMA NextMoves ==
    ASSUME IInv, BInv, Next
    PROVE  Moves \/ Restore
<1> USE DEF BInv
<1>1. ASSUME NEW a \in Attempt, Submit(a) \/ Step(a) PROVE Moves
  BY <1>1, SubmitMoves, LookupRetainedMoves, ReserveMoves, AppendRequestMoves, AppendTerminalMoves,
     PersistOutcomeMoves DEF Step
<1>2. CASE Compact
  BY <1>2, EasyMoves, CompactFlushMoves, CompactSnapshotMoves, CompactTruncateMoves DEF Compact
<1>3. CASE Crash \/ CreateFails
  BY <1>3, ForgetMoves DEF Crash, CreateFails, files
<1>4. CASE Open \/ \E k \in Key : Evict(k)
  BY <1>4, EasyMoves, OpenMoves
<1>5. CASE Create
  BY <1>5, EasyMoves, PublishRecoveredMoves, RecoverOneMoves DEF Create
<1> QED
  BY <1>1, <1>2, <1>3, <1>4, <1>5 DEF Next

\* What a running process can replay, it can still replay after a step.
LEMMA ReplayableStep ==
    ASSUME Replayable, Replays, SidecarKept
    PROVE  Replayable'
<1> SUFFICES ASSUME mode' = "up", NEW k \in Key, NEW q \in Span', Ends(k, q)', sidecar'[k] = None
             PROVE  dirty'[k] # None
  BY DEF Replayable
<1>1. CASE q \in Span /\ Ends(k, q)
  BY <1>1 DEF Replayable, Replays, SidecarKept
<1> QED
  BY <1>1 DEF Replays

LEMMA InitBInv == ASSUME Init PROVE BInv
<1>1. DirtyKeys = {} /\ Active = {} /\ DirtyKeys \cup {KeyOf[a] : a \in Active} = {}
  BY DEF Init, DirtyKeys, Active, Executing
<1>2. Span = {}
  BY DEF Init, Span, LastSequence
<1>3. mode = "up"
  BY DEF Init
<1>4. FewCharges
  BY <1>1, FS_EmptySet DEF FewCharges
<1>5. Covered /\ Replayable
  BY <1>2, <1>3 DEF Covered, Backed, Replayable, Creating
<1>6. ChargesFit
  <2>1. Cardinality({}) = 0 /\ 0 <= Budget
    BY FS_EmptySet
  <2> QED
    BY <1>1, <2>1 DEF ChargesFit
<1> QED
  BY <1>4, <1>5, <1>6 DEF BInv

\* Every step keeps the invariant of the budget, beside the one of
\* DurableOutcomes_proofs.
LEMMA BInvStep ==
    ASSUME IInv, IInv', BInv, [Next]_vars
    PROVE  BInv'
<1> USE DEF BInv
<1>1. CASE Moves
  BY <1>1, CoveredStep, BudgetStep, ReplayableStep DEF Moves
<1>2. CASE Restore
  <2>1. /\ LogMoves /\ SnapshotMoves /\ SidecarKept /\ BaselineMoves /\ Charges
        /\ mode' = "up" => Replayable'
    BY <1>2, RestoreMoves
  <2>2. Replayable'
    BY <2>1 DEF Replayable
  <2> QED
    BY <2>1, <2>2, CoveredStep, BudgetStep
<1>3. CASE UNCHANGED vars
  <2>1. UNCHANGED <<journal, dropped, snapshot, sidecar, baseline, mode, pc, dirty>>
    BY <1>3 DEF vars, files, memory
  <2>2. DirtyKeys' = DirtyKeys /\ DirtyKept /\ Active' = Active /\ SidecarKept
    BY <2>1 DEF DirtyKeys, DirtyKept, Active, SidecarKept
  <2>3. Moves
    BY <2>1, <2>2, LogStaysMoves DEF LogStays, Creating, Charges, Calm
  <2> QED
    BY <1>1, <2>3
<1> QED
  BY <1>1, <1>2, <1>3, NextMoves

-----------------------------------------------------------------------------
(* Behaviours in which no second outcome is published. *)

NoDecision == \A a \in Attempt : ~AppendDecision(a)

Undecided == \A a \in Attempt : deciding[a] = 0

\* Without a decision, a step is one of DurableOutcomes.
LEMMA UndecidedStep ==
    ASSUME Undecided, [ApprovalNext]_all, [NoDecision]_all
    PROVE  [Next]_vars /\ Undecided'
<1>1. CASE UNCHANGED all
  BY <1>1 DEF all, Undecided
<1>2. CASE Next /\ RequestsApprovals
  BY <1>2 DEF RequestsApprovals, Undecided
<1>3. ASSUME NEW a \in Attempt, AppendDecision(a) PROVE UNCHANGED all
  BY <1>3 DEF NoDecision
<1>4. ASSUME NEW a \in Attempt, PersistDecision(a) PROVE FALSE
  BY <1>4 DEF PersistDecision, Undecided
<1> QED
  BY <1>1, <1>2, <1>3, <1>4 DEF ApprovalNext

\* While no second outcome has been published, the invariants hold.
THEOREM BudgetInductive == ApprovalSpec /\ [][NoDecision]_all => [](IInv /\ BInv)
<1>1. ApprovalInit => Undecided /\ IInv /\ BInv
  BY Initially, InitBInv DEF ApprovalInit, Undecided
<1>2. IInv /\ [Next]_vars => IInv'
  BY NextFacts, IdleFacts
<1>3. IInv /\ BInv /\ [Next]_vars => IInv' /\ BInv'
  BY <1>2, BInvStep
<1>4. Undecided /\ [ApprovalNext]_all /\ [NoDecision]_all => [Next]_vars /\ Undecided'
  BY UndecidedStep
<1> QED
  BY <1>1, <1>3, <1>4, PTL DEF ApprovalSpec

\* tryReserveFreshExecution: in any behaviour in which no approval is decided, all dirty
\* outcomes and the running executions together never exceed the budget (ChargesFit),
\* and so those of DurabilityBudget, which leaves second outcomes out, do not either.
THEOREM WithinBudget ==
    ApprovalSpec /\ [][NoDecision]_all => [](ChargesFit /\ DurabilityBudget)
<1>1. ASSUME BInv PROVE DurabilityBudget
  <2> DEFINE U == DirtyKeys \cup {KeyOf[a] : a \in Active}
             V == (DirtyKeys \ Unreserved) \cup {KeyOf[a] : a \in Active}
  <2>1. IsFiniteSet(U)
    BY <1>1, FewKeys, FS_Union DEF BInv, FewCharges
  <2>2. V \in SUBSET U
    OBVIOUS
  <2>3. mode = "up" => Cardinality(U) <= Budget
    BY <1>1 DEF BInv, ChargesFit
  <2>4. SUFFICES mode = "up" => Cardinality(V) <= Budget
    BY DEF DurabilityBudget
  <2> HIDE DEF U, V
  <2>5. Cardinality(V) <= Cardinality(U) /\ Cardinality(V) \in Nat /\ Cardinality(U) \in Nat
    BY <2>1, <2>2, FS_Subset, FS_CardinalityType
  <2> QED
    BY <2>3, <2>5
<1>2. BInv => ChargesFit
  BY DEF BInv
<1> QED
  BY <1>1, <1>2, BudgetInductive, PTL

\* markDirtyTerminalOutcome never throws for the terminal event of an execution while no
\* approval is decided, so no effect is left with an event that neither the dirty map
\* nor a sidecar can replay.
THEOREM TerminalHasRoom ==
    ApprovalSpec /\ [][NoDecision]_all
        => [](mode = "up" => \A a \in Active : ~DirtyFull(KeyOf[a]))
<1>1. BInv => (mode = "up" => \A a \in Active : ~DirtyFull(KeyOf[a]))
  BY RoomForRunning, OutcomeFacts DEF BInv, Active
<1> QED
  BY <1>1, BudgetInductive, PTL

===============================================================================
