--------------------------- MODULE DurableOutcomes ---------------------------
(***************************************************************************)
(* What a control command leaves behind, and what a retry finds.           *)
(*                                                                         *)
(* One owner process runs ControlRuntime (src/src/control/runtime.ts) over *)
(* ControlJournal (src/src/control/journal.ts).  A client submits a command*)
(* under an idempotency key; the runtime journals the request, performs the*)
(* effect, journals the terminal event, and publishes the outcome in a     *)
(* sidecar file per key.  Compaction drops a journal prefix once sidecars  *)
(* and a snapshot stand for it.  The process may crash at any step and     *)
(* start again over the same files; file writes may fail.                  *)
(*                                                                         *)
(* An attempt is one call of submit(), with a command id of its own; the   *)
(* outcome of an effect is named by the attempt that ran it, so two        *)
(* executions never look alike.  Events other than command.requested and   *)
(* the terminal kinds, the receipts, and the digests (an outcome equals    *)
(* its digest here) are left out.  The second terminal event of a surface  *)
(* action that needed an approval is in DurableApprovals.  Commands of a   *)
(* pane wait in a queue of PaneLanes before their effect; any interleaving *)
(* of theirs is one here.                                                  *)
(* A failing file write has happened or has not; the case of a rename whose*)
(* verification fails and which is then undone by unlinking is left out.   *)
(* The keys a snapshot lists as completed are left out too: after a restart*)
(* they make a lookup that finds no sidecar fail, where here it is fresh.  *)
(***************************************************************************)
EXTENDS Naturals, Sequences, FiniteSets

CONSTANTS Attempt,     \* calls of submit()
          Key,         \* idempotency keys
          KeyOf,       \* the key each attempt carries
          SurfaceKey,  \* keys of surface commands: journalled without exact values
          None,        \* no value
          Shorter,     \* the journal file is shorter than its remembered length
          Trigger,     \* compact beyond this many retained events
          Retain,      \* events a compaction keeps
          Budget,      \* DIRTY_TERMINAL_OUTCOME_LIMIT: dirty plus active executions
          MaxCrashes,  \* bound of the model: crashes
          MaxFaults    \* bound of the model: failing file operations

ASSUME KeysAssumption ==
    /\ KeyOf \in [Attempt -> Key]
    /\ SurfaceKey \subseteq Key
    /\ None # Shorter
    /\ None \notin Attempt \cup Key \cup {"unknown", "compacted"}
    /\ Attempt \cap {"unknown", "compacted"} = {}

\* A dirty entry is a value.
ASSUME NoneAssumption ==
    None \notin [seq : Nat, out : Attempt \cup {"unknown", "compacted", None}]

ASSUME LimitsAssumption ==
    /\ Trigger \in Nat /\ Retain \in Nat /\ Retain < Trigger
    /\ Budget \in Nat \ {0}
    /\ MaxCrashes \in Nat /\ MaxFaults \in Nat

VARIABLES
    \* files, which survive a crash
    journal,     \* retained events of events.ndjson, oldest first
    cut,         \* the file holds the events after this sequence
    torn,        \* a whole line a failed append left behind its rollback
    snapshot,    \* snapshot.json: the sequence it covers, open transactions
    sidecar,     \* outcomes/<hash of the key>
    \* the owner process
    mode,        \* "down", the stages of ControlRuntime.create, "up", "broken"
    dropped,     \* firstSequence - 1: memory holds the events after it
    baseline,    \* what the snapshot covered when create() read it
    pc,          \* progress of each attempt
    pending,     \* pendingByIdempotencyKey
    hot,         \* outcomesByIdempotencyKey
    dirty,       \* dirtyTerminalOutcomes
    compaction,  \* the running compaction attempt
    blocked,     \* compactionBlockedByDurability
    recovered,   \* transactions recovery has terminalised, not yet published
    \* what happened
    effects,     \* how often each key's effect was performed
    orphaned,    \* keys whose terminal append failed after their effect
    answers,     \* the outcomes clients were given for each key
    crashes, faults

files == <<journal, cut, torn, snapshot, sidecar>>
memory == <<dropped, baseline, pc, pending, hot, dirty, compaction, blocked, recovered>>
history == <<effects, orphaned, answers>>
bounds == <<crashes, faults>>
vars == <<files, mode, memory, history, bounds>>

Outcome == Attempt \cup {"unknown", "compacted"}

Event == [kind : {"requested", "terminal"}, tx : Attempt, out : Outcome \cup {None}]

Requested(a) == [kind |-> "requested", tx |-> a, out |-> None]
Terminal(a, o) == [kind |-> "terminal", tx |-> a, out |-> o]

NoCompaction == [step |-> "idle", covered |-> 0, expected |-> [k \in Key |-> None],
                 guard |-> "valid"]

Executing == {"reserve", "request", "effect", "terminal", "persist"}
Answered == {"answered", "failed", "lost"}

TypeOK ==
    /\ journal \in Seq(Event)
    /\ cut \in Nat /\ dropped \in 0..cut /\ baseline \in Nat
    /\ torn \in Event \cup {None, Shorter}
    /\ snapshot \in [covered : Nat, open : SUBSET Attempt]
    /\ sidecar \in [Key -> Outcome \cup {None}]
    /\ mode \in {"down", "recover", "publish", "up", "broken"}
    /\ pc \in [Attempt -> {"idle", "joined", "lookup", "ready", "await"} \cup Executing \cup Answered]
    /\ pending \in [Key -> Attempt \cup {None}]
    /\ hot \in [Key -> Outcome \cup {None}]
    /\ dirty \in [Key -> [seq : Nat, out : Outcome \cup {None}] \cup {None}]
    /\ compaction \in [step : {"idle", "flush", "snapshot", "batch", "markers", "final"},
                       covered : Nat, expected : [Key -> Outcome \cup {None}],
                       guard : {"valid", "invalidated"}]
    /\ blocked \in BOOLEAN
    /\ recovered \in Seq([seq : Nat, tx : Attempt])
    /\ effects \in [Key -> Nat]
    /\ orphaned \subseteq Key
    /\ answers \in [Key -> SUBSET Outcome]
    /\ crashes \in 0..MaxCrashes
    /\ faults \in 0..MaxFaults

Init ==
    /\ journal = <<>> /\ cut = 0 /\ dropped = 0 /\ baseline = 0 /\ torn = None
    /\ snapshot = [covered |-> 0, open |-> {}]
    /\ sidecar = [k \in Key |-> None]
    /\ mode = "up"
    /\ pc = [a \in Attempt |-> "idle"]
    /\ pending = [k \in Key |-> None]
    /\ hot = [k \in Key |-> None]
    /\ dirty = [k \in Key |-> None]
    /\ compaction = NoCompaction
    /\ blocked = FALSE
    /\ recovered = <<>>
    /\ effects = [k \in Key |-> 0]
    /\ orphaned = {}
    /\ answers = [k \in Key |-> {}]
    /\ crashes = 0 /\ faults = 0

-----------------------------------------------------------------------------
(* Reading the journal. *)

SequenceAt(i) == dropped + i
LastSequence == dropped + Len(journal)

EventsOf(k) == {i \in 1..Len(journal) : KeyOf[journal[i].tx] = k}
TerminalsOf(k) == {i \in EventsOf(k) : journal[i].kind = "terminal"}

Latest(I) == CHOOSE i \in I : \A j \in I : j <= i

HasRequest(a) == \E i \in 1..Len(journal) : journal[i] = Requested(a)
HasTerminal(a) == \E i \in 1..Len(journal) : journal[i].kind = "terminal" /\ journal[i].tx = a

\* reconstructRetainedOutcome: recovery's own unknowns, and non-surface commands
\* whose command.requested event, which names the kind, is still retained.
Reconstructible(event) ==
    \/ event.out = "unknown"
    \/ KeyOf[event.tx] \notin SurfaceKey /\ HasRequest(event.tx)

\* verifyExactOutcomeAgainstTerminalEvent, with the compacted marker let through.
Matches(outcome, event) == outcome \in {"compacted", event.out}

DirtyKeys == {k \in Key : dirty[k] # None}
Active == {a \in Attempt : pc[a] \in Executing \ {"reserve"}}

\* compactionShouldAbort
Aborts(d) ==
    \/ compaction.guard = "invalidated"
    \/ \E k \in Key : d[k] # None /\ d[k].seq <= compaction.covered

\* invalidateActiveCompaction
Invalidated == IF compaction.step = "idle" THEN compaction
               ELSE [compaction EXCEPT !.guard = "invalidated"]

Fault == faults < MaxFaults /\ faults' = faults + 1
NoFault == UNCHANGED faults

-----------------------------------------------------------------------------
(* File operations that may fail. *)

\* append, after repairUnrolledAppend has cut off what a failed rollback left.
AppendSucceeds(event) ==
    /\ torn # Shorter
    /\ NoFault
    /\ journal' = Append(journal, event)
    /\ torn' = None

\* The append is reported as failed; its line, or an earlier one, may survive
\* whole when the fsync and the rollback both failed.  A file shorter than the
\* remembered length is not appended to.
AppendFails(event) ==
    /\ \/ /\ torn = Shorter
          /\ NoFault
          /\ torn' = torn
       \/ /\ torn # Shorter
          /\ Fault
          /\ torn' \in {torn, None, event}
    /\ journal' = journal

\* flushDirtyTerminalOutcomesThrough: publishes the outcomes of the given keys; a
\* publication that fails may still have renamed its file into place.
FlushFrom(d, keys) ==
    LET ready == {k \in keys : d[k].out # None}
        put(done) == [k \in Key |-> IF k \in done THEN d[k].out ELSE sidecar[k]]
        clear(done) == [k \in Key |-> IF k \in done THEN None ELSE d[k]]
    IN  \/ /\ NoFault
           /\ sidecar' = put(ready)
           /\ dirty' = clear(ready)
        \/ /\ ready # {}
           /\ Fault
           /\ \E bad \in SUBSET ready \ {{}} :
                /\ dirty' = clear(ready \ bad)
                /\ \/ sidecar' = put(ready)
                   \/ sidecar' = put(ready \ bad)

Flush(keys) == FlushFrom(dirty, keys)

\* compactJournal: joins the running compaction, or starts one if there is a
\* prefix beyond the retained window.
BeginCompaction ==
    \/ /\ compaction.step # "idle"
       /\ UNCHANGED <<compaction, blocked>>
    \/ /\ compaction.step = "idle"
       /\ LastSequence - Retain > dropped
       /\ compaction' = [step |-> "flush", covered |-> LastSequence - Retain,
                         expected |-> [k \in Key |-> None], guard |-> "valid"]
       /\ UNCHANGED blocked
    \/ /\ compaction.step = "idle"
       /\ LastSequence - Retain <= dropped
       /\ blocked' = FALSE
       /\ UNCHANGED compaction

\* maybeCompact, after markDirtyTerminalOutcome has invalidated a running attempt.
MaybeCompact ==
    IF compaction.step # "idle"
    THEN compaction' = Invalidated /\ UNCHANGED blocked
    ELSE IF Len(journal) > Trigger THEN BeginCompaction ELSE UNCHANGED <<compaction, blocked>>

-----------------------------------------------------------------------------
(* submit() *)

\* Mutant: a failed execution resolves its promise with nothing.
SettleAlwaysResolves(a, result, o) ==
    /\ pc' = [b \in Attempt |->
                IF b = a \/ (pc[b] = "joined" /\ KeyOf[b] = KeyOf[a]) THEN result ELSE pc[b]]
    /\ pending' = [pending EXCEPT ![KeyOf[a]] = None]
    /\ answers' = [answers EXCEPT ![KeyOf[a]] = @ \cup {o}]

\* The promise of the execution settles; every joined caller sees the same.
Settle(a, result, o) ==
    LET k == KeyOf[a]
    IN  /\ pc' = [b \in Attempt |->
                    IF b = a \/ (pc[b] = "joined" /\ KeyOf[b] = k) THEN result ELSE pc[b]]
        /\ pending' = [pending EXCEPT ![k] = None]
        /\ answers' = IF result = "answered"
                      THEN [answers EXCEPT ![k] = @ \cup {o}] ELSE answers

\* Mutant: submit() does not look for an execution under way.
InFlightIgnored(k) == FALSE

InFlight(k) == pending[k] # None

Submit(a) ==
    LET k == KeyOf[a]
        known == IF hot[k] # None THEN hot[k]
                 ELSE IF dirty[k] # None THEN dirty[k].out ELSE None
    IN  /\ mode = "up" /\ pc[a] = "idle"
        /\ \/ /\ known # None
              /\ pc' = [pc EXCEPT ![a] = "answered"]
              /\ answers' = [answers EXCEPT ![k] = @ \cup {known}]
              /\ UNCHANGED pending
           \/ /\ known = None /\ InFlight(k)
              /\ pc' = [pc EXCEPT ![a] = "joined"]
              /\ UNCHANGED <<pending, answers>>
           \/ /\ known = None /\ ~InFlight(k)
              /\ pc' = [pc EXCEPT ![a] = "lookup"]
              /\ pending' = [pending EXCEPT ![k] = a]
              /\ UNCHANGED answers
        /\ UNCHANGED <<files, mode, dropped, baseline, hot, dirty, compaction, blocked, recovered,
                       effects, orphaned, bounds>>

EndsTerminal(k) == EventsOf(k) # {} /\ journal[Latest(EventsOf(k))].kind = "terminal"

\* markDirtyTerminalOutcome throws when the map is full and the key is new.
DirtyFull(k) == dirty[k] = None /\ Cardinality(DirtyKeys) >= Budget

\* lookupOutcomeOrSubmitFresh, when the journal tail has a terminal event: its
\* sidecar answers if it matches, else the event itself if that is enough.
LookupRetained(a) ==
    LET k == KeyOf[a]
        i == Latest(EventsOf(k))
        seq == SequenceAt(i)
        stored == sidecar[k]
        reconstructed == IF Reconstructible(journal[i]) THEN journal[i].out ELSE None
    IN  /\ mode = "up" /\ pc[a] = "lookup" /\ EndsTerminal(k)
        /\ \/ /\ stored # None /\ Matches(stored, journal[i])
              /\ NoFault
              /\ dirty' = IF dirty[k] # None /\ dirty[k].seq <= seq
                          THEN [dirty EXCEPT ![k] = None] ELSE dirty
              /\ hot' = [hot EXCEPT ![k] = stored]
              /\ Settle(a, "answered", stored)
              /\ UNCHANGED compaction
           \/ /\ \/ stored # None /\ ~Matches(stored, journal[i]) /\ NoFault
                 \/ stored = None /\ DirtyFull(k) /\ NoFault
                 \/ Fault
              /\ compaction' = Invalidated
              /\ Settle(a, "failed", None)
              /\ UNCHANGED <<dirty, hot>>
           \/ /\ stored = None /\ ~DirtyFull(k)
              /\ NoFault
              /\ compaction' = Invalidated
              /\ dirty' = [dirty EXCEPT ![k] = [seq |-> seq, out |-> reconstructed]]
              /\ IF reconstructed # None
                 THEN /\ hot' = [hot EXCEPT ![k] = reconstructed]
                      /\ Settle(a, "answered", reconstructed)
                 ELSE /\ Settle(a, "failed", None)
                      /\ UNCHANGED hot
        /\ UNCHANGED <<files, mode, dropped, baseline, blocked, recovered, effects, orphaned, crashes>>

\* ... and when it has none: the sidecar answers, the read fails, or the command
\* is fresh.
LookupSidecar(a) ==
    LET k == KeyOf[a]
    IN  /\ mode = "up" /\ pc[a] = "lookup" /\ ~EndsTerminal(k)
        /\ \/ /\ sidecar[k] # None
              /\ NoFault
              /\ hot' = [hot EXCEPT ![k] = sidecar[k]]
              /\ Settle(a, "answered", sidecar[k])
           \/ /\ Fault
              /\ Settle(a, "failed", None)
              /\ UNCHANGED hot
           \/ /\ sidecar[k] = None
              /\ NoFault
              /\ pc' = [pc EXCEPT ![a] = "ready"]
              /\ UNCHANGED <<pending, hot, answers>>
        /\ UNCHANGED <<files, mode, dropped, baseline, dirty, compaction, blocked, recovered,
                       effects, orphaned, crashes>>

-----------------------------------------------------------------------------
(* Fresh execution: gates, request, effect, terminal event, sidecar. *)

\* ensureDurabilityReadyForFreshExecution: a blocked runtime must first complete
\* a compaction, its own or the running one.
PassDurabilityGate(a) ==
    /\ mode = "up"
    /\ \/ /\ pc[a] = "ready" /\ ~blocked
          /\ pc' = [pc EXCEPT ![a] = "reserve"]
          /\ UNCHANGED <<pending, answers, compaction, blocked>>
       \/ /\ pc[a] = "ready" /\ blocked
          /\ pc' = [pc EXCEPT ![a] = "await"]
          /\ BeginCompaction
          /\ UNCHANGED <<pending, answers>>
       \/ /\ pc[a] = "await" /\ compaction.step = "idle"
          /\ IF blocked
             THEN Settle(a, "failed", None)
             ELSE /\ pc' = [pc EXCEPT ![a] = "reserve"]
                  /\ UNCHANGED <<pending, answers>>
          /\ UNCHANGED <<compaction, blocked>>
    /\ UNCHANGED <<files, mode, dropped, baseline, hot, dirty, recovered, effects, orphaned, bounds>>

\* Mutant: the budget counts the dirty outcomes alone.
HasRoomForDirty(d) == Cardinality({k \in Key : d[k] # None}) < Budget

HasRoom(d) == Cardinality({k \in Key : d[k] # None}) + Cardinality(Active) < Budget

\* flushDirtyTerminalOutcomesBeforeFreshReservation, tryReserveFreshExecution.
Reserve(a) ==
    /\ mode = "up" /\ pc[a] = "reserve"
    /\ IF HasRoom(dirty) THEN UNCHANGED <<sidecar, dirty, faults>> ELSE Flush(DirtyKeys)
    /\ IF HasRoom(dirty')
       THEN /\ pc' = [pc EXCEPT ![a] = "request"]
            /\ UNCHANGED <<pending, answers>>
       ELSE Settle(a, "failed", None)
    /\ UNCHANGED <<journal, cut, dropped, baseline, torn, snapshot, mode, hot, compaction, blocked,
                   recovered, effects, orphaned, crashes>>

AppendRequest(a) ==
    /\ mode = "up" /\ pc[a] = "request"
    /\ \/ /\ AppendSucceeds(Requested(a))
          /\ pc' = [pc EXCEPT ![a] = "effect"]
          /\ UNCHANGED <<pending, answers>>
       \/ /\ AppendFails(Requested(a))
          /\ Settle(a, "failed", None)
    /\ UNCHANGED <<dropped, baseline, cut, snapshot, sidecar, mode, hot, dirty, compaction, blocked,
                   recovered, effects, orphaned, crashes>>

PerformEffect(a) ==
    /\ mode = "up" /\ pc[a] = "effect"
    /\ pc' = [pc EXCEPT ![a] = "terminal"]
    /\ effects' = [effects EXCEPT ![KeyOf[a]] = @ + 1]
    /\ UNCHANGED <<files, mode, dropped, baseline, pending, hot, dirty, compaction, blocked, recovered,
                   orphaned, answers, bounds>>

\* appendTerminal up to the sidecar.  When the append fails the caller gets the
\* error, and nothing but the open command.requested event is left of the effect.
AppendTerminal(a) ==
    LET k == KeyOf[a]
    IN  /\ mode = "up" /\ pc[a] = "terminal"
        /\ \/ /\ AppendSucceeds(Terminal(a, a))
              /\ hot' = [hot EXCEPT ![k] = a]
              /\ compaction' = Invalidated
              /\ IF DirtyFull(k)
                 THEN /\ Settle(a, "failed", None)
                      /\ UNCHANGED dirty
                 ELSE /\ dirty' = [dirty EXCEPT ![k] = [seq |-> LastSequence + 1, out |-> a]]
                      /\ pc' = [pc EXCEPT ![a] = "persist"]
                      /\ UNCHANGED <<pending, answers>>
              /\ UNCHANGED orphaned
           \/ /\ AppendFails(Terminal(a, a))
              /\ orphaned' = orphaned \cup {k}
              /\ Settle(a, "failed", None)
              /\ UNCHANGED <<hot, dirty, compaction>>
        /\ UNCHANGED <<dropped, baseline, cut, snapshot, sidecar, mode, blocked, recovered,
                       effects, crashes>>

\* persistTerminalOutcomeOrLeaveDirty and maybeCompact; the answer does not
\* depend on the sidecar.
PersistOutcome(a) ==
    LET k == KeyOf[a]
    IN  /\ mode = "up" /\ pc[a] = "persist"
        /\ \/ /\ NoFault
              /\ sidecar' = [sidecar EXCEPT ![k] = a]
              /\ dirty' = [dirty EXCEPT ![k] = None]
           \/ /\ Fault
              /\ sidecar' \in {sidecar, [sidecar EXCEPT ![k] = a]}
              /\ UNCHANGED dirty
        /\ IF Len(journal) > Trigger
           THEN BeginCompaction ELSE UNCHANGED <<compaction, blocked>>
        /\ Settle(a, "answered", a)
        /\ UNCHANGED <<journal, cut, dropped, baseline, torn, snapshot, mode, hot, recovered,
                       effects, orphaned, crashes>>

\* The hot cache holds MAX_COMMAND_RECORDS keys; traffic on other keys, which is
\* not modelled, pushes any entry out.
Evict(k) ==
    /\ mode = "up" /\ hot[k] # None
    /\ hot' = [hot EXCEPT ![k] = None]
    /\ UNCHANGED <<files, mode, dropped, baseline, pc, pending, dirty, compaction, blocked, recovered,
                   history, bounds>>

-----------------------------------------------------------------------------
(* performCompaction *)

\* Mutant: the promise of a finished compaction is never cleared.
EndCompactionKept(isBlocked) ==
    /\ compaction' = [NoCompaction EXCEPT !.step = "ended"]
    /\ blocked' = isBlocked

EndCompaction(isBlocked) ==
    /\ compaction' = NoCompaction
    /\ blocked' = isBlocked

Advance(step, expected) == compaction' = [compaction EXCEPT !.step = step, !.expected = expected]

\* Repair what is dirty, then note what each key's sidecar has to hold.
CompactFlush ==
    LET covered == {k \in Key : /\ TerminalsOf(k) # {}
                                /\ SequenceAt(Latest(TerminalsOf(k))) <= compaction.covered}
    IN  /\ mode \in {"publish", "up"} /\ compaction.step = "flush"
        /\ Flush({k \in DirtyKeys : dirty[k].seq <= compaction.covered})
        /\ IF Aborts(dirty')
           THEN EndCompaction(TRUE)
           ELSE /\ Advance("snapshot", [k \in Key |-> IF k \in covered
                                          THEN journal[Latest(TerminalsOf(k))].out ELSE None])
                /\ UNCHANGED blocked
        /\ UNCHANGED <<journal, cut, dropped, baseline, torn, snapshot, mode, pc, pending, hot, recovered,
                       history, crashes>>

\* Mutant: the snapshot keeps the previous open transactions and adds none.
OpenBelowPrevious(covered) ==
    {a \in snapshot.open :
        ~\E i \in 1..Len(journal) :
            SequenceAt(i) <= covered /\ journal[i].kind = "terminal" /\ journal[i].tx = a}

\* durableOpenTransactions over the previous snapshot and the events since.
OpenBelow(covered) ==
    LET since == {i \in 1..Len(journal) : SequenceAt(i) \in snapshot.covered + 1..covered}
    IN  {a \in snapshot.open \cup {journal[i].tx : i \in since} :
            ~\E i \in since : journal[i].kind = "terminal" /\ journal[i].tx = a}

\* verifyCoveredTerminalOutcomes, then the snapshot.
CompactSnapshot ==
    LET expected == compaction.expected
        verified == \A k \in Key : expected[k] # None => sidecar[k] \in {"compacted", expected[k]}
        next == [covered |-> compaction.covered, open |-> OpenBelow(compaction.covered)]
    IN  /\ mode \in {"publish", "up"} /\ compaction.step = "snapshot"
        /\ \/ /\ Aborts(dirty) \/ ~verified
              /\ NoFault
              /\ EndCompaction(TRUE)
              /\ UNCHANGED snapshot
           \/ /\ ~Aborts(dirty) /\ verified
              /\ NoFault
              /\ snapshot' = next
              /\ Advance("batch", [k \in Key |-> IF expected[k] = None THEN None ELSE sidecar[k]])
              /\ UNCHANGED blocked
           \/ /\ ~Aborts(dirty) /\ verified
              /\ Fault
              /\ snapshot' \in {snapshot, next}
              /\ EndCompaction(TRUE)
        /\ UNCHANGED <<journal, cut, dropped, baseline, torn, sidecar, mode, pc, pending, hot, dirty,
                       recovered, history, crashes>>

\* The check before the batch of replacements.
CompactBatch ==
    /\ mode \in {"publish", "up"} /\ compaction.step = "batch"
    /\ IF Aborts(dirty)
       THEN EndCompaction(TRUE)
       ELSE Advance("markers", compaction.expected) /\ UNCHANGED blocked
    /\ UNCHANGED <<files, mode, dropped, baseline, pc, pending, hot, dirty, recovered, history, bounds>>

\* replaceOutcomeIfMatches, one key of the batch: the batch is not interrupted, a
\* failed or refused replacement makes the attempt give up after it.
MarkCompacted(k) ==
    LET matched == sidecar[k] = compaction.expected[k]
        marked == [sidecar EXCEPT ![k] = "compacted"]
        expected == [compaction.expected EXCEPT ![k] = None]
    IN  /\ mode \in {"publish", "up"} /\ compaction.step = "markers" /\ compaction.expected[k] # None
        /\ \/ /\ matched
              /\ NoFault
              /\ sidecar' = marked
              /\ Advance("markers", expected)
           \/ /\ \/ ~matched /\ NoFault /\ UNCHANGED sidecar
                 \/ Fault /\ UNCHANGED sidecar
                 \/ matched /\ Fault /\ sidecar' = marked
              /\ compaction' = [Invalidated EXCEPT !.expected = expected]
        /\ UNCHANGED <<journal, cut, dropped, baseline, torn, snapshot, mode, pc, pending, hot, dirty,
                       blocked, recovered, history, crashes>>

\* ControlJournal.compact: the file is replaced by a rename, then memory follows;
\* a fault after the rename leaves memory, and the length it expects, behind.
CompactTruncate ==
    LET n == compaction.covered - dropped
    IN  /\ mode \in {"publish", "up"} /\ compaction.step = "markers"
        /\ \A k \in Key : compaction.expected[k] = None
        /\ \/ /\ Aborts(dirty)
              /\ NoFault
              /\ EndCompaction(TRUE)
              /\ UNCHANGED <<journal, cut, dropped, torn>>
           \/ /\ ~Aborts(dirty)
              /\ NoFault
              /\ journal' = SubSeq(journal, n + 1, Len(journal))
              /\ cut' = compaction.covered /\ dropped' = compaction.covered
              /\ torn' = None
              /\ Advance("final", compaction.expected)
              /\ UNCHANGED blocked
           \/ /\ ~Aborts(dirty)
              /\ Fault
              /\ \/ UNCHANGED <<cut, torn>>
                 \/ /\ cut' = compaction.covered
                    /\ torn' = IF torn = None THEN None ELSE Shorter
              /\ EndCompaction(TRUE)
              /\ UNCHANGED <<journal, dropped>>
        /\ UNCHANGED <<baseline, snapshot, sidecar, mode, pc, pending, hot, dirty, recovered,
                       history, crashes>>

CompactEnd ==
    /\ mode \in {"publish", "up"} /\ compaction.step = "final"
    /\ EndCompaction(Aborts(dirty))
    /\ UNCHANGED <<files, mode, dropped, baseline, pc, pending, hot, dirty, recovered, history, bounds>>

-----------------------------------------------------------------------------
(* Crash, and ControlRuntime.create. *)

ForgetMemory ==
    /\ pc' = [a \in Attempt |-> IF pc[a] \in {"idle"} \cup Answered THEN pc[a] ELSE "lost"]
    /\ pending' = [k \in Key |-> None]
    /\ hot' = [k \in Key |-> None]
    /\ dirty' = [k \in Key |-> None]
    /\ compaction' = NoCompaction
    /\ blocked' = FALSE
    /\ recovered' = <<>>

Crash ==
    /\ mode = "up" /\ crashes < MaxCrashes
    /\ crashes' = crashes + 1
    /\ mode' = "down"
    /\ ForgetMemory
    /\ UNCHANGED <<files, dropped, baseline, history, faults>>

\* The process dies, or a file operation fails, while create() runs.
CreateFails ==
    /\ mode \in {"recover", "publish"}
    /\ \/ crashes < MaxCrashes /\ crashes' = crashes + 1 /\ NoFault
       \/ Fault /\ UNCHANGED crashes
    /\ mode' = "down"
    /\ ForgetMemory
    /\ UNCHANGED <<files, dropped, baseline, history>>

\* ControlJournal.open: a whole line that no rollback removed is an event again.
Open ==
    LET kept == SubSeq(journal, cut - dropped + 1, Len(journal))
    IN  /\ mode \in {"down", "broken"}
        /\ mode' = "recover"
        /\ journal' = IF torn \in {None, Shorter} THEN kept ELSE Append(kept, torn)
        /\ dropped' = cut
        /\ baseline' = snapshot.covered
        /\ torn' = None
        /\ UNCHANGED <<cut, snapshot, sidecar, pc, pending, hot, dirty, compaction, blocked,
                       recovered, history, bounds>>

\* Mutants: recovery reads the journal alone; it trusts the snapshot's transactions.
OpenInJournal == {a \in {journal[i].tx : i \in 1..Len(journal)} : ~HasTerminal(a)}
OpenUnchecked ==
    (snapshot.open \ {recovered[n].tx : n \in 1..Len(recovered)}) \cup OpenInJournal

OpenTransactions ==
    {a \in snapshot.open \cup {journal[i].tx : i \in 1..Len(journal)} : ~HasTerminal(a)}

\* recoverNonterminalCommands; a failing append makes create() fail.
RecoverOne(a) ==
    /\ mode = "recover" /\ a \in OpenTransactions
    /\ \/ /\ AppendSucceeds(Terminal(a, "unknown"))
          /\ recovered' = Append(recovered, [seq |-> LastSequence + 1, tx |-> a])
          /\ UNCHANGED mode
       \/ /\ AppendFails(Terminal(a, "unknown"))
          /\ mode' = "down"
          /\ recovered' = <<>>
    /\ UNCHANGED <<dropped, baseline, cut, snapshot, sidecar, pc, pending, hot, dirty, compaction, blocked,
                   history, crashes>>

RecoveryDone ==
    /\ mode = "recover" /\ OpenTransactions = {}
    /\ mode' = "publish"
    /\ UNCHANGED <<files, memory, history, bounds>>

\* persistRecoveredTerminalOutcomes, oldest first; it may start a compaction.
PublishRecovered ==
    LET event == Head(recovered)
        k == KeyOf[event.tx]
        published == [sidecar EXCEPT ![k] = "unknown"]
    IN  /\ mode = "publish" /\ recovered # <<>>
        /\ \/ /\ DirtyFull(k)
              /\ NoFault
              /\ mode' = "down"
              /\ ForgetMemory
              /\ UNCHANGED sidecar
           \/ /\ ~DirtyFull(k)
              /\ \/ /\ NoFault
                    /\ sidecar' = published
                    /\ dirty' = [dirty EXCEPT ![k] = None]
                 \/ /\ Fault
                    /\ sidecar' \in {sidecar, published}
                    /\ dirty' = [dirty EXCEPT ![k] = [seq |-> event.seq, out |-> "unknown"]]
              /\ recovered' = Tail(recovered)
              /\ hot' = [hot EXCEPT ![k] = "unknown"]
              /\ MaybeCompact
              /\ UNCHANGED <<mode, pc, pending>>
        /\ UNCHANGED <<journal, cut, dropped, baseline, torn, snapshot, history, crashes>>

\* restoreRetainedOutcomes over the events the snapshot did not cover when the
\* process started: a terminal event that neither its sidecar nor the event itself
\* can replay keeps the host down.
Restore ==
    LET tail(k) == {i \in TerminalsOf(k) : SequenceAt(i) > baseline}
        keys == {k \in Key : tail(k) # {}}
        event(k) == journal[Latest(tail(k))]
        missing == {k \in keys : sidecar[k] = None}
        restored == [k \in Key |->
                       IF k \in missing
                       THEN [seq |-> SequenceAt(Latest(tail(k))), out |-> event(k).out]
                       ELSE IF k \in keys THEN None ELSE dirty[k]]
        sound == /\ \A k \in missing : Reconstructible(event(k))
                 /\ \A k \in keys \ missing : Matches(sidecar[k], event(k))
                 /\ Cardinality({k \in Key : restored[k] # None}) <= Budget
    IN  /\ mode = "publish" /\ recovered = <<>>
        /\ \/ /\ ~sound
              /\ NoFault
              /\ mode' = "broken"
              /\ ForgetMemory
              /\ UNCHANGED sidecar
           \/ /\ sound
              /\ mode' = "up"
              /\ hot' = [k \in Key |-> IF k \in missing THEN event(k).out
                                       ELSE IF k \in keys THEN sidecar[k] ELSE hot[k]]
              /\ compaction' = IF missing = {} THEN compaction ELSE Invalidated
              /\ FlushFrom(restored, {k \in Key : restored[k] # None})
              /\ UNCHANGED <<pc, pending, blocked, recovered>>
        /\ UNCHANGED <<journal, cut, dropped, baseline, torn, snapshot, history, crashes>>

-----------------------------------------------------------------------------

\* The steps of the owner process that its event loop takes by itself.
Step(a) ==
    \/ LookupRetained(a) \/ LookupSidecar(a) \/ PassDurabilityGate(a) \/ Reserve(a)
    \/ AppendRequest(a) \/ PerformEffect(a) \/ AppendTerminal(a) \/ PersistOutcome(a)

Compact ==
    \/ CompactFlush \/ CompactSnapshot \/ CompactBatch \/ CompactTruncate \/ CompactEnd
    \/ \E k \in Key : MarkCompacted(k)

Create ==
    \/ RecoveryDone \/ PublishRecovered \/ Restore
    \/ \E a \in Attempt : RecoverOne(a)

Next ==
    \/ \E a \in Attempt : Submit(a) \/ Step(a)
    \/ \E k \in Key : Evict(k)
    \/ Compact
    \/ Crash \/ Open \/ Create \/ CreateFails

Spec == Init /\ [][Next]_vars

-----------------------------------------------------------------------------
(* Properties. *)

\* A retried key does not run its effect again, across evictions, compactions and
\* restarts, unless the journal refused the terminal event of an earlier run
\* (ControlRuntime.submit; docs/CONTROL-PLANE.md, "a retried command never
\* double-executes").
AtMostOnce == \A k \in Key : effects[k] > 1 => k \in orphaned

\* The documented claim without the exception.
NeverTwice == \A k \in Key : effects[k] <= 1

\* What the files alone say of a key: an event, an open transaction, an outcome.
Evidence(k) ==
    \/ \E i \in EventsOf(k) : SequenceAt(i) > cut
    \/ \E a \in snapshot.open : KeyOf[a] = k
    \/ sidecar[k] # None

\* Crash at any step, compactions and failed writes included: the files still show
\* that an effect was performed (ordering of snapshot, markers and truncation in
\* performCompaction; recoverNonterminalCommands reads what it leaves).
CrashSafe == \A k \in Key : effects[k] > 0 => Evidence(k)

\* Every caller of a key is told the same outcome, before and after eviction and
\* restart, or that the outcome has been compacted: hot cache, dirty map, retained
\* event and sidecar never contradict each other.
AnswersAgree ==
    \A k \in Key \ orphaned : Cardinality(answers[k] \ {"compacted"}) <= 1

\* A transaction is terminalized once: recovery, which looks at the snapshot's open
\* transactions and at the journal, never adds a second terminal event to one.
TerminalOnce ==
    \A i, j \in 1..Len(journal) :
        /\ journal[i].kind = "terminal" /\ journal[j].kind = "terminal"
        /\ journal[i].tx = journal[j].tx
        => i = j

Contract == INSTANCE CommandContract WITH excused <- orphaned

\* The runtime with its journal, sidecars, compactions and restarts keeps the contract
\* of CommandContract: in particular a key that was answered, with "unknown" after a
\* crash or with "compacted", never runs its effect later.
KeepsContract == Contract!Spec

\* docs/CONTROL-PLANE.md: non-surface tail events can be reconstructed while they
\* remain retained.  So commands of other kinds alone never keep a host down.
NonSurfaceStarts == SurfaceKey = {} => mode # "broken"

=============================================================================
