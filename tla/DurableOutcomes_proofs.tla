------------------------ MODULE DurableOutcomes_proofs ------------------------
(***************************************************************************)
(* Theorems about DurableOutcomes, for any keys, calls and limits: its type*)
(* invariant, that the files never forget an effect, that no effect runs   *)
(* twice unless the journal refused its terminal event, that a transaction *)
(* is terminalized once, that all answers of a key agree, and that the     *)
(* runtime implements CommandContract.                                     *)
(*                                                                         *)
(* The log is seen as a map from sequence numbers to events: truncation and*)
(* reopening take numbers away, and move none.  The inductive invariant    *)
(* says where the file, the snapshot and a compaction stand in it          *)
(* (Positions), that nothing of a transaction follows its terminal event   *)
(* (Ordered), what a call has left at each stage (Progress), that whatever *)
(* is known of a key shows beyond the snapshot, in it, or in a sidecar     *)
(* (Shown), that a transaction without a terminal event is being executed, *)
(* unless recovery is still to come (Closed), and that all that is known   *)
(* of a key is one outcome of one transaction (Agreed).                    *)
(*                                                                         *)
(* CallersServed: the promise of an open call is of an execution under way *)
(* (CallerInv), and each call has few steps (FewSteps).                    *)
(***************************************************************************)
EXTENDS DurableOutcomes, TLAPS, WellFoundedInduction, FiniteSetTheorems

USE KeysAssumption, LimitsAssumption

-----------------------------------------------------------------------------
(* The invariant. *)

Exact == Attempt \cup {"unknown"}

\* A terminal event has an exact outcome.
Written == {e \in Event : e.kind = "terminal" => e.out \in Exact}

Typed == TypeOK /\ journal \in Seq(Written) /\ torn \in Written \cup {None, Shorter}

\* The retained sequence numbers and their events.
Span == dropped + 1..LastSequence
At(q) == journal[q - dropped]

IsTerminal(e) == e.kind = "terminal"
Logged(a) == \E q \in Span : At(q).tx = a
Ended(a) == \E q \in Span : IsTerminal(At(q)) /\ At(q).tx = a
Torn == torn \notin {None, Shorter}
TornOf(a) == Torn /\ torn.tx = a

Compacting == {"batch", "markers", "final"}

Positions ==
    /\ dropped <= cut
    /\ cut = 0 \/ cut + Retain <= LastSequence
    /\ cut <= snapshot.covered /\ snapshot.covered <= LastSequence
    /\ compaction.step # "idle" =>
         /\ cut <= compaction.covered /\ dropped <= compaction.covered
         /\ compaction.covered + Retain <= LastSequence
    /\ compaction.step \in Compacting => snapshot.covered = compaction.covered

Ordered ==
    /\ \A q \in Span : \A r \in Span : q < r /\ IsTerminal(At(q)) => At(q).tx # At(r).tx
    /\ Torn => ~Ended(torn.tx)
    /\ \A q \in Span : IsTerminal(At(q)) /\ At(q).tx \in snapshot.open => q > snapshot.covered

Early == {"idle", "joined", "lookup", "ready", "await", "reserve", "request"}
Begun == {"effect", "terminal"}
Owning == {"lookup", "ready", "await"} \cup Executing

Progress ==
    \A a \in Attempt :
        /\ pc[a] \in Early => a \notin snapshot.open /\ ~Logged(a)
        /\ pc[a] \in Begun => ~Ended(a)
        /\ pc[a] \in Early \cup Begun => ~TornOf(a)
        /\ mode # "up" => pc[a] \in {"idle"} \cup Answered
        /\ pc[a] \in Owning => pending[KeyOf[a]] = a

\* Something is known of a key, in memory or in the log.
Seen(k) ==
    \/ effects[k] > 0 \/ answers[k] # {} \/ hot[k] # None \/ dirty[k] # None
    \/ \E q \in Span : KeyOf[At(q).tx] = k
    \/ \E n \in 1..Len(recovered) : KeyOf[recovered[n].tx] = k
    \/ \E a \in Attempt : KeyOf[a] = k /\ pc[a] = "effect"

\* The files alone show it, without the events the snapshot covers.
Strong(k) ==
    \/ \E q \in Span : q > snapshot.covered /\ KeyOf[At(q).tx] = k
    \/ \E a \in snapshot.open : KeyOf[a] = k
    \/ sidecar[k] # None

\* A compaction about to write the snapshot expects a sidecar for each key whose
\* last terminal event it is going to drop.
Demands(k) ==
    \A q \in Span : IsTerminal(At(q)) /\ KeyOf[At(q).tx] = k /\ q <= compaction.covered =>
        \/ compaction.expected[k] # None
        \/ \E r \in Span : IsTerminal(At(r)) /\ KeyOf[At(r).tx] = k /\ r > compaction.covered

Shown ==
    /\ \A k \in Key : Seen(k) => Strong(k)
    /\ compaction.step = "snapshot" => \A k \in Key : Demands(k)

Underway(a) == Ended(a) \/ pc[a] \in Begun \/ KeyOf[a] \in orphaned

Serving == {"publish", "up"}

Closed ==
    mode \in Serving => \A a \in Attempt : Logged(a) \/ a \in snapshot.open => Underway(a)

\* Outcome o of key k is held somewhere, or was told to a caller.
Known(k, o) ==
    \/ o = hot[k] \/ o = sidecar[k] \/ o \in answers[k]
    \/ dirty[k] # None /\ dirty[k].out = o
    \/ \E q \in Span : IsTerminal(At(q)) /\ KeyOf[At(q).tx] = k /\ At(q).out = o
    \/ Torn /\ IsTerminal(torn) /\ KeyOf[torn.tx] = k /\ torn.out = o
    \/ o = "unknown" /\ \E n \in 1..Len(recovered) : KeyOf[recovered[n].tx] = k

Trace(a) == a \in snapshot.open \/ TornOf(a) \/ Logged(a)

Fresh == {"ready", "await", "reserve", "request", "effect"}

\* An attempt's outcome belongs to its key, and comes after its effect.
Earned(k) == \A o \in Attempt : Known(k, o) => KeyOf[o] = k /\ effects[k] > 0

OneOutcome(k) == \A o \in Exact : \A p \in Exact : Known(k, o) /\ Known(k, p) => o = p

OneTransaction(k) ==
    \A a \in Attempt : \A b \in Attempt :
        KeyOf[a] = k /\ KeyOf[b] = k /\ Trace(a) /\ Trace(b) => a = b

\* An open transaction can only be found to be unknown.
OpenUnknown(k) ==
    \A a \in Attempt : KeyOf[a] = k /\ Trace(a) /\ ~Ended(a) =>
        \A o \in Attempt : ~Known(k, o) /\ (KeyOf[o] = k => pc[o] # "persist")

\* Nothing is known before an execution has ended, nothing else when it has.
Unheard(k) ==
    \A a \in Attempt : KeyOf[a] = k =>
        /\ pc[a] \in Fresh => effects[k] = 0
        /\ pc[a] \in Fresh \cup {"terminal"} => \A o \in Outcome : ~Known(k, o)
        /\ pc[a] = "persist" => \A o \in Exact : Known(k, o) => o = a

Agreed ==
    /\ \A k \in Key : Earned(k)
    /\ \A k \in Key \ orphaned :
         OneOutcome(k) /\ OneTransaction(k) /\ OpenUnknown(k) /\ Unheard(k)
    /\ \A a \in Attempt : pc[a] \in {"terminal", "persist"} => effects[KeyOf[a]] > 0
    /\ Torn /\ IsTerminal(torn) /\ mode \notin {"down", "broken"} => KeyOf[torn.tx] \in orphaned
    /\ AtMostOnce

IInv == Typed /\ Positions /\ Ordered /\ Progress /\ Shown /\ Closed /\ Agreed

-----------------------------------------------------------------------------
(* The log. *)

\* A set of journal positions has a latest one.
LEMMA LatestFact ==
    ASSUME NEW n \in Nat, NEW I \in SUBSET (1..n), I # {}
    PROVE  Latest(I) \in I /\ \A j \in I : j <= Latest(I)
<1> DEFINE T == {n - i : i \in I}
<1>1. T \subseteq Nat /\ T # {}
  <2>1. \A i \in I : i \in 1..n
    OBVIOUS
  <2>2. \A i \in 1..n : n - i \in Nat
    OBVIOUS
  <2>3. \A i \in I : n - i \in Nat
    BY <2>1, <2>2
  <2>4. PICK i \in I : TRUE
    OBVIOUS
  <2>5. n - i \in T
    BY <2>4
  <2> QED
    BY <2>3, <2>5
<1>2. PICK x \in T : \A y \in T : ~(<<y, x>> \in OpToRel(<, Nat))
  <2> HIDE DEF T
  <2> QED
    BY <1>1, NatLessThanWellFounded, WFMin
<1>3. \A y \in T : ~(y < x)
  BY <1>1, <1>2 DEF OpToRel
<1>4. PICK i \in I : x = n - i
  OBVIOUS
<1>5. \A j \in I : j <= i
  <2> TAKE j \in I
  <2>1. n - j \in T
    OBVIOUS
  <2>2. ~(n - j < n - i)
    BY <2>1, <1>3, <1>4
  <2> QED
    BY <2>2
<1> QED
  BY <1>5 DEF Latest

\* Appending leaves the earlier elements and adds one.
LEMMA AppendLemma ==
    ASSUME NEW S, NEW s \in Seq(S), NEW e \in S
    PROVE  /\ Append(s, e) \in Seq(S) /\ Len(Append(s, e)) = Len(s) + 1
           /\ \A i \in 1..Len(s) : Append(s, e)[i] = s[i]
           /\ Append(s, e)[Len(s) + 1] = e
OBVIOUS

\* Dropping a prefix of a sequence shifts its elements.
LEMMA SuffixLemma ==
    ASSUME NEW S, NEW s \in Seq(S), NEW d \in 0..Len(s)
    PROVE  /\ SubSeq(s, d + 1, Len(s)) \in Seq(S) /\ Len(SubSeq(s, d + 1, Len(s))) = Len(s) - d
           /\ \A i \in 1..Len(s) - d : SubSeq(s, d + 1, Len(s))[i] = s[i + d]
OBVIOUS

\* The bookkeeping of the journal consists of natural numbers.
LEMMA NumberFacts ==
    ASSUME Typed
    PROVE  /\ journal \in Seq(Written) /\ Len(journal) \in Nat /\ cut \in Nat /\ dropped \in Nat
           /\ dropped <= cut /\ snapshot.covered \in Nat /\ snapshot.open \subseteq Attempt
           /\ \A i \in 1..Len(journal) : journal[i].tx \in Attempt
<1>1. /\ journal \in Seq(Written) /\ cut \in Nat /\ dropped \in 0..cut
      /\ snapshot \in [covered : Nat, open : SUBSET Attempt]
  BY DEF Typed, TypeOK
<1>2. \A e \in Written : e.tx \in Attempt
  BY DEF Written, Event
<1>3. Len(journal) \in Nat /\ \A i \in 1..Len(journal) : journal[i] \in Written
  BY <1>1
<1> QED
  BY <1>1, <1>2, <1>3

\* Journal positions and sequence numbers correspond one to one.
LEMMA LogFacts ==
    ASSUME Typed
    PROVE  /\ LastSequence \in Nat /\ dropped \in Nat /\ Span \subseteq Nat
           /\ \A q \in Span : At(q) \in Written /\ At(q).tx \in Attempt /\ KeyOf[At(q).tx] \in Key
           /\ \A i \in 1..Len(journal) : dropped + i \in Span /\ At(dropped + i) = journal[i]
           /\ \A q \in Span : q - dropped \in 1..Len(journal)
<1>0. dropped \in Nat /\ journal \in Seq(Written) /\ Len(journal) \in Nat
  BY NumberFacts
<1>1. dropped \in Nat /\ Len(journal) \in Nat /\ LastSequence \in Nat
  BY <1>0 DEF LastSequence
<1>2. \A q \in Span : q \in Nat /\ q - dropped \in 1..Len(journal)
  BY <1>0 DEF Span, LastSequence
<1>3. \A i \in 1..Len(journal) : dropped + i \in Span /\ dropped + i - dropped = i
  BY <1>1 DEF Span, LastSequence
<1>4. \A i \in 1..Len(journal) : journal[i] \in Written
  BY <1>0
<1>5. \A e \in Written : e.tx \in Attempt /\ KeyOf[e.tx] \in Key
  BY DEF Written, Event
<1>6. \A q \in Span : At(q) \in Written
  BY <1>2, <1>4 DEF At
<1>7. \A i \in 1..Len(journal) : dropped + i \in Span /\ At(dropped + i) = journal[i]
  <2> TAKE i \in 1..Len(journal)
  <2>1. dropped + i - dropped = i
    BY <1>3
  <2>2. PICK q \in Span : q = dropped + i
    BY <1>3
  <2>3. At(q) = journal[q - dropped]
    BY DEF At
  <2>4. q - dropped = i
    BY <1>0, <2>2
  <2> QED
    BY <2>2, <2>3, <2>4
<1> QED
  BY <1>1, <1>2, <1>5, <1>6, <1>7

\* The helpers of the specification, read over the log.
LEMMA ReadingFacts ==
    ASSUME Typed
    PROVE  /\ \A a \in Attempt : HasTerminal(a) <=> Ended(a)
           /\ \A a \in Attempt : a \in OpenTransactions <=> (a \in snapshot.open \/ Logged(a)) /\ ~Ended(a)
           /\ \A k \in Key : EventsOf(k) # {} <=> \E q \in Span : KeyOf[At(q).tx] = k
<1>1. \A a \in Attempt : HasTerminal(a) <=> Ended(a)
  BY LogFacts DEF HasTerminal, Ended, IsTerminal, At
<1>2. \A a \in Attempt : Logged(a) <=> \E i \in 1..Len(journal) : journal[i].tx = a
  BY LogFacts DEF Logged, At
<1>3. \A a \in Attempt : a \in OpenTransactions <=> (a \in snapshot.open \/ Logged(a)) /\ ~Ended(a)
  BY <1>1, <1>2, NumberFacts DEF OpenTransactions
<1>4. \A k \in Key : EventsOf(k) # {} <=> \E q \in Span : KeyOf[At(q).tx] = k
  BY LogFacts DEF EventsOf, At
<1> QED
  BY <1>1, <1>3, <1>4

\* The log stays.
LEMMA SameLog ==
    ASSUME UNCHANGED <<journal, dropped>>
    PROVE  /\ LastSequence' = LastSequence /\ Span' = Span /\ \A q \in Span : At(q)' = At(q)
           /\ \A a \in Attempt : (Ended(a)' <=> Ended(a)) /\ (Logged(a)' <=> Logged(a))
<1>1. LastSequence' = LastSequence
  BY DEF LastSequence
<1>2. Span' = Span
  BY <1>1 DEF Span
<1>3. \A q \in Span : At(q)' = At(q)
  BY DEF At
<1> QED
  BY <1>1, <1>2, <1>3 DEF Ended, Logged

\* An append adds the next sequence number.
LEMMA Grows ==
    ASSUME Typed, NEW e \in Written, NEW n, n = LastSequence + 1,
           journal' = Append(journal, e), dropped' = dropped
    PROVE  /\ journal' \in Seq(Written)
           /\ LastSequence' = n /\ Span' = Span \cup {n}
           /\ \A q \in Span : q < n /\ At(q)' = At(q)
           /\ At(n)' = e
           /\ \A a \in Attempt : /\ Logged(a)' <=> Logged(a) \/ e.tx = a
                                 /\ Ended(a)' <=> Ended(a) \/ (IsTerminal(e) /\ e.tx = a)
<1>1. /\ journal' \in Seq(Written) /\ Len(journal') = Len(journal) + 1
      /\ \A i \in 1..Len(journal) : journal'[i] = journal[i]
      /\ journal'[Len(journal) + 1] = e
  BY AppendLemma DEF Typed
<1>2. dropped \in Nat /\ Len(journal) \in Nat
  BY DEF Typed, TypeOK
<1>3. LastSequence' = n
  BY <1>1, <1>2 DEF LastSequence
<1>4. Span' = Span \cup {n}
  BY <1>2, <1>3 DEF Span, LastSequence
<1>5. \A q \in Span : q < n /\ q - dropped \in 1..Len(journal)
  BY <1>2, <1>3 DEF Span, LastSequence
<1>6. \A q \in Span : At(q)' = At(q)
  BY <1>1, <1>5 DEF At
<1>7. n - dropped = Len(journal) + 1
  BY <1>2, <1>3 DEF LastSequence
<1>8. At(n)' = e
  BY <1>1, <1>7 DEF At
<1>9. \A a \in Attempt : Logged(a)' <=> Logged(a) \/ e.tx = a
  BY <1>4, <1>6, <1>8 DEF Logged
<1>10. \A a \in Attempt : Ended(a)' <=> Ended(a) \/ (IsTerminal(e) /\ e.tx = a)
  BY <1>4, <1>6, <1>8 DEF Ended, IsTerminal
<1> QED
  BY <1>1, <1>3, <1>4, <1>5, <1>6, <1>8, <1>9, <1>10

\* Truncation and reopening take a prefix of the numbers away.
LEMMA Drops ==
    ASSUME Typed, NEW d \in dropped..LastSequence, dropped' = d,
           journal' = SubSeq(journal, d - dropped + 1, Len(journal))
    PROVE  /\ journal' \in Seq(Written)
           /\ LastSequence' = LastSequence /\ Span' = {q \in Span : q > d}
           /\ \A q \in Span' : At(q)' = At(q)
<1>0. dropped \in Nat /\ Len(journal) \in Nat
  BY NumberFacts
<1>1. dropped \in Nat /\ Len(journal) \in Nat /\ d \in Nat /\ d <= dropped + Len(journal)
  BY <1>0 DEF LastSequence
<1>2. PICK m \in 0..Len(journal) : m = d - dropped
  BY <1>1
<1>3. /\ journal' \in Seq(Written) /\ Len(journal') = Len(journal) - m
      /\ \A i \in 1..Len(journal) - m : journal'[i] = journal[i + m]
  BY <1>2, SuffixLemma DEF Typed
<1>4. LastSequence' = LastSequence
  BY <1>1, <1>2, <1>3 DEF LastSequence
<1>5. Span' = {q \in Span : q > d}
  BY <1>1, <1>4 DEF Span, LastSequence
<1>6. \A q \in Span' : At(q)' = At(q)
  <2> TAKE q \in Span'
  <2>1. q \in Nat /\ q - d \in 1..Len(journal) - m /\ (q - d) + m = q - dropped
    BY <1>1, <1>2, <1>5 DEF Span, LastSequence
  <2> QED
    BY <1>3, <2>1 DEF At
<1> QED
  BY <1>3, <1>4, <1>5, <1>6

\* Reopening over a whole line that no rollback removed.
LEMMA DropsAndGrows ==
    ASSUME Typed, cut \in dropped..LastSequence, torn \in Written, NEW n, n = LastSequence + 1,
           dropped' = cut, journal' = Append(SubSeq(journal, cut - dropped + 1, Len(journal)), torn)
    PROVE  /\ journal' \in Seq(Written)
           /\ LastSequence' = n
           /\ Span' = {q \in Span : q > cut} \cup {n}
           /\ \A q \in Span : q < n /\ (q > cut => At(q)' = At(q))
           /\ At(n)' = torn
<1> PICK d \in dropped..LastSequence : d = cut
  OBVIOUS
<1> PICK e \in Written : e = torn
  OBVIOUS
<1>1. dropped \in Nat /\ Len(journal) \in Nat /\ d \in Nat /\ dropped <= d /\ d <= dropped + Len(journal)
  <2>1. dropped \in Nat /\ Len(journal) \in Nat
    BY DEF Typed, TypeOK
  <2> QED
    BY <2>1 DEF LastSequence
<1>2. PICK m \in 0..Len(journal) : m = d - dropped
  BY <1>1
<1>3. PICK kept : kept = SubSeq(journal, m + 1, Len(journal))
  OBVIOUS
<1>4. /\ kept \in Seq(Written) /\ Len(kept) = Len(journal) - m
      /\ \A i \in 1..Len(journal) - m : kept[i] = journal[i + m]
  BY <1>2, <1>3, SuffixLemma DEF Typed
<1>5. journal' = Append(kept, e)
  BY <1>2, <1>3
<1>6. /\ journal' \in Seq(Written) /\ Len(journal') = Len(kept) + 1
      /\ \A i \in 1..Len(kept) : journal'[i] = kept[i]
      /\ journal'[Len(kept) + 1] = e
  <2>1. /\ Append(kept, e) \in Seq(Written) /\ Len(Append(kept, e)) = Len(kept) + 1
        /\ \A i \in 1..Len(kept) : Append(kept, e)[i] = kept[i]
        /\ Append(kept, e)[Len(kept) + 1] = e
    BY <1>4, AppendLemma
  <2> QED
    BY <1>5, <2>1
<1>7. LastSequence' = n
  <2>1. Len(journal') = Len(journal) - m + 1 /\ dropped' = d
    BY <1>4, <1>6
  <2>2. d + (Len(journal) - m + 1) = dropped + Len(journal) + 1
    BY <1>1, <1>2
  <2> QED
    BY <2>1, <2>2 DEF LastSequence
<1>8. Span' = {q \in Span : q > d} \cup {n}
  BY <1>1, <1>7 DEF Span, LastSequence
<1>9. \A q \in Span : q < n /\ (q > d => At(q)' = At(q))
  <2> TAKE q \in Span
  <2>1. q \in Nat /\ q < n /\ (q - d) + m = q - dropped
    BY <1>1, <1>2, <1>7 DEF Span, LastSequence
  <2>2. q > d => q - d \in 1..Len(kept)
    BY <1>1, <1>2, <1>4, <2>1 DEF Span, LastSequence
  <2>3. CASE q > d
    <3>1. journal'[q - d] = journal[q - dropped]
      BY <1>4, <1>6, <2>1, <2>2, <2>3
    <3> QED
      BY <3>1, <2>1 DEF At
  <2> QED
    BY <2>1, <2>3, <1>1
<1>10. n - d = Len(kept) + 1
  BY <1>1, <1>2, <1>4 DEF LastSequence
<1>11. At(n)' = e
  BY <1>6, <1>10 DEF At
<1> QED
  BY <1>6, <1>7, <1>8, <1>9, <1>11

-----------------------------------------------------------------------------
(* What the helpers of the actions do. *)

DirtyEntry == [seq : Nat, out : Outcome \cup {None}]
Compaction == [step : {"idle", "flush", "snapshot", "batch", "markers", "final"},
               covered : Nat, expected : [Key -> Outcome \cup {None}],
               guard : {"valid", "invalidated"}]
Progresses == {"idle", "joined", "lookup", "ready", "await"} \cup Executing \cup Answered

\* A step takes at most one write fault from the budget.
LEMMA FaultType == Typed /\ (Fault \/ NoFault) => faults' \in 0..MaxFaults
BY DEF Typed, TypeOK, Fault, NoFault

\* Settling moves the caller and its joined retries, and answers them alike.
LEMMA SettleFacts ==
    ASSUME Typed, NEW a \in Attempt, NEW result \in {"answered", "failed"}, NEW o,
           result = "answered" => o \in Outcome, Settle(a, result, o)
    PROVE  /\ pc' \in [Attempt -> Progresses] /\ pending' \in [Key -> Attempt \cup {None}]
           /\ answers' \in [Key -> SUBSET Outcome]
           /\ pc'[a] = result
           /\ \A b \in Attempt : pc'[b] = pc[b] \/ b = a
                                \/ (pc[b] = "joined" /\ KeyOf[b] = KeyOf[a] /\ pc'[b] = result)
           /\ \A k \in Key \ {KeyOf[a]} : pending'[k] = pending[k] /\ answers'[k] = answers[k]
           /\ answers' = IF result = "answered"
                         THEN [answers EXCEPT ![KeyOf[a]] = @ \cup {o}] ELSE answers
<1>1. KeyOf[a] \in Key
  OBVIOUS
<1>2. pc \in [Attempt -> Progresses] /\ pending \in [Key -> Attempt \cup {None}]
      /\ answers \in [Key -> SUBSET Outcome]
  BY DEF Typed, TypeOK, Progresses
<1>3. /\ pc' \in [Attempt -> Progresses] /\ pc'[a] = result
      /\ \A b \in Attempt : pc'[b] = pc[b] \/ b = a
                           \/ (pc[b] = "joined" /\ KeyOf[b] = KeyOf[a] /\ pc'[b] = result)
  BY <1>2 DEF Settle, Progresses, Answered
<1>4. pending' \in [Key -> Attempt \cup {None}] /\ \A k \in Key \ {KeyOf[a]} : pending'[k] = pending[k]
  BY <1>1, <1>2 DEF Settle
<1>5. CASE result = "answered"
  BY <1>1, <1>2, <1>3, <1>4, <1>5 DEF Settle
<1>6. CASE result # "answered"
  BY <1>1, <1>2, <1>3, <1>4, <1>6 DEF Settle
<1> QED
  BY <1>5, <1>6

SidecarKept == \A k \in Key : sidecar[k] # None => sidecar'[k] # None

\* flushDirtyOutcomes: a sidecar is only replaced by the dirty outcome of its key.
LEMMA FlushFacts ==
    ASSUME Typed, NEW d \in [Key -> DirtyEntry \cup {None}],
           NEW keys \in SUBSET {k \in Key : d[k] # None}, FlushFrom(d, keys)
    PROVE  /\ sidecar' \in [Key -> Outcome \cup {None}] /\ dirty' \in [Key -> DirtyEntry \cup {None}]
           /\ faults' \in 0..MaxFaults /\ SidecarKept
           /\ \A k \in Key : dirty'[k] = None \/ dirty'[k] = d[k]
           /\ \A k \in Key : sidecar'[k] = sidecar[k]
                            \/ (d[k] # None /\ d[k].out # None /\ sidecar'[k] = d[k].out)
<1> DEFINE ready == {k \in keys : d[k].out # None}
           put(done) == [k \in Key |-> IF k \in done THEN d[k].out ELSE sidecar[k]]
           clear(done) == [k \in Key |-> IF k \in done THEN None ELSE d[k]]
<1>1. \A k \in ready : k \in Key /\ d[k] # None /\ d[k].out # None /\ d[k].out \in Outcome
  BY DEF DirtyEntry
<1>2. sidecar \in [Key -> Outcome \cup {None}]
  BY DEF Typed, TypeOK
<1>3. faults' \in 0..MaxFaults
  BY FaultType DEF FlushFrom
<1>4. \E done \in SUBSET ready : sidecar' = put(done)
  <2>1. sidecar' = put(ready) \/ \E bad \in SUBSET ready \ {{}} : sidecar' = put(ready \ bad)
    BY DEF FlushFrom
  <2> QED
    BY <2>1
<1>5. \E done \in SUBSET ready : dirty' = clear(done)
  <2>1. dirty' = clear(ready) \/ \E bad \in SUBSET ready \ {{}} : dirty' = clear(ready \ bad)
    BY DEF FlushFrom
  <2> QED
    BY <2>1
<1> HIDE DEF ready
<1>6. /\ sidecar' \in [Key -> Outcome \cup {None}] /\ SidecarKept
      /\ \A k \in Key : sidecar'[k] = sidecar[k]
                       \/ (d[k] # None /\ d[k].out # None /\ sidecar'[k] = d[k].out)
  BY <1>1, <1>2, <1>4 DEF SidecarKept
<1>7. dirty' \in [Key -> DirtyEntry \cup {None}] /\ \A k \in Key : dirty'[k] = None \/ dirty'[k] = d[k]
  BY <1>5
<1> QED
  BY <1>3, <1>6, <1>7

\* Where a compaction may go in a step that leaves the snapshot alone.
CompactionMoves ==
    /\ compaction'.step # "idle" =>
         \/ compaction.step # "idle" /\ compaction'.covered = compaction.covered
         \/ /\ compaction'.step = "flush" /\ dropped <= compaction'.covered
            /\ compaction'.covered + Retain = LastSequence
    /\ compaction'.step \in Compacting => compaction.step \in Compacting
    /\ compaction'.step = "snapshot" =>
         \/ compaction.step = "snapshot" /\ compaction'.expected = compaction.expected
         \/ CompactFlush

\* The moves of a compaction that leave the snapshot alone.
LEMMA CompactionFacts ==
    ASSUME Typed, compaction' \in {compaction, Invalidated, NoCompaction} \/ BeginCompaction \/ MaybeCompact
    PROVE  compaction' \in Compaction /\ CompactionMoves
<1>1. compaction \in Compaction /\ NoCompaction \in Compaction /\ Invalidated \in Compaction
  BY DEF Typed, TypeOK, Compaction, NoCompaction, Invalidated
<1>2. CASE compaction' \in {compaction, Invalidated, NoCompaction}
  BY <1>1, <1>2 DEF CompactionMoves, Compaction, Invalidated, NoCompaction, Compacting
<1>3. ASSUME BeginCompaction PROVE compaction' \in Compaction /\ CompactionMoves
  <2>1. CASE compaction' = compaction
    BY <2>1, <1>2
  <2>2. CASE /\ LastSequence - Retain > dropped
             /\ compaction' = [step |-> "flush", covered |-> LastSequence - Retain,
                                expected |-> [k \in Key |-> None], guard |-> "valid"]
    <3>1. LastSequence - Retain \in Nat /\ (LastSequence - Retain) + Retain = LastSequence
      BY <2>2, LogFacts
    <3>2. compaction' \in Compaction
      BY <2>2, <3>1 DEF Compaction
    <3> QED
      BY <2>2, <3>1, <3>2, LogFacts DEF CompactionMoves, Compacting
  <2> QED
    BY <1>3, <2>1, <2>2 DEF BeginCompaction
<1>4. CASE MaybeCompact
  BY <1>4, <1>2, <1>3 DEF MaybeCompact
<1> QED
  BY <1>2, <1>3, <1>4

\* Starting or skipping a compaction leaves the blocked flag a Boolean.
LEMMA BlockedType ==
    Typed /\ (BeginCompaction \/ MaybeCompact \/ UNCHANGED blocked) => blocked' \in BOOLEAN
BY DEF Typed, TypeOK, BeginCompaction, MaybeCompact

\* What a stopped process leaves: nothing cached, and only idle or answered calls.
LEMMA ForgetFacts ==
    ASSUME Typed, ForgetMemory
    PROVE  /\ pc' \in [Attempt -> Progresses] /\ pending' \in [Key -> Attempt \cup {None}]
           /\ hot' \in [Key -> Outcome \cup {None}] /\ dirty' \in [Key -> DirtyEntry \cup {None}]
           /\ compaction' \in Compaction /\ CompactionMoves /\ blocked' \in BOOLEAN
           /\ recovered' \in Seq([seq : Nat, tx : Attempt]) /\ recovered' = <<>>
           /\ \A k \in Key : hot'[k] = None /\ dirty'[k] = None
           /\ \A a \in Attempt : /\ pc'[a] \in {"idle"} \cup Answered
                                 /\ pc[a] \in {"idle"} \cup Answered => pc'[a] = pc[a]
                                 /\ pc'[a] = "idle" => pc[a] = "idle"
<1>1. pc \in [Attempt -> Progresses]
  BY DEF Typed, TypeOK, Progresses
<1>2. pc' \in [Attempt -> Progresses]
      /\ \A a \in Attempt : /\ pc'[a] \in {"idle"} \cup Answered
                            /\ pc[a] \in {"idle"} \cup Answered => pc'[a] = pc[a]
                            /\ pc'[a] = "idle" => pc[a] = "idle"
  BY <1>1 DEF ForgetMemory, Progresses, Answered
<1>3. compaction' \in Compaction /\ CompactionMoves
  BY CompactionFacts DEF ForgetMemory
<1>4. /\ pending' \in [Key -> Attempt \cup {None}]
      /\ hot' \in [Key -> Outcome \cup {None}] /\ dirty' \in [Key -> DirtyEntry \cup {None}]
      /\ \A k \in Key : hot'[k] = None /\ dirty'[k] = None
  BY DEF ForgetMemory
<1>5. recovered' = <<>> /\ blocked' = FALSE
  BY DEF ForgetMemory
<1>6. recovered' \in Seq([seq : Nat, tx : Attempt])
  BY <1>5
<1> QED
  BY <1>2, <1>3, <1>4, <1>5, <1>6

-----------------------------------------------------------------------------
(* Steps that leave log and snapshot alone. *)

\* How calls, modes and sidecars move in such a step.
CallMoves(a) ==
    /\ \/ pc'[a] = pc[a] \/ pc'[a] \in Answered
       \/ pc[a] \in Early /\ pc'[a] \in Early \ {"idle"}
       \/ pc[a] = "effect" /\ pc'[a] = "terminal"
    /\ pc'[a] \in Owning => pending'[KeyOf[a]] = a
    /\ mode' # "up" => pc'[a] \in {"idle"} \cup Answered
    /\ pc[a] \in Begun /\ mode' \in Serving => pc'[a] \in Begun \/ KeyOf[a] \in orphaned'

ModeMoves ==
    /\ mode' \notin {"down", "broken"} => mode \notin {"down", "broken"}
    /\ mode' \in Serving => mode \in Serving \/ OpenTransactions = {}

FilesStep ==
    /\ UNCHANGED <<journal, dropped, snapshot>> /\ orphaned \subseteq orphaned'
    /\ \/ cut' = cut
       \/ cut' = snapshot.covered /\ compaction.step \in Compacting /\ compaction'.step = "idle"
    /\ \/ torn' \in {torn, None, Shorter}
       \/ torn'.tx \in Attempt /\ ~Ended(torn'.tx) /\ pc'[torn'.tx] \in Answered
    /\ SidecarKept /\ CompactionMoves /\ ModeMoves
    /\ \A a \in Attempt : CallMoves(a)
    /\ \A k \in Key : Seen(k)' => Seen(k) \/ Strong(k)'

QuietStep == FilesStep /\ UNCHANGED orphaned /\ torn' \in {torn, None, Shorter}

\* What the compaction expects when it is about to write the snapshot.
LEMMA FlushDemands ==
    ASSUME Typed, CompactFlush, compaction'.step = "snapshot", UNCHANGED <<journal, dropped>>
    PROVE  \A k \in Key : Demands(k)'
<1>1. /\ Span' = Span /\ \A q \in Span : At(q)' = At(q)
  BY SameLog
<1> DEFINE last(k) == Latest(TerminalsOf(k))
           due == {k \in Key : TerminalsOf(k) # {} /\ SequenceAt(last(k)) <= compaction.covered}
<1>2. /\ compaction'.covered = compaction.covered
      /\ compaction'.expected = [k \in Key |-> IF k \in due THEN journal[last(k)].out ELSE None]
  <2>1. \/ EndCompaction(TRUE)
        \/ Advance("snapshot", [k \in Key |-> IF k \in due THEN journal[last(k)].out ELSE None])
    BY DEF CompactFlush
  <2> HIDE DEF due
  <2>2. Advance("snapshot", [k \in Key |-> IF k \in due THEN journal[last(k)].out ELSE None])
    BY <2>1 DEF EndCompaction, NoCompaction
  <2>3. compaction \in Compaction
    BY DEF Typed, TypeOK, Compaction
  <2> QED
    BY <2>2, <2>3 DEF Advance, Compaction
<1>3. ASSUME NEW k \in Key, NEW q \in Span, IsTerminal(At(q)), KeyOf[At(q).tx] = k
      PROVE  /\ last(k) \in TerminalsOf(k) /\ TerminalsOf(k) # {}
             /\ dropped + last(k) \in Span /\ journal[last(k)] = At(dropped + last(k))
  <2>1. q - dropped \in TerminalsOf(k)
    BY <1>3, LogFacts DEF TerminalsOf, EventsOf, At, IsTerminal
  <2>2. TerminalsOf(k) \subseteq 1..Len(journal) /\ Len(journal) \in Nat
    BY DEF TerminalsOf, EventsOf, Typed, TypeOK
  <2>3. last(k) \in TerminalsOf(k)
    BY <2>1, <2>2, LatestFact
  <2> QED
    BY <2>1, <2>2, <2>3, LogFacts
<1> HIDE DEF last
<1> TAKE k \in Key
<1> SUFFICES ASSUME NEW q \in Span, IsTerminal(At(q)), KeyOf[At(q).tx] = k
             PROVE  \/ compaction'.expected[k] # None
                    \/ \E r \in Span : IsTerminal(At(r)) /\ KeyOf[At(r).tx] = k /\ r > compaction.covered
  BY <1>1, <1>2 DEF Demands
<1>4. /\ last(k) \in TerminalsOf(k) /\ TerminalsOf(k) # {}
      /\ dropped + last(k) \in Span /\ journal[last(k)] = At(dropped + last(k))
  BY <1>3
<1>5. IsTerminal(At(dropped + last(k))) /\ KeyOf[At(dropped + last(k)).tx] = k
  BY <1>4 DEF TerminalsOf, EventsOf, IsTerminal
<1>6. CASE dropped + last(k) > compaction.covered
  BY <1>4, <1>5, <1>6
<1>7. CASE ~(dropped + last(k) > compaction.covered)
  <2>0. compaction.covered \in Nat /\ dropped + last(k) \in Nat
    BY <1>4, LogFacts DEF Typed, TypeOK
  <2>1. k \in due
    BY <1>4, <1>7, <2>0 DEF SequenceAt
  <2>2. At(dropped + last(k)).out \in Exact
    BY <1>4, <1>5, LogFacts DEF Written, IsTerminal
  <2>3. compaction'.expected[k] = At(dropped + last(k)).out
    BY <1>2, <1>4, <2>1
  <2> QED
    BY <2>2, <2>3 DEF Exact
<1> QED
  BY <1>6, <1>7

\* A step that writes neither log nor snapshot keeps what the files guarantee.
LEMMA StepFiles ==
    ASSUME IInv, FilesStep, Typed'
    PROVE  Positions' /\ Ordered' /\ Progress' /\ Shown' /\ Closed'
<1> USE DEF IInv, FilesStep
<1>1. /\ LastSequence' = LastSequence /\ Span' = Span /\ \A q \in Span : At(q)' = At(q)
      /\ \A a \in Attempt : (Ended(a)' <=> Ended(a)) /\ (Logged(a)' <=> Logged(a))
  BY SameLog
<1>2. \A q \in Span : q \in Nat /\ At(q).tx \in Attempt /\ KeyOf[At(q).tx] \in Key
  BY LogFacts
<1>3. /\ Torn' => (Torn /\ torn' = torn) \/ (~Ended(torn'.tx) /\ pc'[torn'.tx] \in Answered)
      /\ (Torn => torn.tx \in Attempt) /\ (Torn' => torn'.tx \in Attempt)
      /\ snapshot.open \subseteq Attempt
      /\ \A a \in Attempt : TornOf(a)' => TornOf(a) \/ pc'[a] \in Answered
  BY DEF Typed, TypeOK, Torn, TornOf, Written, Event
<1>4. Positions'
  <2>1. cut \in Nat /\ dropped \in Nat /\ LastSequence \in Nat /\ compaction'.covered \in Nat
    BY LogFacts DEF Typed, TypeOK
  <2>2. compaction'.step # "idle" =>
           /\ cut <= compaction'.covered /\ dropped <= compaction'.covered
           /\ compaction'.covered + Retain <= LastSequence
    <3> SUFFICES ASSUME compaction'.step # "idle"
                 PROVE  /\ cut <= compaction'.covered /\ dropped <= compaction'.covered
                        /\ compaction'.covered + Retain <= LastSequence
      OBVIOUS
    <3>1. CASE compaction.step # "idle" /\ compaction'.covered = compaction.covered
      BY <3>1 DEF Positions
    <3>2. CASE dropped <= compaction'.covered /\ compaction'.covered + Retain = LastSequence
      BY <3>2, <2>1 DEF Positions
    <3> QED
      BY <3>1, <3>2 DEF CompactionMoves
  <2>3. compaction'.step \in Compacting => snapshot.covered = compaction'.covered
    BY DEF CompactionMoves, Positions, Compacting
  <2>4. /\ dropped <= cut' /\ cut' <= snapshot.covered
        /\ cut' = 0 \/ cut' + Retain <= LastSequence
        /\ compaction'.step # "idle" => cut' <= compaction'.covered
    <3>1. CASE cut' = cut
      <4>1. dropped <= cut /\ cut <= snapshot.covered /\ (cut = 0 \/ cut + Retain <= LastSequence)
        BY DEF Positions
      <4> QED
        BY <2>2, <3>1, <4>1
    <3>2. CASE cut' = snapshot.covered /\ compaction.step \in Compacting /\ compaction'.step = "idle"
      <4>1. /\ snapshot.covered = compaction.covered /\ dropped <= compaction.covered
            /\ compaction.covered + Retain <= LastSequence
        BY <3>2 DEF Positions, Compacting
      <4>2. snapshot.covered \in Nat
        BY DEF Typed, TypeOK
      <4> QED
        BY <2>1, <3>2, <4>1, <4>2
    <3> QED
      BY <3>1, <3>2
  <2> QED
    BY <1>1, <2>2, <2>3, <2>4 DEF Positions
<1>5. Ordered'
  BY <1>1, <1>2, <1>3 DEF Ordered
<1>6. Progress'
  <2> SUFFICES ASSUME NEW a \in Attempt
               PROVE  /\ pc'[a] \in Early => a \notin snapshot.open /\ ~Logged(a)
                      /\ pc'[a] \in Begun => ~Ended(a)
                      /\ pc'[a] \in Early \cup Begun => ~TornOf(a)
                      /\ mode' # "up" => pc'[a] \in {"idle"} \cup Answered
                      /\ pc'[a] \in Owning => pending'[KeyOf[a]] = a
    BY <1>1, <1>3 DEF Progress, Early, Begun, Answered
  <2>1. CallMoves(a)
    OBVIOUS
  <2>2. pc'[a] \in Early \cup Begun => ~TornOf(a)
    BY <2>1 DEF CallMoves, Progress, Early, Begun, Answered
  <2> QED
    BY <2>1, <2>2 DEF CallMoves, Progress, Early, Begun, Answered
<1>7. Shown'
  <2>1. \A k \in Key : Strong(k) => Strong(k)'
    BY <1>1 DEF Strong, SidecarKept
  <2>2. \A k \in Key : Seen(k)' => Strong(k)'
    BY <2>1 DEF Shown
  <2>3. ASSUME compaction'.step = "snapshot", NEW k \in Key
        PROVE  Demands(k)'
    <3>1. CASE compaction.step = "snapshot" /\ compaction'.expected = compaction.expected
      <4>1. compaction'.covered = compaction.covered
        BY <2>3, <3>1 DEF CompactionMoves
      <4>2. Demands(k)
        BY <3>1 DEF Shown
      <4> QED
        BY <1>1, <3>1, <4>1, <4>2 DEF Demands
    <3>2. CASE CompactFlush
      BY <2>3, <3>2, FlushDemands
    <3> QED
      BY <2>3, <3>1, <3>2 DEF CompactionMoves
  <2> QED
    BY <2>2, <2>3 DEF Shown
<1>8. Closed'
  <2>1. \A a \in Attempt : mode' \in Serving /\ Underway(a) => Underway(a)'
    BY <1>1 DEF Underway, CallMoves
  <2>2. CASE mode \in Serving
    BY <1>1, <2>1, <2>2 DEF Closed
  <2>3. CASE OpenTransactions = {}
    <3>1. \A a \in Attempt : a \in snapshot.open \/ Logged(a) => Ended(a)
      BY <2>3, ReadingFacts
    <3> QED
      BY <1>1, <3>1 DEF Underway, Closed
  <2>4. CASE mode' \notin Serving
    BY <2>4 DEF Closed
  <2> QED
    BY <2>2, <2>3, <2>4 DEF ModeMoves
<1> QED
  BY <1>4, <1>5, <1>6, <1>7, <1>8

\* A quiet step keeps what the files guarantee.
LEMMA QuietFiles ==
    ASSUME IInv, QuietStep, Typed'
    PROVE  Positions' /\ Ordered' /\ Progress' /\ Shown' /\ Closed'
BY StepFiles DEF QuietStep

\* Where outcome o of key k may come from: what is known of it, the marker that
\* stands for something known, or the execution that has just ended.
Source(k, o) ==
    \/ Known(k, o)
    \/ o = "compacted" /\ \E p \in Outcome : Known(k, p)
    \/ o \in Attempt /\ KeyOf[o] = k /\ pc[o] = "persist"

QuietAgreement ==
    /\ effects' = effects
    /\ \A k \in Key : \A o \in Outcome : Known(k, o)' => Source(k, o)
    /\ \A a \in Attempt :
         \/ pc'[a] = pc[a] \/ pc'[a] \notin Fresh \cup {"terminal", "persist"}
         \/ /\ pc'[a] \in Fresh
            /\ \/ pc[a] \in Fresh \/ KeyOf[a] \in orphaned
               \/ /\ pc[a] = "lookup" /\ effects[KeyOf[a]] = 0
                  /\ \A o \in Outcome : ~Known(KeyOf[a], o)

\* Outcomes are never None, and an attempt is an exact outcome of its key.
LEMMA OutcomeFacts ==
    /\ Exact \subseteq Outcome /\ Attempt \subseteq Exact
    /\ \A o \in Exact : o # "compacted" /\ o # None
    /\ \A o \in Outcome : o # None
    /\ \A a \in Attempt : KeyOf[a] \in Key
    /\ \A k \in Key : k # None
BY DEF Exact, Outcome

\* One execution of a key at a time.
LEMMA OneOwner ==
    ASSUME Progress, NEW a \in Attempt, NEW b \in Attempt, KeyOf[a] = KeyOf[b],
           pc[a] \in Owning, pc[b] \in Owning
    PROVE  a = b
BY DEF Progress

\* A quiet step tells no caller a new outcome, so agreement holds.
LEMMA QuietAgreed ==
    ASSUME IInv, QuietStep, QuietAgreement, Typed'
    PROVE  Agreed'
<1> USE DEF IInv
<1>1. /\ \A a \in Attempt : (Ended(a)' <=> Ended(a)) /\ (Trace(a)' => Trace(a))
      /\ orphaned' = orphaned /\ effects' = effects
  BY SameLog DEF QuietStep, FilesStep, QuietAgreement, Trace, TornOf, Torn
<1>2. \A k \in Key : \A o \in Outcome : Known(k, o)' => Source(k, o)
  BY DEF QuietAgreement
<1>3. \A a \in Attempt : pc[a] \in Fresh \cup {"terminal", "persist"} => pc[a] \in Owning
  BY DEF Fresh, Owning, Executing
<1>4. ASSUME NEW k \in Key PROVE Earned(k)'
  <2> SUFFICES ASSUME NEW o \in Attempt, Known(k, o)' PROVE KeyOf[o] = k /\ effects[k] > 0
    BY <1>1 DEF Earned
  <2>1. Source(k, o) /\ o # "compacted"
    BY <1>2, OutcomeFacts
  <2> QED
    BY <2>1 DEF Source, Agreed, Earned
<1>5. ASSUME NEW k \in Key \ orphaned PROVE OneOutcome(k)'
  <2> SUFFICES ASSUME NEW o \in Exact, NEW p \in Exact, Known(k, o)', Known(k, p)' PROVE o = p
    BY DEF OneOutcome
  <2>1. Source(k, o) /\ Source(k, p) /\ o # "compacted" /\ p # "compacted"
    BY <1>2, OutcomeFacts
  <2>2. OneOutcome(k) /\ Unheard(k)
    BY DEF Agreed
  <2>3. CASE Known(k, o) /\ Known(k, p)
    BY <2>2, <2>3 DEF OneOutcome
  <2>4. CASE o \in Attempt /\ KeyOf[o] = k /\ pc[o] = "persist"
    BY <1>3, <2>1, <2>2, <2>4, OneOwner DEF Unheard, Source
  <2>5. CASE p \in Attempt /\ KeyOf[p] = k /\ pc[p] = "persist"
    BY <1>3, <2>1, <2>2, <2>5, OneOwner DEF Unheard, Source
  <2> QED
    BY <2>1, <2>3, <2>4, <2>5 DEF Source
<1>6. ASSUME NEW k \in Key \ orphaned PROVE OneTransaction(k)'
  BY <1>1 DEF OneTransaction, Agreed
<1>7. ASSUME NEW k \in Key \ orphaned PROVE OpenUnknown(k)'
  <2> SUFFICES ASSUME NEW a \in Attempt, KeyOf[a] = k, Trace(a), ~Ended(a), NEW o \in Attempt
               PROVE  ~Known(k, o)' /\ (KeyOf[o] = k => pc'[o] # "persist")
    BY <1>1 DEF OpenUnknown
  <2>1. ~Known(k, o) /\ (KeyOf[o] = k => pc[o] # "persist")
    BY DEF OpenUnknown, Agreed
  <2>2. ~Known(k, o)'
    BY <1>2, <2>1, OutcomeFacts DEF Source
  <2> QED
    BY <2>1, <2>2 DEF QuietAgreement, Fresh
<1>8. ASSUME NEW k \in Key \ orphaned PROVE Unheard(k)'
  <2> SUFFICES ASSUME NEW a \in Attempt, KeyOf[a] = k
               PROVE  /\ pc'[a] \in Fresh => effects[k] = 0
                      /\ pc'[a] \in Fresh \cup {"terminal"} => \A o \in Outcome : ~Known(k, o)'
                      /\ pc'[a] = "persist" => \A o \in Exact : Known(k, o)' => o = a
    BY <1>1 DEF Unheard
  <2>1. Unheard(k)
    BY DEF Agreed
  <2>2. CASE pc'[a] \in Fresh \cup {"terminal"} /\ pc[a] \in Fresh \cup {"terminal"}
    <3>1. \A o \in Outcome : ~Known(k, o)
      BY <2>1, <2>2 DEF Unheard
    <3>2. \A o \in Attempt : ~(KeyOf[o] = k /\ pc[o] = "persist")
      BY <1>3, <2>2, OneOwner DEF Fresh
    <3>3. \A o \in Outcome : ~Known(k, o)'
      BY <1>2, <3>1, <3>2 DEF Source
    <3>4. pc'[a] \in Fresh => effects[k] = 0
      BY <2>1, <2>2 DEF QuietAgreement, Unheard, Fresh
    <3> QED
      BY <2>2, <3>3, <3>4 DEF Fresh
  <2>3. CASE pc'[a] \in Fresh /\ pc[a] = "lookup" /\ effects[k] = 0 /\ \A o \in Outcome : ~Known(k, o)
    <3>1. pc[a] \in Owning
      BY <2>3 DEF Owning
    <3>2. \A o \in Attempt : ~(KeyOf[o] = k /\ pc[o] = "persist")
      BY <1>3, <2>3, <3>1, OneOwner
    <3> QED
      BY <1>2, <2>3, <3>2 DEF Source, Fresh
  <2>4. CASE pc'[a] = "persist"
    <3>1. pc[a] = "persist"
      BY <2>4 DEF QuietAgreement, Fresh
    <3>2. \A o \in Attempt : KeyOf[o] = k /\ pc[o] = "persist" => o = a
      BY <1>3, <3>1, OneOwner
    <3> QED
      BY <1>2, <2>1, <2>4, <3>1, <3>2, OutcomeFacts DEF Unheard, Source, Fresh
  <2>5. CASE pc'[a] \notin Fresh \cup {"terminal", "persist"}
    BY <2>5
  <2>6. CASE pc'[a] = pc[a]
    BY <2>2, <2>4, <2>5, <2>6
  <2> QED
    BY <2>2, <2>3, <2>4, <2>5, <2>6 DEF QuietAgreement
<1>9. \A a \in Attempt : pc'[a] \in {"terminal", "persist"} => effects'[KeyOf[a]] > 0
  BY <1>1 DEF Agreed, QuietAgreement, Fresh
<1>10. Torn' /\ IsTerminal(torn)' /\ mode' \notin {"down", "broken"} => KeyOf[torn'.tx] \in orphaned'
  BY DEF Agreed, QuietStep, FilesStep, ModeMoves, Torn, IsTerminal
<1>11. AtMostOnce'
  BY <1>1 DEF Agreed, AtMostOnce
<1> QED
  BY <1>1, <1>4, <1>5, <1>6, <1>7, <1>8, <1>9, <1>10, <1>11 DEF Agreed

\* What recovery has left to publish only shrinks.
LEMMA ShorterRecovered ==
    ASSUME Typed, recovered' \in {recovered, <<>>} \/ (recovered # <<>> /\ recovered' = Tail(recovered))
    PROVE  \A n \in 1..Len(recovered') : \E m \in 1..Len(recovered) : recovered'[n] = recovered[m]
<1>1. recovered \in Seq([seq : Nat, tx : Attempt])
  BY DEF Typed, TypeOK
<1>2. CASE recovered # <<>> /\ recovered' = Tail(recovered)
  <2>1. /\ Len(recovered) \in Nat /\ Len(recovered') = Len(recovered) - 1
        /\ \A n \in 1..Len(recovered) - 1 : recovered'[n] = recovered[n + 1]
    BY <1>1, <1>2
  <2> QED
    BY <2>1
<1>3. CASE recovered' = recovered
  BY <1>3
<1>4. CASE recovered' = <<>>
  BY <1>4
<1> QED
  BY <1>2, <1>3, <1>4

\* What such a step adds to what is seen and known of a key.
LEMMA SeenFacts ==
    ASSUME Typed, UNCHANGED <<journal, dropped, effects>>, NEW k \in Key,
           answers'[k] # {} \/ hot'[k] # None \/ dirty'[k] # None => Seen(k) \/ Strong(k)',
           recovered' \in {recovered, <<>>} \/ (recovered # <<>> /\ recovered' = Tail(recovered)),
           \A a \in Attempt : pc'[a] = "effect" => pc[a] = "effect"
    PROVE  Seen(k)' => Seen(k) \/ Strong(k)'
<1>1. Span' = Span /\ \A q \in Span : At(q)' = At(q)
  BY SameLog
<1>2. \A n \in 1..Len(recovered') : \E m \in 1..Len(recovered) : recovered'[n] = recovered[m]
  BY ShorterRecovered
<1> QED
  BY <1>1, <1>2 DEF Seen

\* A step that copies outcomes between caches, sidecars and callers learns nothing.
LEMMA NewsFacts ==
    ASSUME Typed, UNCHANGED <<journal, dropped>>, torn' \in {torn, None, Shorter}, NEW k \in Key,
           hot'[k] = None \/ Source(k, hot'[k]),
           sidecar'[k] = None \/ Source(k, sidecar'[k]),
           \A o \in answers'[k] : Source(k, o),
           dirty'[k] = None \/ dirty'[k].out = None \/ Source(k, dirty'[k].out),
           recovered' \in {recovered, <<>>} \/ (recovered # <<>> /\ recovered' = Tail(recovered))
    PROVE  \A o \in Outcome : Known(k, o)' => Source(k, o)
<1>1. Span' = Span /\ \A q \in Span : At(q)' = At(q)
  BY SameLog
<1>2. \A n \in 1..Len(recovered') : \E m \in 1..Len(recovered) : recovered'[n] = recovered[m]
  BY ShorterRecovered
<1> SUFFICES ASSUME NEW o \in Outcome, Known(k, o)' PROVE Source(k, o)
  OBVIOUS
<1>3. CASE o = hot'[k] \/ o = sidecar'[k] \/ o \in answers'[k] \/ (dirty'[k] # None /\ dirty'[k].out = o)
  BY <1>3, OutcomeFacts
<1>4. CASE \/ \E q \in Span : IsTerminal(At(q)) /\ KeyOf[At(q).tx] = k /\ At(q).out = o
           \/ Torn /\ IsTerminal(torn) /\ KeyOf[torn.tx] = k /\ torn.out = o
           \/ o = "unknown" /\ \E n \in 1..Len(recovered) : KeyOf[recovered[n].tx] = k
  BY <1>4 DEF Source, Known
<1> QED
  BY <1>1, <1>2, <1>3, <1>4 DEF Known, Torn, IsTerminal

\* What is held of a key is known.
LEMMA HeldIsKnown ==
    ASSUME NEW k \in Key
    PROVE  /\ Source(k, hot[k]) /\ Source(k, sidecar[k]) /\ \A o \in answers[k] : Source(k, o)
           /\ dirty[k] # None => Source(k, dirty[k].out)
           /\ hot[k] # None \/ dirty[k] # None \/ answers[k] # {} => Seen(k)
BY DEF Source, Known, Seen

\* A caller is told what is known; nothing else happens to effects and answers.
HistoryStep ==
    /\ UNCHANGED <<effects, orphaned>>
    /\ \/ UNCHANGED answers
       \/ \E k \in Key : \E o \in Outcome :
            Source(k, o) /\ answers' = [answers EXCEPT ![k] = @ \cup {o}]

\* A step that leaves log and snapshot alone stays well typed.
LEMMA QuietTyped ==
    ASSUME Typed, UNCHANGED <<journal, cut, dropped, torn, snapshot, baseline, effects, orphaned>>,
           mode' \in {"down", "recover", "publish", "up", "broken"},
           sidecar' \in [Key -> Outcome \cup {None}],
           pc' \in [Attempt -> Progresses],
           pending' \in [Key -> Attempt \cup {None}],
           hot' \in [Key -> Outcome \cup {None}],
           dirty' \in [Key -> DirtyEntry \cup {None}],
           compaction' \in Compaction,
           blocked' \in BOOLEAN,
           recovered' \in Seq([seq : Nat, tx : Attempt]),
           answers' \in [Key -> SUBSET Outcome],
           crashes' \in 0..MaxCrashes, faults' \in 0..MaxFaults
    PROVE  Typed'
BY DEF Typed, TypeOK, DirtyEntry, Compaction, Progresses

Quiet == Typed' /\ QuietStep /\ HistoryStep

\* submit() itself writes no file.
LEMMA SubmitQuiet ==
    ASSUME IInv, NEW a \in Attempt, Submit(a)
    PROVE  Quiet /\ QuietAgreement
<1> DEFINE k == KeyOf[a]
           known == IF hot[k] # None THEN hot[k]
                    ELSE IF dirty[k] # None THEN dirty[k].out ELSE None
<1> USE DEF IInv
<1>1. /\ mode = "up" /\ pc[a] = "idle" /\ k \in Key
      /\ UNCHANGED <<journal, cut, dropped, torn, snapshot, baseline, effects, orphaned, mode, sidecar,
                     hot, dirty, compaction, blocked, recovered, crashes, faults>>
  BY DEF Submit, files, bounds
<1>2. pc \in [Attempt -> Progresses] /\ pending \in [Key -> Attempt \cup {None}]
      /\ answers \in [Key -> SUBSET Outcome] /\ hot \in [Key -> Outcome \cup {None}]
      /\ dirty \in [Key -> DirtyEntry \cup {None}]
  BY DEF Typed, TypeOK, Progresses, DirtyEntry
<1>3. \/ /\ known # None /\ pc' = [pc EXCEPT ![a] = "answered"] /\ UNCHANGED pending
         /\ answers' = [answers EXCEPT ![k] = @ \cup {known}]
      \/ /\ pc' = [pc EXCEPT ![a] = "joined"] /\ UNCHANGED <<pending, answers>>
      \/ /\ pending[k] = None /\ pc' = [pc EXCEPT ![a] = "lookup"]
         /\ pending' = [pending EXCEPT ![k] = a] /\ UNCHANGED answers
  BY DEF Submit, InFlight
<1>4. known # None => known \in Outcome /\ Source(k, known) /\ Seen(k)
  BY <1>1, <1>2, HeldIsKnown DEF DirtyEntry
<1> HIDE DEF known
<1>5. pc' \in [Attempt -> Progresses] /\ pending' \in [Key -> Attempt \cup {None}]
      /\ answers' \in [Key -> SUBSET Outcome]
  BY <1>1, <1>2, <1>3, <1>4 DEF Progresses, Answered
<1>6. Typed'
  BY <1>1, <1>5, QuietTyped DEF Typed, TypeOK, DirtyEntry, Compaction, Progresses
<1>7. \A b \in Attempt : CallMoves(b)
  BY <1>1, <1>2, <1>3 DEF CallMoves, Progress, Early, Begun, Owning, Executing, Answered
<1>8. \A j \in Key : /\ Seen(j)' => Seen(j) \/ Strong(j)'
                     /\ \A o \in Outcome : Known(j, o)' => Source(j, o)
  <2> TAKE j \in Key
  <2>1. \A o \in answers'[j] : Source(j, o) /\ Seen(j)
    BY <1>1, <1>2, <1>3, <1>4, HeldIsKnown
  <2>2. \A b \in Attempt : pc'[b] = "effect" => pc[b] = "effect"
    BY <1>1, <1>2, <1>3
  <2>3. Seen(j)' => Seen(j) \/ Strong(j)'
    BY <1>1, <2>1, <2>2, SeenFacts, HeldIsKnown
  <2> QED
    BY <1>1, <2>1, <2>3, NewsFacts, HeldIsKnown
<1>9. SidecarKept /\ CompactionMoves /\ ModeMoves
  BY <1>1, CompactionFacts DEF SidecarKept, ModeMoves
<1>10. HistoryStep
  BY <1>1, <1>3, <1>4 DEF HistoryStep
<1>11. QuietAgreement
  BY <1>1, <1>2, <1>3, <1>8 DEF QuietAgreement, Fresh
<1> QED
  BY <1>1, <1>6, <1>7, <1>8, <1>9, <1>10, <1>11 DEF Quiet, QuietStep, FilesStep

\* Evicting a hot outcome loses nothing the files show.
LEMMA EvictQuiet ==
    ASSUME IInv, NEW k \in Key, Evict(k)
    PROVE  Quiet /\ QuietAgreement
<1> USE DEF IInv
<1>1. UNCHANGED <<journal, cut, dropped, torn, snapshot, baseline, effects, orphaned, mode, sidecar, pc,
                  pending, dirty, compaction, blocked, recovered, answers, crashes, faults>>
  BY DEF Evict, files, bounds, history
<1>2. /\ hot' \in [Key -> Outcome \cup {None}]
      /\ \A j \in Key : hot'[j] = None \/ hot'[j] = hot[j]
  BY DEF Evict, Typed, TypeOK
<1>3. Typed'
  BY <1>1, <1>2, QuietTyped DEF Typed, TypeOK, DirtyEntry, Compaction, Progresses
<1>4. \A b \in Attempt : CallMoves(b)
  BY <1>1 DEF CallMoves, Progress
<1>5. \A j \in Key : /\ Seen(j)' => Seen(j) \/ Strong(j)'
                     /\ \A o \in Outcome : Known(j, o)' => Source(j, o)
  <2> TAKE j \in Key
  <2>1. hot'[j] = None \/ (Source(j, hot'[j]) /\ Seen(j))
    BY <1>2, HeldIsKnown
  <2>2. Seen(j)' => Seen(j) \/ Strong(j)'
    BY <1>1, <2>1, SeenFacts, HeldIsKnown
  <2> QED
    BY <1>1, <2>1, <2>2, NewsFacts, HeldIsKnown
<1>6. SidecarKept /\ CompactionMoves /\ ModeMoves
  BY <1>1, CompactionFacts DEF SidecarKept, ModeMoves
<1> QED
  BY <1>1, <1>3, <1>4, <1>5, <1>6 DEF Quiet, QuietStep, FilesStep, HistoryStep, QuietAgreement

\* A settled execution releases its caller and whoever joined it.
LEMMA SettleOwners ==
    ASSUME Typed, Progress, NEW a \in Attempt, NEW result \in {"answered", "failed"}, NEW o,
           result = "answered" => o \in Outcome, Settle(a, result, o), pc[a] \in Owning
    PROVE  /\ pc'[a] = result
           /\ \A b \in Attempt : /\ pc'[b] = pc[b] \/ pc'[b] \in Answered
                                 /\ pc[b] \in Begun => pc'[b] = pc[b] \/ b = a
                                 /\ pc'[b] \in Owning => pending'[KeyOf[b]] = b
<1>1. /\ pc'[a] = result
      /\ \A b \in Attempt : pc'[b] = pc[b] \/ b = a
                           \/ (pc[b] = "joined" /\ KeyOf[b] = KeyOf[a] /\ pc'[b] = result)
      /\ \A k \in Key \ {KeyOf[a]} : pending'[k] = pending[k]
  BY SettleFacts
<1>2. result \in Answered
  BY DEF Answered
<1>3. \A b \in Attempt : pc'[b] = pc[b] \/ pc'[b] \in Answered
  BY <1>1, <1>2
<1>4. \A b \in Attempt : pc[b] \in Begun => pc'[b] = pc[b] \/ b = a
  BY <1>1 DEF Begun
<1>5. ASSUME NEW b \in Attempt, pc'[b] \in Owning PROVE pending'[KeyOf[b]] = b
  <2>1. pc'[b] = pc[b] /\ b # a
    BY <1>1, <1>2, <1>3, <1>5 DEF Owning, Executing, Answered
  <2>2. KeyOf[b] # KeyOf[a]
    BY <1>5, <2>1, OneOwner
  <2> QED
    BY <1>1, <1>5, <2>1, <2>2, OutcomeFacts DEF Progress
<1> QED
  BY <1>1, <1>3, <1>4, <1>5

\* A settled execution gives one outcome to the callers of one key.
LEMMA SettleQuiet ==
    ASSUME IInv, NEW a \in Attempt, NEW result \in {"answered", "failed"}, NEW o,
           result = "answered" => o \in Outcome, Settle(a, result, o),
           mode = "up", mode' = "up", pc[a] \in Owning, pc[a] \in Begun => KeyOf[a] \in orphaned'
    PROVE  /\ \A b \in Attempt : /\ CallMoves(b)
                                 /\ pc'[b] = pc[b] \/ pc'[b] \in Answered
                                 /\ pc'[b] = "effect" => pc[b] = "effect"
           /\ \A k \in Key : answers'[k] = answers[k]
                         \/ (k = KeyOf[a] /\ result = "answered" /\ answers'[k] = answers[k] \cup {o})
<1> USE DEF IInv
<1>1. \A b \in Attempt : /\ pc'[b] = pc[b] \/ pc'[b] \in Answered
                         /\ pc[b] \in Begun => pc'[b] = pc[b] \/ b = a
                         /\ pc'[b] \in Owning => pending'[KeyOf[b]] = b
  BY SettleOwners
<1>2. answers' = IF result = "answered" THEN [answers EXCEPT ![KeyOf[a]] = @ \cup {o}] ELSE answers
  BY SettleFacts
<1>3. \A b \in Attempt : pc'[b] = "effect" => pc[b] = "effect"
  BY <1>1 DEF Answered
<1>4. \A b \in Attempt : CallMoves(b)
  BY <1>1 DEF CallMoves
<1>5. \A k \in Key : answers'[k] = answers[k]
                 \/ (k = KeyOf[a] /\ result = "answered" /\ answers'[k] = answers[k] \cup {o})
  BY <1>2 DEF Typed, TypeOK
<1> QED
  BY <1>1, <1>3, <1>4, <1>5

\* The end of recovery writes no file.
LEMMA RecoveryDoneQuiet ==
    ASSUME IInv, RecoveryDone
    PROVE  Quiet /\ QuietAgreement
<1> USE DEF IInv
<1>1. /\ mode = "recover" /\ mode' = "publish" /\ OpenTransactions = {}
      /\ UNCHANGED <<journal, cut, dropped, torn, snapshot, baseline, effects, orphaned, sidecar, pc, hot,
                     pending, dirty, compaction, blocked, recovered, answers, crashes, faults>>
  BY DEF RecoveryDone, files, bounds, history, memory
<1>2. Typed'
  BY <1>1, QuietTyped DEF Typed, TypeOK, DirtyEntry, Compaction, Progresses
<1>3. \A b \in Attempt : CallMoves(b)
  BY <1>1 DEF CallMoves, Progress
<1>4. \A j \in Key : /\ Seen(j)' => Seen(j) \/ Strong(j)'
                     /\ \A o \in Outcome : Known(j, o)' => Source(j, o)
  BY <1>1, SeenFacts, NewsFacts, HeldIsKnown
<1>5. SidecarKept /\ CompactionMoves /\ ModeMoves
  BY <1>1, CompactionFacts DEF SidecarKept, ModeMoves, Serving
<1> QED
  BY <1>1, <1>2, <1>3, <1>4, <1>5 DEF Quiet, QuietStep, FilesStep, HistoryStep, QuietAgreement

\* The process is gone: a crash, a failed start.
LEMMA ForgetQuiet ==
    ASSUME IInv, ForgetMemory, mode' \in {"down", "broken"}, crashes' \in 0..MaxCrashes,
           faults' \in 0..MaxFaults, UNCHANGED <<files, dropped, baseline, history>>
    PROVE  Quiet /\ QuietAgreement
<1> USE DEF IInv
<1>1. UNCHANGED <<journal, cut, dropped, torn, snapshot, baseline, effects, orphaned, sidecar, answers>>
  BY DEF files, history
<1>2. Typed'
  BY <1>1, QuietTyped, ForgetFacts DEF Typed, TypeOK
<1>0. /\ \A k \in Key : hot'[k] = None /\ dirty'[k] = None
      /\ recovered' = <<>>
      /\ \A b \in Attempt : pc'[b] \in Answered \/ (pc[b] = "idle" /\ pc'[b] = "idle")
  <2>1. Typed /\ ForgetMemory
    OBVIOUS
  <2>2. \A b \in Attempt : pc'[b] \in {"idle"} \cup Answered /\ (pc'[b] = "idle" => pc[b] = "idle")
    BY <2>1, ForgetFacts
  <2>3. recovered' = <<>> /\ \A k \in Key : hot'[k] = None /\ dirty'[k] = None
    BY <2>1, ForgetFacts
  <2> QED
    BY <2>2, <2>3
<1>3. \A b \in Attempt : CallMoves(b)
  BY <1>0 DEF CallMoves, Owning, Executing, Answered, Serving
<1>4. \A j \in Key : /\ Seen(j)' => Seen(j) \/ Strong(j)'
                     /\ \A o \in Outcome : Known(j, o)' => Source(j, o)
  <2> TAKE j \in Key
  <2>1. \A b \in Attempt : pc'[b] # "effect"
    BY <1>0 DEF Answered
  <2>2. Seen(j)' => Seen(j) \/ Strong(j)'
    BY <1>0, <1>1, <2>1, SeenFacts, HeldIsKnown
  <2> QED
    BY <1>0, <1>1, <2>2, NewsFacts, HeldIsKnown
<1>5. SidecarKept /\ CompactionMoves /\ ModeMoves
  BY <1>1, ForgetFacts DEF SidecarKept, ModeMoves, Serving
<1>6. \A b \in Attempt : pc'[b] \notin Fresh \cup {"terminal", "persist"}
  BY <1>0 DEF Fresh, Answered
<1> QED
  BY <1>1, <1>2, <1>3, <1>4, <1>5, <1>6 DEF Quiet, QuietStep, FilesStep, HistoryStep, QuietAgreement

\* A crash and a failed creation keep what the files show.
LEMMA CrashQuiet ==
    ASSUME IInv, Crash \/ CreateFails
    PROVE  Quiet /\ QuietAgreement
<1>1. /\ ForgetMemory /\ mode' = "down" /\ UNCHANGED <<files, dropped, baseline, history>>
      /\ crashes' = crashes \/ (crashes < MaxCrashes /\ crashes' = crashes + 1)
      /\ Fault \/ NoFault
  BY DEF Crash, CreateFails, NoFault
<1>2. crashes' \in 0..MaxCrashes
  BY <1>1 DEF IInv, Typed, TypeOK
<1> QED
  BY <1>1, <1>2, FaultType, ForgetQuiet DEF IInv

\* A key that neither the log nor a sidecar answers has never run.
LEMMA NothingHeard ==
    ASSUME IInv, NEW a \in Attempt, mode = "up", pc[a] = "lookup", sidecar[KeyOf[a]] = None,
           ~EndsTerminal(KeyOf[a]), KeyOf[a] \notin orphaned
    PROVE  effects[KeyOf[a]] = 0 /\ \A o \in Outcome : ~Known(KeyOf[a], o)
<1> USE DEF IInv
<1> DEFINE k == KeyOf[a]
<1>1. k \in Key /\ pc[a] \in Owning
  BY DEF Owning
<1>2. ASSUME NEW b \in Attempt, KeyOf[b] = k, Logged(b) \/ b \in snapshot.open PROVE Ended(b)
  <2>1. Underway(b)
    BY <1>2 DEF Closed, Serving
  <2>2. pc[b] \notin Begun
    BY <1>1, <1>2, OneOwner DEF Begun, Owning, Executing
  <2> QED
    BY <1>2, <2>1, <2>2 DEF Underway
<1>3. \A q \in Span : KeyOf[At(q).tx] # k
  <2> SUFFICES ASSUME NEW p \in Span, KeyOf[At(p).tx] = k PROVE FALSE
    OBVIOUS
  <2>1. EventsOf(k) # {} /\ EventsOf(k) \subseteq 1..Len(journal) /\ Len(journal) \in Nat
    <3>1. EventsOf(k) # {}
      BY <1>1, ReadingFacts
    <3> QED
      BY <3>1, NumberFacts DEF EventsOf, IInv
  <2>2. PICK i \in EventsOf(k) : i = Latest(EventsOf(k)) /\ \A j \in EventsOf(k) : j <= i
    BY <2>1, LatestFact
  <2>3. PICK q \in Span : q = dropped + i /\ At(q) = journal[i]
    BY <2>1, <2>2, LogFacts
  <2>4. KeyOf[At(q).tx] = k /\ ~IsTerminal(At(q)) /\ At(q).tx \in Attempt
    BY <2>1, <2>2, <2>3, LogFacts DEF EndsTerminal, EventsOf, IsTerminal
  <2>5. PICK r \in Span : IsTerminal(At(r)) /\ At(r).tx = At(q).tx
    BY <2>3, <2>4, <1>2 DEF Logged, Ended
  <2>6. r - dropped \in EventsOf(k)
    BY <2>4, <2>5, LogFacts DEF EventsOf, At
  <2>7. q \in Nat /\ r \in Nat /\ dropped \in Nat /\ i \in Nat
    BY <2>1, LogFacts
  <2>8. r - dropped <= i /\ r # q
    BY <2>2, <2>4, <2>5, <2>6
  <2>9. r < q
    BY <2>3, <2>7, <2>8
  <2> QED
    BY <2>5, <2>9 DEF Ordered
<1>4. \A b \in snapshot.open : KeyOf[b] # k
  <2>1. \A b \in Attempt : KeyOf[b] = k => ~Ended(b)
    BY <1>3 DEF Ended
  <2>2. snapshot.open \subseteq Attempt
    BY DEF Typed, TypeOK
  <2> QED
    BY <1>2, <2>1, <2>2
<1>5. ~Strong(k)
  BY <1>3, <1>4 DEF Strong
<1>6. ~Seen(k)
  BY <1>1, <1>5 DEF Shown
<1>7. effects[k] = 0
  BY <1>1, <1>6 DEF Seen, Typed, TypeOK
<1>8. ~(Torn /\ IsTerminal(torn) /\ KeyOf[torn.tx] = k)
  BY DEF Agreed
<1> QED
  BY <1>3, <1>6, <1>7, <1>8, OutcomeFacts DEF Known, Seen

\* A lookup in the sidecars answers what was recorded.
LEMMA LookupSidecarQuiet ==
    ASSUME IInv, NEW a \in Attempt, LookupSidecar(a)
    PROVE  Quiet /\ QuietAgreement
<1> DEFINE k == KeyOf[a]
<1> USE DEF IInv
<1>1. /\ mode = "up" /\ pc[a] = "lookup" /\ k \in Key /\ ~EndsTerminal(k) /\ pc[a] \in Owning \ Begun
      /\ UNCHANGED <<journal, cut, dropped, torn, snapshot, baseline, effects, orphaned, mode, sidecar,
                     dirty, compaction, blocked, recovered, crashes>>
      /\ Fault \/ NoFault
  BY DEF LookupSidecar, files, Owning, Begun
<1>2. SidecarKept /\ CompactionMoves /\ ModeMoves /\ faults' \in 0..MaxFaults
  BY <1>1, CompactionFacts, FaultType DEF SidecarKept, ModeMoves
<1>3. hot \in [Key -> Outcome \cup {None}] /\ sidecar \in [Key -> Outcome \cup {None}]
      /\ pc \in [Attempt -> Progresses] /\ pending \in [Key -> Attempt \cup {None}]
      /\ answers \in [Key -> SUBSET Outcome]
  BY DEF Typed, TypeOK, Progresses
<1>4. CASE /\ sidecar[k] # None /\ hot' = [hot EXCEPT ![k] = sidecar[k]]
           /\ Settle(a, "answered", sidecar[k])
  <2>1. /\ sidecar[k] \in Outcome /\ Source(k, sidecar[k]) /\ Strong(k)'
        /\ hot' \in [Key -> Outcome \cup {None}]
        /\ \A j \in Key : hot'[j] = hot[j] \/ (j = k /\ hot'[j] = sidecar[k])
    BY <1>1, <1>3, <1>4, HeldIsKnown DEF Strong
  <2>2. /\ \A b \in Attempt : /\ CallMoves(b)
                              /\ pc'[b] = pc[b] \/ pc'[b] \in Answered
                              /\ pc'[b] = "effect" => pc[b] = "effect"
        /\ \A j \in Key : answers'[j] = answers[j]
                         \/ (j = k /\ answers'[j] = answers[j] \cup {sidecar[k]})
    BY <1>1, <1>4, <2>1, SettleQuiet
  <2>3. pc' \in [Attempt -> Progresses] /\ pending' \in [Key -> Attempt \cup {None}]
        /\ answers' \in [Key -> SUBSET Outcome] /\ answers' = [answers EXCEPT ![k] = @ \cup {sidecar[k]}]
    BY <1>4, <2>1, SettleFacts
  <2>4. Typed'
    BY <1>1, <1>2, <2>1, <2>3, QuietTyped DEF Typed, TypeOK, DirtyEntry, Compaction
  <2>5. \A j \in Key : /\ Seen(j)' => Seen(j) \/ Strong(j)'
                       /\ \A o \in Outcome : Known(j, o)' => Source(j, o)
    <3> TAKE j \in Key
    <3>1. answers'[j] # {} \/ hot'[j] # None \/ dirty'[j] # None => Seen(j) \/ Strong(j)'
      BY <1>1, <2>1, <2>2, HeldIsKnown
    <3>2. (hot'[j] = None \/ Source(j, hot'[j])) /\ \A o \in answers'[j] : Source(j, o)
      BY <2>1, <2>2, HeldIsKnown
    <3> QED
      BY <1>1, <2>2, <3>1, <3>2, SeenFacts, NewsFacts, HeldIsKnown
  <2>6. HistoryStep
    BY <1>1, <2>1, <2>3 DEF HistoryStep
  <2> QED
    BY <1>1, <1>2, <2>2, <2>4, <2>5, <2>6 DEF Quiet, QuietStep, FilesStep, QuietAgreement, Answered, Fresh
<1>5. CASE Settle(a, "failed", None) /\ UNCHANGED hot
  <2>1. /\ \A b \in Attempt : /\ CallMoves(b)
                              /\ pc'[b] = pc[b] \/ pc'[b] \in Answered
                              /\ pc'[b] = "effect" => pc[b] = "effect"
    BY <1>1, <1>5, SettleQuiet
  <2>2. pc' \in [Attempt -> Progresses] /\ pending' \in [Key -> Attempt \cup {None}] /\ answers' = answers
    BY <1>5, SettleFacts
  <2>3. Typed'
    BY <1>1, <1>2, <1>3, <1>5, <2>2, QuietTyped DEF Typed, TypeOK, DirtyEntry, Compaction
  <2>4. \A j \in Key : /\ Seen(j)' => Seen(j) \/ Strong(j)'
                       /\ \A o \in Outcome : Known(j, o)' => Source(j, o)
    BY <1>1, <1>5, <2>1, <2>2, SeenFacts, NewsFacts, HeldIsKnown
  <2> QED
    BY <1>1, <1>2, <2>1, <2>2, <2>3, <2>4 DEF Quiet, QuietStep, FilesStep, HistoryStep, QuietAgreement, Answered, Fresh
<1>6. CASE /\ sidecar[k] = None /\ pc' = [pc EXCEPT ![a] = "ready"] /\ UNCHANGED <<pending, hot, answers>>
  <2>1. Typed'
    BY <1>1, <1>2, <1>3, <1>6, QuietTyped DEF Typed, TypeOK, DirtyEntry, Compaction, Progresses
  <2>2. \A b \in Attempt : CallMoves(b)
    BY <1>1, <1>3, <1>6 DEF CallMoves, Progress, Early, Owning, Begun
  <2>3. \A j \in Key : /\ Seen(j)' => Seen(j) \/ Strong(j)'
                       /\ \A o \in Outcome : Known(j, o)' => Source(j, o)
    <3>1. \A b \in Attempt : pc'[b] = "effect" => pc[b] = "effect"
      BY <1>3, <1>6
    <3> QED
      BY <1>1, <1>6, <3>1, SeenFacts, NewsFacts, HeldIsKnown
  <2>4. QuietAgreement
    <3>1. k \notin orphaned => effects[k] = 0 /\ \A o \in Outcome : ~Known(k, o)
      BY <1>1, <1>6, NothingHeard
    <3> QED
      BY <1>1, <1>3, <1>6, <2>3, <3>1 DEF QuietAgreement, Fresh
  <2> QED
    BY <1>1, <1>2, <1>6, <2>1, <2>2, <2>3, <2>4 DEF Quiet, QuietStep, FilesStep, HistoryStep
<1> QED
  BY <1>4, <1>5, <1>6 DEF LookupSidecar

\* Steps of a compaction touch no call.
LEMMA BackgroundQuiet ==
    ASSUME IInv, UNCHANGED <<journal, cut, dropped, torn, snapshot, baseline, mode, pc, pending, hot,
                             recovered, effects, orphaned, answers, crashes>>,
           faults' \in 0..MaxFaults, SidecarKept,
           sidecar' \in [Key -> Outcome \cup {None}], dirty' \in [Key -> DirtyEntry \cup {None}],
           \A k \in Key : dirty'[k] = None \/ dirty'[k] = dirty[k],
           \A k \in Key : sidecar'[k] = None \/ Source(k, sidecar'[k]),
           compaction' \in Compaction, CompactionMoves, blocked' \in BOOLEAN
    PROVE  Quiet /\ QuietAgreement
<1> USE DEF IInv
<1>1. Typed'
  BY QuietTyped DEF Typed, TypeOK, Progresses
<1>2. \A b \in Attempt : CallMoves(b)
  BY DEF CallMoves, Progress
<1>3. \A j \in Key : /\ Seen(j)' => Seen(j) \/ Strong(j)'
                     /\ \A o \in Outcome : Known(j, o)' => Source(j, o)
  <2> TAKE j \in Key
  <2>1. dirty'[j] # None => dirty[j] # None /\ dirty'[j] = dirty[j]
    OBVIOUS
  <2>2. Seen(j)' => Seen(j) \/ Strong(j)'
    BY <2>1, SeenFacts, HeldIsKnown
  <2>3. \A o \in Outcome : Known(j, o)' => Source(j, o)
    BY <2>1, NewsFacts, HeldIsKnown
  <2> QED
    BY <2>2, <2>3
<1>4. ModeMoves
  BY DEF ModeMoves
<1> QED
  BY <1>1, <1>2, <1>3, <1>4 DEF Quiet, QuietStep, FilesStep, HistoryStep, QuietAgreement

\* A flush writes only outcomes that were known.
LEMMA FlushNews ==
    ASSUME Typed, NEW d \in [Key -> DirtyEntry \cup {None}],
           \A k \in Key : d[k] = None \/ d[k].out = None \/ Source(k, d[k].out),
           \A k \in Key : \/ sidecar'[k] = sidecar[k]
                          \/ d[k] # None /\ d[k].out # None /\ sidecar'[k] = d[k].out
    PROVE  \A k \in Key : sidecar'[k] = None \/ Source(k, sidecar'[k])
BY HeldIsKnown

\* A dirty entry holds an outcome that is known of its key.
LEMMA DirtyTyped ==
    Typed => /\ dirty \in [Key -> DirtyEntry \cup {None}]
             /\ \A k \in Key : dirty[k] = None \/ dirty[k].out = None \/ Source(k, dirty[k].out)
BY HeldIsKnown DEF Typed, TypeOK, DirtyEntry

\* Advancing a compaction keeps the sequence number it covers.
LEMMA AdvanceFacts ==
    ASSUME Typed, NEW step \in {"snapshot", "batch", "markers", "final"},
           NEW expected \in [Key -> Outcome \cup {None}], Advance(step, expected)
    PROVE  /\ compaction' \in Compaction /\ compaction'.step = step
           /\ compaction'.covered = compaction.covered /\ compaction'.expected = expected
<1>1. compaction \in Compaction
  BY DEF Typed, TypeOK, Compaction
<1> QED
  BY <1>1 DEF Advance, Compaction

\* Ending a compaction leaves no step of it behind.
LEMMA EndFacts ==
    ASSUME Typed, NEW b \in BOOLEAN, EndCompaction(b)
    PROVE  compaction' \in Compaction /\ CompactionMoves /\ blocked' \in BOOLEAN
BY CompactionFacts DEF EndCompaction

\* The flush of a compaction only moves outcomes to their sidecars.
LEMMA CompactFlushQuiet ==
    ASSUME IInv, CompactFlush
    PROVE  Quiet /\ QuietAgreement
<1> USE DEF IInv
<1> DEFINE due == {k \in Key : /\ TerminalsOf(k) # {}
                               /\ SequenceAt(Latest(TerminalsOf(k))) <= compaction.covered}
           expected == [k \in Key |-> IF k \in due THEN journal[Latest(TerminalsOf(k))].out ELSE None]
           keys == {k \in DirtyKeys : dirty[k].seq <= compaction.covered}
<1>1. /\ UNCHANGED <<journal, cut, dropped, torn, snapshot, baseline, mode, pc, pending, hot,
                     recovered, effects, orphaned, answers, crashes>>
      /\ compaction.step = "flush" /\ FlushFrom(dirty, keys)
      /\ EndCompaction(TRUE) \/ (Advance("snapshot", expected) /\ UNCHANGED blocked)
  BY DEF CompactFlush, Flush, history
<1>2. keys \in SUBSET {k \in Key : dirty[k] # None}
  BY DEF DirtyKeys
<1>3. /\ sidecar' \in [Key -> Outcome \cup {None}] /\ dirty' \in [Key -> DirtyEntry \cup {None}]
      /\ faults' \in 0..MaxFaults /\ SidecarKept
      /\ \A k \in Key : dirty'[k] = None \/ dirty'[k] = dirty[k]
      /\ \A k \in Key : sidecar'[k] = None \/ Source(k, sidecar'[k])
  <2> HIDE DEF keys
  <2> QED
    BY <1>1, <1>2, DirtyTyped, FlushFacts, FlushNews
<1>4. expected \in [Key -> Outcome \cup {None}]
  <2>1. ASSUME NEW k \in due PROVE journal[Latest(TerminalsOf(k))].out \in Outcome
    <3>1. TerminalsOf(k) \subseteq 1..Len(journal) /\ Len(journal) \in Nat
      BY DEF TerminalsOf, EventsOf, Typed, TypeOK
    <3>2. Latest(TerminalsOf(k)) \in TerminalsOf(k)
      BY <3>1, LatestFact
    <3> QED
      BY <3>1, <3>2, OutcomeFacts DEF TerminalsOf, Typed, Written
  <2> HIDE DEF due
  <2> QED
    BY <2>1
<1>5. compaction' \in Compaction /\ CompactionMoves /\ blocked' \in BOOLEAN
  <2> HIDE DEF expected
  <2>1. CASE EndCompaction(TRUE)
    BY <2>1, EndFacts
  <2>2. CASE Advance("snapshot", expected) /\ UNCHANGED blocked
    BY <1>1, <1>4, <2>2, AdvanceFacts DEF CompactionMoves, Compacting, Typed, TypeOK
  <2> QED
    BY <1>1, <2>1, <2>2
<1> HIDE DEF expected, keys
<1> QED
  BY <1>1, <1>3, <1>5, BackgroundQuiet

\* The batch and the end of a compaction change no outcome.
LEMMA CompactBatchQuiet ==
    ASSUME IInv, CompactBatch \/ CompactEnd
    PROVE  Quiet /\ QuietAgreement
<1> USE DEF IInv
<1>1. /\ UNCHANGED <<journal, cut, dropped, torn, snapshot, sidecar, dirty, baseline, mode, pc, pending, hot,
                     recovered, effects, orphaned, answers, crashes, faults>>
      /\ \/ EndCompaction(TRUE) \/ EndCompaction(Aborts(dirty))
         \/ /\ compaction.step = "batch" /\ Advance("markers", compaction.expected)
            /\ UNCHANGED blocked
  BY DEF CompactBatch, CompactEnd, files, history, bounds
<1>2. compaction' \in Compaction /\ CompactionMoves /\ blocked' \in BOOLEAN
  <2>1. CASE EndCompaction(TRUE)
    BY <2>1, EndFacts
  <2>2. CASE EndCompaction(Aborts(dirty))
    <3>1. Aborts(dirty) \in BOOLEAN
      BY DEF Aborts
    <3> QED
      BY <2>2, <3>1, EndFacts
  <2>3. CASE compaction.step = "batch" /\ Advance("markers", compaction.expected) /\ UNCHANGED blocked
    <3>1. compaction.expected \in [Key -> Outcome \cup {None}] /\ blocked \in BOOLEAN
      BY DEF Typed, TypeOK
    <3> QED
      BY <2>3, <3>1, AdvanceFacts DEF CompactionMoves, Compacting
  <2> QED
    BY <1>1, <2>1, <2>2, <2>3
<1>3. /\ sidecar \in [Key -> Outcome \cup {None}] /\ dirty \in [Key -> DirtyEntry \cup {None}]
      /\ faults \in 0..MaxFaults
  BY DirtyTyped DEF Typed, TypeOK
<1> QED
  BY <1>1, <1>2, <1>3, BackgroundQuiet, HeldIsKnown DEF SidecarKept

\* A "compacted" marker replaces only the sidecar of an answered key.
LEMMA MarkCompactedQuiet ==
    ASSUME IInv, NEW k \in Key, MarkCompacted(k)
    PROVE  Quiet /\ QuietAgreement
<1> USE DEF IInv
<1> DEFINE expected == [compaction.expected EXCEPT ![k] = None]
<1>1. /\ UNCHANGED <<journal, cut, dropped, torn, snapshot, dirty, baseline, mode, pc, pending, hot,
                     blocked, recovered, effects, orphaned, answers, crashes>>
      /\ compaction.step = "markers" /\ compaction.expected[k] # None
      /\ \/ UNCHANGED sidecar
         \/ sidecar[k] = compaction.expected[k] /\ sidecar' = [sidecar EXCEPT ![k] = "compacted"]
      /\ Advance("markers", expected) \/ compaction' = [Invalidated EXCEPT !.expected = expected]
      /\ Fault \/ NoFault
  BY DEF MarkCompacted, history
<1>2. expected \in [Key -> Outcome \cup {None}] /\ compaction \in Compaction
  BY DEF Typed, TypeOK, Compaction
<1>3. compaction' \in Compaction /\ CompactionMoves
  <2> HIDE DEF expected
  <2>1. CASE Advance("markers", expected)
    BY <1>1, <1>2, <2>1, AdvanceFacts DEF CompactionMoves, Compacting
  <2>2. CASE compaction' = [Invalidated EXCEPT !.expected = expected]
    <3>1. Invalidated \in Compaction /\ Invalidated.step = "markers"
          /\ Invalidated.covered = compaction.covered
      BY <1>1, <1>2 DEF Invalidated, Compaction
    <3>2. /\ compaction' \in Compaction /\ compaction'.step = "markers"
          /\ compaction'.covered = compaction.covered
      BY <1>2, <2>2, <3>1 DEF Compaction
    <3> QED
      BY <1>1, <3>2 DEF CompactionMoves, Compacting
  <2> QED
    BY <1>1, <2>1, <2>2
<1>4. sidecar \in [Key -> Outcome \cup {None}] /\ blocked \in BOOLEAN
  BY DEF Typed, TypeOK
<1>5. sidecar' \in [Key -> Outcome \cup {None}] /\ SidecarKept
  BY <1>1, <1>4, OutcomeFacts DEF SidecarKept, Outcome
<1>6. \A j \in Key : sidecar'[j] = None \/ Source(j, sidecar'[j])
  <2> TAKE j \in Key
  <2>1. CASE sidecar'[j] = sidecar[j]
    BY <2>1, HeldIsKnown
  <2>2. CASE j = k /\ sidecar'[j] = "compacted" /\ sidecar[k] # None
    <3>1. sidecar[k] \in Outcome /\ Known(k, sidecar[k])
      BY <1>4, <2>2 DEF Known
    <3> QED
      BY <2>2, <3>1 DEF Source
  <2> QED
    BY <1>1, <1>4, <2>1, <2>2
<1> QED
  BY <1>1, <1>3, <1>4, <1>5, <1>6, DirtyTyped, FaultType, BackgroundQuiet

\* Gates before a fresh execution: nothing is learnt, calls move on or fail.
LEMMA GateQuiet ==
    ASSUME IInv, NEW a \in Attempt, mode = "up", pc[a] \in {"ready", "await", "reserve"},
           UNCHANGED <<journal, cut, dropped, torn, snapshot, baseline, mode, hot, recovered, effects,
                       orphaned, crashes>>,
           \/ Settle(a, "failed", None)
           \/ /\ UNCHANGED <<pending, answers>>
              /\ \E next \in {"await", "reserve", "request"} : pc' = [pc EXCEPT ![a] = next],
           faults' \in 0..MaxFaults, SidecarKept,
           sidecar' \in [Key -> Outcome \cup {None}], dirty' \in [Key -> DirtyEntry \cup {None}],
           \A k \in Key : dirty'[k] = None \/ dirty'[k] = dirty[k],
           \A k \in Key : sidecar'[k] = None \/ Source(k, sidecar'[k]),
           compaction' \in Compaction, CompactionMoves, blocked' \in BOOLEAN
    PROVE  Quiet /\ QuietAgreement
<1> USE DEF IInv
<1>1. /\ pc' \in [Attempt -> Progresses] /\ pending' \in [Key -> Attempt \cup {None}]
      /\ answers' = answers
      /\ \A b \in Attempt : /\ CallMoves(b)
                            /\ pc'[b] = "effect" => pc[b] = "effect"
                            /\ \/ pc'[b] = pc[b] \/ pc'[b] \in Answered
                               \/ pc'[b] \in Fresh /\ pc[b] \in Fresh
  <2>1. CASE Settle(a, "failed", None)
    <3>1. pc[a] \in Owning \ Begun
      BY DEF Owning, Begun, Executing
    <3> QED
      BY <2>1, <3>1, SettleFacts, SettleQuiet
  <2>2. CASE /\ UNCHANGED <<pending, answers>>
             /\ \E next \in {"await", "reserve", "request"} : pc' = [pc EXCEPT ![a] = next]
    <3>1. PICK next \in {"await", "reserve", "request"} : pc' = [pc EXCEPT ![a] = next]
      BY <2>2
    <3>2. pc \in [Attempt -> Progresses] /\ pending \in [Key -> Attempt \cup {None}]
      BY DEF Typed, TypeOK, Progresses
    <3>3. /\ pc' \in [Attempt -> Progresses] /\ pc'[a] = next
          /\ \A b \in Attempt : b # a => pc'[b] = pc[b]
      BY <3>1, <3>2 DEF Progresses, Executing
    <3>4. \A b \in Attempt : pc'[b] \in Owning => pc[b] \in Owning /\ pending[KeyOf[b]] = b
      <4> TAKE b \in Attempt
      <4>1. pc'[b] \in Owning => pc[b] \in Owning
        BY <3>3 DEF Owning, Executing
      <4> QED
        BY <4>1 DEF Progress
    <3>5. \A b \in Attempt : CallMoves(b)
      BY <2>2, <3>3, <3>4 DEF CallMoves, Early, Begun
    <3>6. \A b \in Attempt : /\ pc'[b] = "effect" => pc[b] = "effect"
                             /\ pc'[b] = pc[b] \/ (pc'[b] \in Fresh /\ pc[b] \in Fresh)
      BY <3>3 DEF Fresh
    <3> QED
      BY <2>2, <3>2, <3>3, <3>5, <3>6
  <2> QED
    BY <2>1, <2>2
<1>2. Typed'
  BY <1>1, QuietTyped DEF Typed, TypeOK
<1>3. \A j \in Key : /\ Seen(j)' => Seen(j) \/ Strong(j)'
                     /\ \A o \in Outcome : Known(j, o)' => Source(j, o)
  <2> TAKE j \in Key
  <2>1. dirty'[j] # None => dirty[j] # None /\ dirty'[j] = dirty[j]
    OBVIOUS
  <2>2. Seen(j)' => Seen(j) \/ Strong(j)'
    BY <1>1, <2>1, SeenFacts, HeldIsKnown
  <2>3. \A o \in Outcome : Known(j, o)' => Source(j, o)
    BY <1>1, <2>1, NewsFacts, HeldIsKnown
  <2> QED
    BY <2>2, <2>3
<1>4. ModeMoves
  BY DEF ModeMoves
<1>5. QuietAgreement
  BY <1>1, <1>3 DEF QuietAgreement, Answered, Fresh
<1> QED
  BY <1>1, <1>2, <1>3, <1>4, <1>5 DEF Quiet, QuietStep, FilesStep, HistoryStep

\* The durability gate lets a call on or fails it.
LEMMA PassDurabilityGateQuiet ==
    ASSUME IInv, NEW a \in Attempt, PassDurabilityGate(a)
    PROVE  Quiet /\ QuietAgreement
<1> USE DEF IInv
<1>1. /\ UNCHANGED <<journal, cut, dropped, torn, snapshot, sidecar, baseline, mode, hot, dirty, recovered,
                     effects, orphaned, crashes, faults>>
      /\ mode = "up" /\ pc[a] \in {"ready", "await", "reserve"}
      /\ UNCHANGED <<compaction, blocked>> \/ BeginCompaction
  BY DEF PassDurabilityGate, files, bounds
<1>2. \/ Settle(a, "failed", None)
      \/ /\ UNCHANGED <<pending, answers>>
         /\ \E next \in {"await", "reserve", "request"} : pc' = [pc EXCEPT ![a] = next]
  BY DEF PassDurabilityGate
<1>3. compaction' \in Compaction /\ CompactionMoves /\ blocked' \in BOOLEAN
  BY <1>1, CompactionFacts, BlockedType
<1>4. faults' \in 0..MaxFaults /\ sidecar' \in [Key -> Outcome \cup {None}]
      /\ dirty' \in [Key -> DirtyEntry \cup {None}]
  BY <1>1, DirtyTyped DEF Typed, TypeOK
<1>5. SidecarKept /\ \A k \in Key : sidecar'[k] = None \/ Source(k, sidecar'[k])
  BY <1>1, HeldIsKnown DEF SidecarKept
<1> QED
  BY <1>1, <1>2, <1>3, <1>4, <1>5, GateQuiet

\* Reserving a dirty slot lets a call on or fails it.
LEMMA ReserveQuiet ==
    ASSUME IInv, NEW a \in Attempt, Reserve(a)
    PROVE  Quiet /\ QuietAgreement
<1> USE DEF IInv
<1>1. /\ UNCHANGED <<journal, cut, dropped, torn, snapshot, baseline, mode, hot, compaction, blocked, recovered,
                     effects, orphaned, crashes>>
      /\ mode = "up" /\ pc[a] \in {"ready", "await", "reserve"}
      /\ UNCHANGED <<sidecar, dirty, faults>> \/ FlushFrom(dirty, DirtyKeys)
  BY DEF Reserve, Flush
<1>2. \/ Settle(a, "failed", None)
      \/ /\ UNCHANGED <<pending, answers>>
         /\ \E next \in {"await", "reserve", "request"} : pc' = [pc EXCEPT ![a] = next]
  BY DEF Reserve
<1>3. compaction' \in Compaction /\ CompactionMoves /\ blocked' \in BOOLEAN
  BY <1>1, CompactionFacts, BlockedType
<1>4. /\ faults' \in 0..MaxFaults /\ SidecarKept
      /\ sidecar' \in [Key -> Outcome \cup {None}] /\ dirty' \in [Key -> DirtyEntry \cup {None}]
      /\ \A k \in Key : dirty'[k] = None \/ dirty'[k] = dirty[k]
      /\ \A k \in Key : sidecar'[k] = None \/ Source(k, sidecar'[k])
  <2>1. CASE UNCHANGED <<sidecar, dirty, faults>>
    BY <2>1, DirtyTyped, HeldIsKnown DEF Typed, TypeOK, SidecarKept
  <2>2. CASE FlushFrom(dirty, DirtyKeys)
    <3>1. DirtyKeys \in SUBSET {k \in Key : dirty[k] # None}
      BY DEF DirtyKeys
    <3> QED
      BY <2>2, <3>1, DirtyTyped, FlushFacts, FlushNews
  <2> QED
    BY <1>1, <2>1, <2>2
<1> QED
  BY <1>1, <1>2, <1>3, <1>4, GateQuiet

\* A sidecar written after the terminal event records that event's outcome.
LEMMA PersistOutcomeQuiet ==
    ASSUME IInv, NEW a \in Attempt, PersistOutcome(a)
    PROVE  Quiet /\ QuietAgreement
<1> USE DEF IInv
<1> DEFINE k == KeyOf[a]
<1>1. /\ UNCHANGED <<journal, cut, dropped, torn, snapshot, baseline, mode, hot, recovered, effects,
                     orphaned, crashes>>
      /\ mode = "up" /\ pc[a] = "persist" /\ k \in Key /\ pc[a] \in Owning \ Begun
      /\ Fault \/ NoFault
      /\ sidecar' \in {sidecar, [sidecar EXCEPT ![k] = a]}
      /\ dirty' \in {dirty, [dirty EXCEPT ![k] = None]}
      /\ UNCHANGED <<compaction, blocked>> \/ BeginCompaction
      /\ Settle(a, "answered", a)
  BY DEF PersistOutcome, Owning, Begun, Executing
<1>2. a \in Outcome /\ a # None /\ Source(k, a)
  BY <1>1, OutcomeFacts DEF Source
<1>3. /\ sidecar' \in [Key -> Outcome \cup {None}]
      /\ \A j \in Key : sidecar'[j] = sidecar[j] \/ (j = k /\ sidecar'[j] = a)
  <2>1. sidecar \in [Key -> Outcome \cup {None}]
    BY DEF Typed, TypeOK
  <2>2. CASE sidecar' = sidecar
    BY <2>1, <2>2
  <2>3. CASE sidecar' = [sidecar EXCEPT ![k] = a]
    BY <1>1, <1>2, <2>1, <2>3
  <2> QED
    BY <1>1, <2>2, <2>3
<1>4. /\ dirty' \in [Key -> DirtyEntry \cup {None}]
      /\ \A j \in Key : dirty'[j] = None \/ dirty'[j] = dirty[j]
  BY <1>1, DirtyTyped
<1>5. /\ pc' \in [Attempt -> Progresses] /\ pending' \in [Key -> Attempt \cup {None}]
      /\ answers' \in [Key -> SUBSET Outcome] /\ answers' = [answers EXCEPT ![k] = @ \cup {a}]
  BY <1>1, <1>2, SettleFacts
<1>6. /\ \A b \in Attempt : /\ CallMoves(b)
                            /\ pc'[b] = pc[b] \/ pc'[b] \in Answered
                            /\ pc'[b] = "effect" => pc[b] = "effect"
      /\ \A j \in Key : answers'[j] = answers[j] \/ (j = k /\ answers'[j] = answers[j] \cup {a})
  BY <1>1, <1>2, SettleQuiet
<1>7. compaction' \in Compaction /\ CompactionMoves /\ blocked' \in BOOLEAN /\ ModeMoves
  BY <1>1, CompactionFacts, BlockedType DEF ModeMoves
<1>8. Typed'
  BY <1>1, <1>3, <1>4, <1>5, <1>7, FaultType, QuietTyped DEF Typed, TypeOK
<1>9. Seen(k)
  BY <1>1 DEF Agreed, Seen
<1>10. \A j \in Key : /\ Seen(j)' => Seen(j) \/ Strong(j)'
                      /\ \A o \in Outcome : Known(j, o)' => Source(j, o)
  <2> TAKE j \in Key
  <2>1. answers'[j] # {} \/ hot'[j] # None \/ dirty'[j] # None => Seen(j)
    BY <1>1, <1>4, <1>6, <1>9, HeldIsKnown
  <2>2. Seen(j)' => Seen(j) \/ Strong(j)'
    BY <1>1, <1>6, <2>1, SeenFacts
  <2>3. /\ sidecar'[j] = None \/ Source(j, sidecar'[j])
        /\ \A o \in answers'[j] : Source(j, o)
        /\ dirty'[j] = None \/ Source(j, dirty'[j].out)
    BY <1>2, <1>3, <1>4, <1>6, HeldIsKnown
  <2>4. \A o \in Outcome : Known(j, o)' => Source(j, o)
    BY <1>1, <2>3, NewsFacts, HeldIsKnown
  <2> QED
    BY <2>2, <2>4
<1>11. SidecarKept
  BY <1>2, <1>3 DEF SidecarKept
<1>12. HistoryStep
  BY <1>1, <1>2, <1>5 DEF HistoryStep
<1> QED
  BY <1>1, <1>6, <1>7, <1>8, <1>10, <1>11, <1>12 DEF Quiet, QuietStep, FilesStep, QuietAgreement, Answered, Fresh

\* A lookup that ends: with an answer that is known, or with an error.
LEMMA AnswerQuiet ==
    ASSUME IInv, NEW a \in Attempt, mode = "up", pc[a] \in Owning \ Begun,
           NEW result \in {"answered", "failed"}, NEW o, Settle(a, result, o),
           result = "answered" => o \in Outcome /\ Source(KeyOf[a], o),
           Seen(KeyOf[a]),
           UNCHANGED <<journal, cut, dropped, torn, snapshot, sidecar, baseline, mode, blocked, recovered,
                       effects, orphaned, crashes>>,
           hot' \in [Key -> Outcome \cup {None}], dirty' \in [Key -> DirtyEntry \cup {None}],
           \A j \in Key \ {KeyOf[a]} : hot'[j] = hot[j] /\ dirty'[j] = dirty[j],
           hot'[KeyOf[a]] = None \/ Source(KeyOf[a], hot'[KeyOf[a]]),
           \/ dirty'[KeyOf[a]] = None \/ dirty'[KeyOf[a]].out = None
           \/ Source(KeyOf[a], dirty'[KeyOf[a]].out),
           compaction' \in Compaction, CompactionMoves, faults' \in 0..MaxFaults
    PROVE  Quiet /\ QuietAgreement
<1> USE DEF IInv
<1> DEFINE k == KeyOf[a]
<1>1. /\ pc' \in [Attempt -> Progresses] /\ pending' \in [Key -> Attempt \cup {None}]
      /\ answers' \in [Key -> SUBSET Outcome]
      /\ answers' = IF result = "answered" THEN [answers EXCEPT ![k] = @ \cup {o}] ELSE answers
  BY SettleFacts
<1>2. /\ \A b \in Attempt : /\ CallMoves(b)
                            /\ pc'[b] = pc[b] \/ pc'[b] \in Answered
                            /\ pc'[b] = "effect" => pc[b] = "effect"
      /\ \A j \in Key : answers'[j] = answers[j]
                       \/ (j = k /\ result = "answered" /\ answers'[j] = answers[j] \cup {o})
  BY SettleQuiet
<1>3. Typed'
  BY <1>1, QuietTyped DEF Typed, TypeOK
<1>4. \A j \in Key : /\ Seen(j)' => Seen(j) \/ Strong(j)'
                     /\ \A p \in Outcome : Known(j, p)' => Source(j, p)
  <2> TAKE j \in Key
  <2>1. answers'[j] # {} \/ hot'[j] # None \/ dirty'[j] # None => Seen(j)
    BY <1>2, HeldIsKnown
  <2>2. Seen(j)' => Seen(j) \/ Strong(j)'
    BY <1>2, <2>1, SeenFacts
  <2>3. /\ hot'[j] = None \/ Source(j, hot'[j])
        /\ sidecar'[j] = None \/ Source(j, sidecar'[j])
        /\ \A p \in answers'[j] : Source(j, p)
        /\ dirty'[j] = None \/ dirty'[j].out = None \/ Source(j, dirty'[j].out)
    BY <1>2, HeldIsKnown
  <2>4. \A p \in Outcome : Known(j, p)' => Source(j, p)
    BY <2>3, NewsFacts
  <2> QED
    BY <2>2, <2>4
<1>5. SidecarKept /\ ModeMoves
  BY DEF SidecarKept, ModeMoves
<1>6. HistoryStep
  BY <1>1, OutcomeFacts DEF HistoryStep
<1> QED
  BY <1>2, <1>3, <1>4, <1>5, <1>6 DEF Quiet, QuietStep, FilesStep, QuietAgreement, Answered, Fresh

\* A lookup in the log answers what the log says.
LEMMA LookupRetainedQuiet ==
    ASSUME IInv, NEW a \in Attempt, LookupRetained(a)
    PROVE  Quiet /\ QuietAgreement
<1> USE DEF IInv
<1>1. PICK k \in Key : k = KeyOf[a]
  BY OutcomeFacts
<1>2. PICK event, seq : event = journal[Latest(EventsOf(k))] /\ seq = SequenceAt(Latest(EventsOf(k)))
  OBVIOUS
<1>3. PICK reconstructed : reconstructed = IF Reconstructible(event) THEN event.out ELSE None
  OBVIOUS
<1>4. /\ UNCHANGED <<journal, cut, dropped, torn, snapshot, sidecar, baseline, mode, blocked, recovered,
                     effects, orphaned, crashes>>
      /\ mode = "up" /\ pc[a] \in Owning \ Begun /\ EndsTerminal(k) /\ (Fault \/ NoFault)
  BY <1>1 DEF LookupRetained, files, Owning, Begun
<1>5. event.out \in Outcome /\ Source(k, event.out) /\ Seen(k) /\ seq \in Nat
  <2>1. EventsOf(k) # {} /\ EventsOf(k) \subseteq 1..Len(journal) /\ Len(journal) \in Nat
    BY <1>4, NumberFacts DEF EndsTerminal, EventsOf
  <2>2. PICK i \in 1..Len(journal) : i = Latest(EventsOf(k)) /\ i \in EventsOf(k)
    BY <2>1, LatestFact
  <2>3. PICK q \in Span : q = dropped + i /\ At(q) = journal[i] /\ q \in Nat
    BY <2>2, LogFacts
  <2>4. IsTerminal(At(q)) /\ KeyOf[At(q).tx] = k /\ event = At(q) /\ seq = q
    BY <1>2, <1>4, <2>2, <2>3 DEF EndsTerminal, EventsOf, IsTerminal, SequenceAt
  <2>5. event.out \in Exact
    BY <2>4, LogFacts DEF Written, IsTerminal
  <2>6. Known(k, event.out) /\ Seen(k)
    BY <2>4 DEF Known, Seen
  <2> QED
    BY <2>3, <2>4, <2>5, <2>6, OutcomeFacts DEF Source
<1>6. compaction' \in {compaction, Invalidated} => compaction' \in Compaction /\ CompactionMoves
  BY CompactionFacts
<1>7. /\ hot \in [Key -> Outcome \cup {None}] /\ sidecar \in [Key -> Outcome \cup {None}]
      /\ dirty \in [Key -> DirtyEntry \cup {None}] /\ faults' \in 0..MaxFaults
  BY <1>4, DirtyTyped, FaultType DEF Typed, TypeOK
<1>8. CASE /\ sidecar[k] # None /\ hot' = [hot EXCEPT ![k] = sidecar[k]]
           /\ dirty' = dirty \/ dirty' = [dirty EXCEPT ![k] = None]
           /\ Settle(a, "answered", sidecar[k]) /\ UNCHANGED compaction
  <2>1. sidecar[k] \in Outcome /\ Source(k, sidecar[k])
    BY <1>7, <1>8, HeldIsKnown
  <2>2. /\ hot' \in [Key -> Outcome \cup {None}] /\ hot'[k] = sidecar[k]
        /\ \A j \in Key \ {k} : hot'[j] = hot[j]
    BY <1>7, <1>8, <2>1
  <2>3. /\ dirty' \in [Key -> DirtyEntry \cup {None}] /\ (dirty'[k] = None \/ dirty'[k] = dirty[k])
        /\ \A j \in Key \ {k} : dirty'[j] = dirty[j]
    BY <1>7, <1>8
  <2> QED
    BY <1>1, <1>4, <1>5, <1>6, <1>7, <1>8, <2>1, <2>2, <2>3, AnswerQuiet, HeldIsKnown
<1>9. CASE compaction' = Invalidated /\ Settle(a, "failed", None) /\ UNCHANGED <<dirty, hot>>
  BY <1>1, <1>4, <1>5, <1>6, <1>7, <1>9, AnswerQuiet, HeldIsKnown
<1>10. CASE /\ compaction' = Invalidated
            /\ dirty' = [dirty EXCEPT ![k] = [seq |-> seq, out |-> reconstructed]]
            /\ \/ /\ reconstructed # None /\ hot' = [hot EXCEPT ![k] = reconstructed]
                  /\ Settle(a, "answered", reconstructed)
               \/ Settle(a, "failed", None) /\ UNCHANGED hot
  <2>1. reconstructed # None => reconstructed \in Outcome /\ Source(k, reconstructed)
    BY <1>3, <1>5
  <2>2. [seq |-> seq, out |-> reconstructed] \in DirtyEntry
    BY <1>5, <2>1 DEF DirtyEntry
  <2>3. /\ dirty' \in [Key -> DirtyEntry \cup {None}]
        /\ dirty'[k] = [seq |-> seq, out |-> reconstructed]
        /\ \A j \in Key \ {k} : dirty'[j] = dirty[j]
    BY <1>7, <1>10, <2>2
  <2>4. dirty'[k].out = None \/ Source(k, dirty'[k].out)
    BY <2>1, <2>3
  <2>5. CASE /\ reconstructed # None /\ hot' = [hot EXCEPT ![k] = reconstructed]
             /\ Settle(a, "answered", reconstructed)
    <3>1. /\ hot' \in [Key -> Outcome \cup {None}] /\ hot'[k] = reconstructed
          /\ \A j \in Key \ {k} : hot'[j] = hot[j]
      BY <1>7, <2>1, <2>5
    <3> QED
      BY <1>1, <1>4, <1>5, <1>6, <1>7, <1>10, <2>1, <2>3, <2>4, <2>5, <3>1, AnswerQuiet
  <2>6. CASE Settle(a, "failed", None) /\ UNCHANGED hot
    BY <1>1, <1>4, <1>5, <1>6, <1>7, <1>10, <2>3, <2>4, <2>6, AnswerQuiet, HeldIsKnown
  <2> QED
    BY <1>10, <2>5, <2>6
<1> QED
  BY <1>1, <1>2, <1>3, <1>8, <1>9, <1>10 DEF LookupRetained

\* Publishing what recovery decided tells nothing new.
LEMMA PublishRecoveredQuiet ==
    ASSUME IInv, PublishRecovered
    PROVE  Quiet /\ QuietAgreement
<1> USE DEF IInv
<1>1. PICK k, seq : k = KeyOf[Head(recovered).tx] /\ seq = Head(recovered).seq
  OBVIOUS
<1>2. /\ UNCHANGED <<journal, cut, dropped, baseline, torn, snapshot, effects, orphaned, answers, crashes>>
      /\ mode = "publish" /\ recovered # <<>> /\ (Fault \/ NoFault)
  BY DEF PublishRecovered, history
<1>3. k \in Key /\ Known(k, "unknown") /\ Seen(k) /\ seq \in Nat
  <2>1. recovered \in Seq([seq : Nat, tx : Attempt])
    BY DEF Typed, TypeOK
  <2>2. 1 \in 1..Len(recovered) /\ recovered[1] = Head(recovered) /\ Head(recovered) \in [seq : Nat, tx : Attempt]
    <3>1. Len(recovered) \in Nat /\ Len(recovered) # 0
      BY <1>2, <2>1
    <3>2. 1 \in 1..Len(recovered) /\ recovered[1] = Head(recovered)
      BY <2>1, <3>1
    <3>3. recovered[1] \in [seq : Nat, tx : Attempt]
      <4>1. PICK S : S = [seq : Nat, tx : Attempt]
        OBVIOUS
      <4>2. recovered \in Seq(S)
        BY <2>1, <4>1
      <4>3. recovered[1] \in S
        BY <3>2, <4>2
      <4> QED
        BY <4>1, <4>3
    <3> QED
      BY <3>2, <3>3
  <2> QED
    BY <1>1, <2>2 DEF Known, Seen
<1>4. CASE ForgetMemory /\ mode' = "down" /\ NoFault /\ UNCHANGED sidecar
  <2>1. UNCHANGED <<files, dropped, baseline, history>>
    BY <1>2, <1>4 DEF files, history
  <2>2. crashes' \in 0..MaxCrashes
    BY <1>2 DEF Typed, TypeOK
  <2> QED
    BY <1>2, <1>4, <2>1, <2>2, FaultType, ForgetQuiet
<1>5. CASE /\ sidecar' \in {sidecar, [sidecar EXCEPT ![k] = "unknown"]}
           /\ \/ dirty' = [dirty EXCEPT ![k] = None]
              \/ dirty' = [dirty EXCEPT ![k] = [seq |-> seq, out |-> "unknown"]]
           /\ recovered' = Tail(recovered)
           /\ hot' = [hot EXCEPT ![k] = "unknown"]
           /\ MaybeCompact
           /\ UNCHANGED <<mode, pc, pending>>
  <2>0. "unknown" \in Outcome /\ "unknown" # None /\ Source(k, "unknown")
    BY <1>3, OutcomeFacts DEF Source, Outcome
  <2>1. /\ hot \in [Key -> Outcome \cup {None}] /\ sidecar \in [Key -> Outcome \cup {None}]
        /\ dirty \in [Key -> DirtyEntry \cup {None}] /\ faults' \in 0..MaxFaults
        /\ recovered \in Seq([seq : Nat, tx : Attempt])
    BY <1>2, DirtyTyped, FaultType DEF Typed, TypeOK
  <2>2. /\ hot' \in [Key -> Outcome \cup {None}]
        /\ \A j \in Key : hot'[j] = hot[j] \/ (j = k /\ hot'[j] = "unknown")
    BY <1>3, <1>5, <2>0, <2>1
  <2>3. /\ sidecar' \in [Key -> Outcome \cup {None}]
        /\ \A j \in Key : sidecar'[j] = sidecar[j] \/ (j = k /\ sidecar'[j] = "unknown")
    <3>1. CASE sidecar' = sidecar
      BY <2>1, <3>1
    <3>2. CASE sidecar' = [sidecar EXCEPT ![k] = "unknown"]
      BY <1>3, <2>0, <2>1, <3>2
    <3> QED
      BY <1>5, <3>1, <3>2
  <2>4. [seq |-> seq, out |-> "unknown"] \in DirtyEntry
    BY <1>3, <2>0 DEF DirtyEntry
  <2>5. /\ dirty' \in [Key -> DirtyEntry \cup {None}]
        /\ \A j \in Key : \/ dirty'[j] = dirty[j] \/ dirty'[j] = None
                          \/ j = k /\ dirty'[j].out = "unknown"
    BY <1>3, <1>5, <2>1, <2>4
  <2>6. recovered' \in Seq([seq : Nat, tx : Attempt])
    BY <1>2, <1>5, <2>1
  <2>7. compaction' \in Compaction /\ CompactionMoves /\ blocked' \in BOOLEAN /\ ModeMoves
    BY <1>5, CompactionFacts, BlockedType DEF ModeMoves
  <2>8. Typed'
    BY <1>2, <1>5, <2>1, <2>2, <2>3, <2>5, <2>6, <2>7, QuietTyped DEF Typed, TypeOK, Progresses
  <2>9. \A b \in Attempt : CallMoves(b)
    BY <1>5 DEF CallMoves, Progress
  <2>10. \A j \in Key : /\ Seen(j)' => Seen(j) \/ Strong(j)'
                        /\ \A o \in Outcome : Known(j, o)' => Source(j, o)
    <3> TAKE j \in Key
    <3>1. answers'[j] # {} \/ hot'[j] # None \/ dirty'[j] # None => Seen(j)
      BY <1>2, <1>3, <2>2, <2>5, HeldIsKnown
    <3>2. Seen(j)' => Seen(j) \/ Strong(j)'
      BY <1>2, <1>5, <3>1, SeenFacts
    <3>3. /\ hot'[j] = None \/ Source(j, hot'[j])
          /\ sidecar'[j] = None \/ Source(j, sidecar'[j])
          /\ \A o \in answers'[j] : Source(j, o)
          /\ dirty'[j] = None \/ dirty'[j].out = None \/ Source(j, dirty'[j].out)
      BY <1>2, <2>0, <2>2, <2>3, <2>5, HeldIsKnown
    <3>4. \A o \in Outcome : Known(j, o)' => Source(j, o)
      BY <1>2, <1>5, <3>3, NewsFacts
    <3> QED
      BY <3>2, <3>4
  <2>11. SidecarKept
    BY <2>0, <2>3 DEF SidecarKept
  <2> QED
    BY <1>2, <1>5, <2>7, <2>8, <2>9, <2>10, <2>11 DEF Quiet, QuietStep, FilesStep, HistoryStep, QuietAgreement
<1> QED
  <2>1. ASSUME ~(ForgetMemory /\ mode' = "down" /\ NoFault /\ UNCHANGED sidecar)
        PROVE  /\ sidecar' \in {sidecar, [sidecar EXCEPT ![k] = "unknown"]}
               /\ \/ dirty' = [dirty EXCEPT ![k] = None]
                  \/ dirty' = [dirty EXCEPT ![k] = [seq |-> seq, out |-> "unknown"]]
               /\ recovered' = Tail(recovered)
               /\ hot' = [hot EXCEPT ![k] = "unknown"]
               /\ MaybeCompact
               /\ UNCHANGED <<mode, pc, pending>>
    BY <1>1, <2>1 DEF PublishRecovered
  <2> QED
    BY <1>4, <1>5, <2>1

\* Restoring the hot outcomes at start tells nothing new.
LEMMA RestoreQuiet ==
    ASSUME IInv, Restore
    PROVE  Quiet /\ QuietAgreement
<1> USE DEF IInv
<1> DEFINE tail(k) == {i \in TerminalsOf(k) : SequenceAt(i) > baseline}
           keys == {k \in Key : tail(k) # {}}
           event(k) == journal[Latest(tail(k))]
           missing == {k \in keys : sidecar[k] = None}
           restored == [k \in Key |->
                          IF k \in missing
                          THEN [seq |-> SequenceAt(Latest(tail(k))), out |-> event(k).out]
                          ELSE IF k \in keys THEN None ELSE dirty[k]]
           revived == [k \in Key |-> IF k \in missing THEN event(k).out
                                     ELSE IF k \in keys THEN sidecar[k] ELSE hot[k]]
<1>1. /\ UNCHANGED <<journal, cut, dropped, baseline, torn, snapshot, effects, orphaned, answers, crashes>>
      /\ mode = "publish"
      /\ \/ ForgetMemory /\ mode' = "broken" /\ NoFault /\ UNCHANGED sidecar
         \/ /\ mode' = "up" /\ hot' = revived
            /\ compaction' \in {compaction, Invalidated}
            /\ FlushFrom(restored, {k \in Key : restored[k] # None})
            /\ UNCHANGED <<pc, pending, blocked, recovered>>
  BY DEF Restore, history
<1>2. CASE ForgetMemory /\ mode' = "broken" /\ NoFault /\ UNCHANGED sidecar
  <2>1. UNCHANGED <<files, dropped, baseline, history>>
    BY <1>1, <1>2 DEF files, history
  <2>2. crashes' \in 0..MaxCrashes
    BY <1>1 DEF Typed, TypeOK
  <2> QED
    BY <1>2, <2>1, <2>2, FaultType, ForgetQuiet
<1>3. ASSUME NEW k \in keys
      PROVE  /\ event(k).out \in Outcome /\ Known(k, event(k).out) /\ Seen(k)
             /\ SequenceAt(Latest(tail(k))) \in Nat
  <2>1. tail(k) # {} /\ tail(k) \subseteq 1..Len(journal) /\ Len(journal) \in Nat
    BY NumberFacts DEF TerminalsOf, EventsOf
  <2>2. PICK i \in 1..Len(journal) : i = Latest(tail(k)) /\ i \in TerminalsOf(k)
    <3> HIDE DEF tail
    <3>1. Latest(tail(k)) \in tail(k)
      BY <2>1, LatestFact
    <3> QED
      BY <2>1, <3>1 DEF tail
  <2>3. PICK q \in Span : q = dropped + i /\ At(q) = journal[i] /\ q \in Nat
    BY <2>2, LogFacts
  <2>4. IsTerminal(At(q)) /\ KeyOf[At(q).tx] = k /\ event(k) = At(q) /\ SequenceAt(Latest(tail(k))) = q
    BY <2>2, <2>3 DEF TerminalsOf, EventsOf, IsTerminal, SequenceAt
  <2>5. event(k).out \in Exact
    BY <2>4, LogFacts DEF Written, IsTerminal
  <2>6. Known(k, event(k).out) /\ Seen(k)
    BY <2>4 DEF Known, Seen
  <2> QED
    BY <2>3, <2>4, <2>5, <2>6, OutcomeFacts
<1> HIDE DEF tail, keys, event
<1>4. CASE /\ mode' = "up" /\ hot' = revived
           /\ compaction' \in {compaction, Invalidated}
           /\ FlushFrom(restored, {k \in Key : restored[k] # None})
           /\ UNCHANGED <<pc, pending, blocked, recovered>>
  <2>1. /\ hot \in [Key -> Outcome \cup {None}] /\ sidecar \in [Key -> Outcome \cup {None}]
        /\ dirty \in [Key -> DirtyEntry \cup {None}]
    BY DirtyTyped DEF Typed, TypeOK
  <2>2. restored \in [Key -> DirtyEntry \cup {None}]
    BY <1>3, <2>1 DEF DirtyEntry
  <2>3. \A k \in Key : \/ restored[k] = None
                       \/ (restored[k].out = None \/ Source(k, restored[k].out)) /\ Seen(k)
    <3> TAKE k \in Key
    <3>1. CASE k \in missing
      <4>1. restored[k].out = event(k).out
        BY <3>1
      <4> QED
        BY <1>3, <3>1, <4>1 DEF Source
    <3>2. CASE k \in keys \ missing
      BY <3>2
    <3>3. CASE k \notin keys
      <4>1. restored[k] = dirty[k]
        BY <3>3
      <4> QED
        BY <4>1, HeldIsKnown
    <3> QED
      BY <3>1, <3>2, <3>3
  <2>4. /\ hot' \in [Key -> Outcome \cup {None}]
        /\ \A k \in Key : hot'[k] = None \/ (Source(k, hot'[k]) /\ (Seen(k) \/ sidecar[k] # None))
    <3>1. \A k \in Key : hot'[k] \in Outcome \cup {None}
      BY <1>3, <1>4, <2>1
    <3>2. ASSUME NEW k \in Key
          PROVE  hot'[k] = None \/ (Source(k, hot'[k]) /\ (Seen(k) \/ sidecar[k] # None))
      BY <1>3, <1>4, HeldIsKnown DEF Source
    <3> QED
      BY <1>4, <3>1, <3>2
  <2> HIDE DEF restored, revived
  <2>5. /\ sidecar' \in [Key -> Outcome \cup {None}] /\ dirty' \in [Key -> DirtyEntry \cup {None}]
        /\ faults' \in 0..MaxFaults /\ SidecarKept
        /\ \A k \in Key : dirty'[k] = None \/ dirty'[k] = restored[k]
        /\ \A k \in Key : sidecar'[k] = None \/ Source(k, sidecar'[k])
    <3>1. \A k \in Key : restored[k] = None \/ restored[k].out = None \/ Source(k, restored[k].out)
      BY <2>3
    <3> QED
      BY <1>4, <2>2, <3>1, FlushFacts, FlushNews
  <2>6. compaction' \in Compaction /\ CompactionMoves /\ ModeMoves
    BY <1>1, <1>4, CompactionFacts DEF ModeMoves, Serving
  <2>7. Typed'
    BY <1>1, <1>4, <2>4, <2>5, <2>6, QuietTyped DEF Typed, TypeOK, Progresses
  <2>8. \A b \in Attempt : CallMoves(b)
    BY <1>1, <1>4 DEF CallMoves, Progress
  <2>9. \A j \in Key : /\ Seen(j)' => Seen(j) \/ Strong(j)'
                       /\ \A o \in Outcome : Known(j, o)' => Source(j, o)
    <3> TAKE j \in Key
    <3>1. sidecar[j] # None => Strong(j)'
      BY <2>5 DEF Strong, SidecarKept
    <3>2. answers'[j] # {} \/ hot'[j] # None \/ dirty'[j] # None => Seen(j) \/ Strong(j)'
      BY <1>1, <2>3, <2>4, <2>5, <3>1, HeldIsKnown
    <3>3. Seen(j)' => Seen(j) \/ Strong(j)'
      BY <1>1, <1>4, <3>2, SeenFacts
    <3>4. /\ hot'[j] = None \/ Source(j, hot'[j])
          /\ sidecar'[j] = None \/ Source(j, sidecar'[j])
          /\ \A o \in answers'[j] : Source(j, o)
          /\ dirty'[j] = None \/ dirty'[j].out = None \/ Source(j, dirty'[j].out)
      BY <1>1, <2>3, <2>4, <2>5, HeldIsKnown
    <3>5. \A o \in Outcome : Known(j, o)' => Source(j, o)
      BY <1>1, <1>4, <3>4, NewsFacts
    <3> QED
      BY <3>3, <3>5
  <2> QED
    BY <1>1, <1>4, <2>5, <2>6, <2>7, <2>8, <2>9 DEF Quiet, QuietStep, FilesStep, HistoryStep, QuietAgreement
<1> QED
  BY <1>1, <1>2, <1>4

-----------------------------------------------------------------------------
(* The effect, and the steps that change log or snapshot. *)

\* The effect of an execution is the first of its key, or the key is orphaned.
LEMMA PerformEffectStep ==
    ASSUME IInv, NEW a \in Attempt, PerformEffect(a)
    PROVE  IInv'
<1> USE DEF IInv
<1>1. PICK k \in Key : k = KeyOf[a]
  BY OutcomeFacts
<1>2. /\ UNCHANGED <<journal, cut, dropped, torn, snapshot, sidecar, baseline, mode, pending, hot, dirty,
                     compaction, blocked, recovered, orphaned, answers, crashes, faults>>
      /\ mode = "up" /\ pc[a] = "effect" /\ pc' = [pc EXCEPT ![a] = "terminal"]
      /\ effects' = [effects EXCEPT ![k] = @ + 1]
  BY <1>1 DEF PerformEffect, files, bounds
<1>3. /\ pc \in [Attempt -> Progresses] /\ effects \in [Key -> Nat]
      /\ pc' \in [Attempt -> Progresses] /\ effects' \in [Key -> Nat]
      /\ effects'[k] = effects[k] + 1 /\ pc'[a] = "terminal"
      /\ \A j \in Key \ {k} : effects'[j] = effects[j]
      /\ \A b \in Attempt \ {a} : pc'[b] = pc[b]
  <2>1. pc \in [Attempt -> Progresses] /\ effects \in [Key -> Nat]
    BY DEF Typed, TypeOK, Progresses
  <2>2. "terminal" \in Progresses
    BY DEF Progresses, Executing
  <2> QED
    BY <1>2, <2>1, <2>2
<1>4. Typed'
  BY <1>2, <1>3 DEF Typed, TypeOK, Progresses
<1>5. /\ Span' = Span /\ \A q \in Span : At(q)' = At(q)
      /\ \A b \in Attempt : (Ended(b)' <=> Ended(b)) /\ (Logged(b)' <=> Logged(b))
  BY <1>2, SameLog
<1>6. QuietStep
  <2>1. \A b \in Attempt : CallMoves(b)
    <3>1. CallMoves(a)
      BY <1>2, <1>3 DEF CallMoves, Progress, Begun, Owning, Executing
    <3>2. \A b \in Attempt \ {a} : CallMoves(b)
      BY <1>2, <1>3 DEF CallMoves, Progress
    <3> QED
      BY <3>1, <3>2
  <2>2. ASSUME NEW j \in Key, Seen(j)' PROVE Seen(j)
    <3>1. CASE j = k
      BY <1>1, <1>2, <3>1 DEF Seen
    <3>2. CASE j # k
      BY <1>2, <1>3, <1>5, <2>2, <3>2 DEF Seen
    <3> QED
      BY <3>1, <3>2
  <2>3. SidecarKept /\ CompactionMoves /\ ModeMoves
    BY <1>2, CompactionFacts DEF SidecarKept, ModeMoves
  <2> QED
    BY <1>2, <2>1, <2>2, <2>3 DEF QuietStep, FilesStep
<1>7. Agreed'
  <2>1. \A j \in Key : \A o \in Outcome : Known(j, o)' <=> Known(j, o)
    BY <1>2, <1>5 DEF Known, Torn, IsTerminal
  <2>2. \A b \in Attempt : Trace(b)' <=> Trace(b)
    BY <1>2, <1>5 DEF Trace, TornOf, Torn
  <2>3. ASSUME NEW j \in Key PROVE Earned(j)'
    BY <1>3, <2>1, OutcomeFacts DEF Earned, Agreed
  <2>4. ASSUME NEW j \in Key \ orphaned PROVE OneOutcome(j)' /\ OneTransaction(j)'
    BY <2>1, <2>2, OutcomeFacts DEF OneOutcome, OneTransaction, Agreed
  <2>5. ASSUME NEW j \in Key \ orphaned PROVE OpenUnknown(j)'
    BY <1>3, <1>5, <2>1, <2>2, OutcomeFacts DEF OpenUnknown, Agreed
  <2>6. ASSUME NEW j \in Key \ orphaned PROVE Unheard(j)'
    <3> SUFFICES ASSUME NEW b \in Attempt, KeyOf[b] = j
                 PROVE  /\ pc'[b] \in Fresh => effects'[j] = 0
                        /\ pc'[b] \in Fresh \cup {"terminal"} => \A o \in Outcome : ~Known(j, o)'
                        /\ pc'[b] = "persist" => \A o \in Exact : Known(j, o)' => o = b
      BY DEF Unheard
    <3>1. Unheard(j)
      BY DEF Agreed
    <3>2. CASE b = a
      BY <1>1, <1>2, <1>3, <2>1, <3>1, <3>2 DEF Unheard, Fresh
    <3>3. CASE b # a
      <4>1. pc'[b] = pc[b] /\ (pc[b] \in Fresh => j # k)
        <5>1. pc[a] \in Owning /\ (pc[b] \in Fresh => pc[b] \in Owning)
          BY <1>2 DEF Owning, Executing, Fresh
        <5> QED
          BY <1>1, <1>3, <3>3, <5>1, OneOwner
      <4> QED
        BY <1>3, <2>1, <3>1, <4>1, OutcomeFacts DEF Unheard
    <3> QED
      BY <3>2, <3>3
  <2>7. \A b \in Attempt : pc'[b] \in {"terminal", "persist"} => effects'[KeyOf[b]] > 0
    BY <1>1, <1>3, OutcomeFacts DEF Agreed
  <2>8. AtMostOnce'
    <3>1. k \notin orphaned => effects[k] = 0
      BY <1>1, <1>2 DEF Agreed, Unheard, Fresh
    <3> QED
      BY <1>2, <1>3, <3>1 DEF AtMostOnce, Agreed
  <2>9. Torn' /\ IsTerminal(torn)' /\ mode' \notin {"down", "broken"} => KeyOf[torn'.tx] \in orphaned'
    BY <1>2 DEF Agreed, Torn, IsTerminal
  <2> QED
    BY <1>2, <2>3, <2>4, <2>5, <2>6, <2>7, <2>8, <2>9 DEF Agreed
<1> QED
  BY <1>4, <1>6, <1>7, QuietFiles

\* A step on log or snapshot stays well typed.
LEMMA LogTyped ==
    ASSUME Typed, UNCHANGED <<effects, answers, crashes>>, baseline' = baseline \/ baseline' \in Nat,
           journal' \in Seq(Written), torn' \in Written \cup {None, Shorter},
           cut' \in Nat, dropped' \in 0..cut',
           snapshot' \in [covered : Nat, open : SUBSET Attempt],
           mode' \in {"down", "recover", "publish", "up", "broken"},
           sidecar' = sidecar,
           pc' \in [Attempt -> Progresses],
           pending' \in [Key -> Attempt \cup {None}],
           hot' \in [Key -> Outcome \cup {None}],
           dirty' \in [Key -> DirtyEntry \cup {None}],
           compaction' \in Compaction,
           blocked' \in BOOLEAN,
           recovered' \in Seq([seq : Nat, tx : Attempt]),
           orphaned' \subseteq Key,
           faults' \in 0..MaxFaults
    PROVE  Typed'
<1>1. journal' \in Seq(Event)
  BY DEF Written
<1>2. torn' \in Event \cup {None, Shorter}
  BY DEF Written
<1> QED
  BY <1>1, <1>2 DEF Typed, TypeOK, DirtyEntry, Compaction, Progresses

\* No other transaction of a key is left when an execution of it writes.
LEMMA LoneTransaction ==
    ASSUME IInv, mode = "up", NEW a \in Attempt, pc[a] \in {"request", "terminal"},
           KeyOf[a] \notin orphaned, NEW b \in Attempt, b # a, KeyOf[b] = KeyOf[a]
    PROVE  ~Logged(b) /\ b \notin snapshot.open
<1> USE DEF IInv
<1> SUFFICES ASSUME Logged(b) \/ b \in snapshot.open PROVE FALSE
  OBVIOUS
<1>1. Underway(b)
  BY DEF Closed, Serving
<1>2. ~Ended(b)
  <2>1. \A o \in Outcome : ~Known(KeyOf[a], o)
    BY OutcomeFacts DEF Agreed, Unheard, Fresh
  <2> SUFFICES ASSUME NEW q \in Span, IsTerminal(At(q)), At(q).tx = b PROVE FALSE
    BY DEF Ended
  <2>2. At(q).out \in Exact
    BY LogFacts DEF Written, IsTerminal
  <2> QED
    BY <2>1, <2>2, OutcomeFacts DEF Known
<1>3. pc[b] \in Begun
  BY <1>1, <1>2 DEF Underway
<1> QED
  BY <1>3, OneOwner DEF Owning, Begun, Executing

\* An append keeps the files in order.
LEMMA GrowFiles ==
    ASSUME IInv, NEW e \in Written, NEW n, n = LastSequence + 1,
           journal' = Append(journal, e), UNCHANGED <<dropped, cut, snapshot, sidecar>>,
           torn' = None, compaction' \in {compaction, Invalidated}, ~Ended(e.tx),
           \A k \in Key : Seen(k)' => Seen(k) \/ k = KeyOf[e.tx]
    PROVE  Positions' /\ Ordered' /\ Shown'
<1> USE DEF IInv
<1>1. /\ LastSequence' = n /\ Span' = Span \cup {n}
      /\ \A q \in Span : q < n /\ At(q)' = At(q)
      /\ At(n)' = e
  BY Grows
<1>2. /\ LastSequence \in Nat /\ \A q \in Span : q \in Nat
      /\ snapshot.covered \in Nat /\ cut \in Nat /\ dropped \in Nat /\ compaction.covered \in Nat
  BY LogFacts DEF Typed, TypeOK
<1>3. /\ compaction'.step = compaction.step /\ compaction'.covered = compaction.covered
      /\ compaction'.expected = compaction.expected
  BY DEF Invalidated, Typed, TypeOK
<1>4. Positions'
  BY <1>1, <1>2, <1>3 DEF Positions
<1>5. snapshot.covered < n /\ (compaction.step # "idle" => compaction.covered < n)
  BY <1>2 DEF Positions
<1>6. Ordered'
  <2>1. ASSUME NEW q \in Span', NEW r \in Span', q < r, IsTerminal(At(q)')
        PROVE  At(q)'.tx # At(r)'.tx
    <3>1. q \in Span /\ At(q)' = At(q)
      BY <1>1, <1>2, <2>1
    <3>2. CASE r \in Span
      BY <1>1, <2>1, <3>1, <3>2 DEF Ordered
    <3>3. CASE r = n
      BY <1>1, <2>1, <3>1, <3>3 DEF Ended
    <3> QED
      BY <1>1, <3>2, <3>3
  <2>2. ASSUME NEW q \in Span', IsTerminal(At(q)'), At(q)'.tx \in snapshot.open
        PROVE  q > snapshot.covered
    <3>1. CASE q \in Span
      BY <1>1, <2>2, <3>1 DEF Ordered
    <3>2. CASE q = n
      BY <1>5, <3>2, <1>2
    <3> QED
      BY <1>1, <3>1, <3>2
  <2> QED
    BY <2>1, <2>2 DEF Ordered, Torn, IsTerminal
<1>7. ASSUME NEW k \in Key, Seen(k)' PROVE Strong(k)'
  <2>1. CASE k = KeyOf[e.tx]
    BY <1>1, <1>2, <1>5, <2>1 DEF Strong
  <2>2. CASE Seen(k)
    <3>1. Strong(k)
      BY <2>2 DEF Shown
    <3> QED
      BY <1>1, <3>1 DEF Strong
  <2> QED
    BY <1>7, <2>1, <2>2
<1>8. ASSUME NEW k \in Key, compaction.step = "snapshot" PROVE Demands(k)'
  <2> SUFFICES ASSUME NEW q \in Span', IsTerminal(At(q)'), KeyOf[At(q)'.tx] = k, q <= compaction.covered
               PROVE  \/ compaction.expected[k] # None
                      \/ \E r \in Span' : /\ IsTerminal(At(r)') /\ KeyOf[At(r)'.tx] = k
                                          /\ r > compaction.covered
    BY <1>3 DEF Demands, IsTerminal
  <2>1. q \in Span
    BY <1>1, <1>2, <1>5, <1>8
  <2>2. Demands(k)
    BY <1>8 DEF Shown
  <2>3. \/ compaction.expected[k] # None
        \/ \E r \in Span : IsTerminal(At(r)) /\ KeyOf[At(r).tx] = k /\ r > compaction.covered
    BY <1>1, <2>1, <2>2 DEF Demands
  <2> QED
    BY <1>1, <2>3
<1>9. Shown'
  BY <1>3, <1>7, <1>8 DEF Shown
<1> QED
  BY <1>4, <1>6, <1>9

\* The request event of an execution keeps the invariant.
LEMMA AppendRequestStep ==
    ASSUME IInv, NEW a \in Attempt, AppendRequest(a)
    PROVE  IInv' /\ HistoryStep
<1> USE DEF IInv
<1>1. PICK k \in Key : k = KeyOf[a]
  BY OutcomeFacts
<1>2. PICK e : e = Requested(a)
  OBVIOUS
<1>3. e \in Written /\ ~IsTerminal(e) /\ e.tx = a
  BY <1>2 DEF Requested, Written, Event, IsTerminal
<1>4. /\ mode = "up" /\ mode' = "up" /\ pc[a] = "request" /\ pc[a] \in Owning /\ pc[a] \in Early
      /\ UNCHANGED <<dropped, baseline, cut, snapshot, sidecar, hot, dirty, compaction, blocked, recovered,
                     effects, orphaned, crashes>>
      /\ \/ AppendSucceeds(e) /\ pc' = [pc EXCEPT ![a] = "effect"] /\ UNCHANGED <<pending, answers>>
         \/ AppendFails(e) /\ Settle(a, "failed", None)
  BY <1>2 DEF AppendRequest, Owning, Executing, Early
<1>5. /\ pc \in [Attempt -> Progresses] /\ pending \in [Key -> Attempt \cup {None}]
      /\ hot \in [Key -> Outcome \cup {None}] /\ dirty \in [Key -> DirtyEntry \cup {None}]
      /\ compaction \in Compaction /\ blocked \in BOOLEAN /\ orphaned \subseteq Key
      /\ recovered \in Seq([seq : Nat, tx : Attempt]) /\ cut \in Nat /\ dropped \in 0..cut
      /\ snapshot \in [covered : Nat, open : SUBSET Attempt]
      /\ journal \in Seq(Written) /\ torn \in Written \cup {None, Shorter}
  BY DirtyTyped DEF Typed, TypeOK, Progresses, Compaction
<1>6. faults' \in 0..MaxFaults
  BY <1>4, FaultType DEF AppendSucceeds, AppendFails
<1>7. ASSUME NEW b \in Attempt, KeyOf[b] = k, k \notin orphaned
      PROVE  ~Logged(b) /\ b \notin snapshot.open
  BY <1>1, <1>4, <1>7, LoneTransaction DEF Progress
<1>8. ~Logged(a) /\ ~Ended(a) /\ a \notin snapshot.open
  BY <1>4 DEF Progress, Logged, Ended
<1>9. k \notin orphaned => effects[k] = 0 /\ \A o \in Outcome : ~Known(k, o)
  BY <1>1, <1>4 DEF Agreed, Unheard, Fresh
<1>10. CASE AppendSucceeds(e) /\ pc' = [pc EXCEPT ![a] = "effect"] /\ UNCHANGED <<pending, answers>>
  <2>1. PICK n : n = LastSequence + 1
    OBVIOUS
  <2>2. journal' = Append(journal, e) /\ torn' = None
    BY <1>10 DEF AppendSucceeds
  <2>3. /\ journal' \in Seq(Written) /\ Span' = Span \cup {n}
        /\ \A q \in Span : q < n /\ At(q)' = At(q)
        /\ At(n)' = e
        /\ \A b \in Attempt : (Logged(b)' <=> Logged(b) \/ b = a) /\ (Ended(b)' <=> Ended(b))
    BY <1>3, <1>4, <2>1, <2>2, Grows
  <2>4. pc' \in [Attempt -> Progresses] /\ pc'[a] = "effect" /\ \A b \in Attempt \ {a} : pc'[b] = pc[b]
    BY <1>5, <1>10 DEF Progresses, Executing
  <2>5. Typed'
    BY <1>4, <1>5, <1>6, <1>10, <2>2, <2>3, <2>4, LogTyped
  <2>6. \A j \in Key : Seen(j)' => Seen(j) \/ j = k
    BY <1>1, <1>3, <1>4, <1>10, <2>3, <2>4 DEF Seen
  <2>7. Positions' /\ Ordered' /\ Shown'
    BY <1>1, <1>3, <1>4, <1>8, <2>1, <2>2, <2>6, GrowFiles
  <2>8. Progress'
    <3> SUFFICES ASSUME NEW b \in Attempt
                 PROVE  /\ pc'[b] \in Early => b \notin snapshot.open /\ ~Logged(b)'
                        /\ pc'[b] \in Begun => ~Ended(b)'
                        /\ pc'[b] \in Owning => pending[KeyOf[b]] = b
      BY <1>4, <1>10, <2>2 DEF Progress, TornOf, Torn
    <3>1. CASE b = a
      BY <1>4, <1>8, <2>3, <2>4, <3>1 DEF Progress, Early
    <3>2. CASE b # a
      BY <2>3, <2>4, <3>2 DEF Progress
    <3> QED
      BY <3>1, <3>2
  <2>9. Closed'
    <3>1. pc[a] \notin Begun
      BY <1>4 DEF Begun
    <3> QED
      BY <1>4, <2>3, <2>4, <3>1 DEF Closed, Underway, Serving, Begun
  <2>10. \A j \in Key : \A o \in Outcome : Known(j, o)' => Known(j, o)
    BY <1>3, <1>4, <1>10, <2>2, <2>3 DEF Known, Torn, IsTerminal
  <2>11. \A b \in Attempt : Trace(b)' => Trace(b) \/ b = a
    BY <1>4, <2>2, <2>3 DEF Trace, TornOf, Torn
  <2>12. ASSUME NEW b \in Attempt, KeyOf[b] = k, k \notin orphaned, Trace(b)' PROVE b = a
    BY <1>4, <1>7, <2>2, <2>3, <2>12 DEF Trace, TornOf, Torn
  <2>13. Agreed'
    <3>1. ASSUME NEW j \in Key PROVE Earned(j)'
      BY <1>4, <2>10, OutcomeFacts DEF Earned, Agreed
    <3>2. ASSUME NEW j \in Key \ orphaned PROVE OneOutcome(j)'
      BY <2>10, OutcomeFacts DEF OneOutcome, Agreed
    <3>3. ASSUME NEW j \in Key \ orphaned PROVE OneTransaction(j)'
      BY <1>1, <2>11, <2>12 DEF OneTransaction, Agreed
    <3>4. ASSUME NEW j \in Key \ orphaned PROVE OpenUnknown(j)'
      <4> SUFFICES ASSUME NEW b \in Attempt, KeyOf[b] = j, Trace(b)', ~Ended(b), NEW o \in Attempt
                   PROVE  ~Known(j, o)' /\ (KeyOf[o] = j => pc'[o] # "persist")
        BY <2>3 DEF OpenUnknown
      <4>1. CASE b = a
        <5>1. KeyOf[o] = k => pc[o] # "persist"
          BY <1>1, <1>4, OneOwner DEF Owning, Executing
        <5> QED
          BY <1>1, <1>9, <2>4, <2>10, <4>1, <5>1, OutcomeFacts
      <4>2. CASE b # a
        BY <2>4, <2>10, <2>11, <4>2, OutcomeFacts DEF OpenUnknown, Agreed
      <4> QED
        BY <4>1, <4>2
    <3>5. ASSUME NEW j \in Key \ orphaned PROVE Unheard(j)'
      <4> SUFFICES ASSUME NEW b \in Attempt, KeyOf[b] = j
                   PROVE  /\ pc'[b] \in Fresh => effects[j] = 0
                          /\ pc'[b] \in Fresh \cup {"terminal"} => \A o \in Outcome : ~Known(j, o)'
                          /\ pc'[b] = "persist" => \A o \in Exact : Known(j, o)' => o = b
        BY <1>4 DEF Unheard
      <4>1. CASE b = a
        BY <1>1, <1>9, <2>4, <2>10, <4>1
      <4>2. CASE b # a
        BY <2>4, <2>10, <4>2, OutcomeFacts DEF Unheard, Agreed
      <4> QED
        BY <4>1, <4>2
    <3>6. \A b \in Attempt : pc'[b] \in {"terminal", "persist"} => effects[KeyOf[b]] > 0
      BY <2>4 DEF Agreed
    <3> QED
      BY <1>4, <2>2, <3>1, <3>2, <3>3, <3>4, <3>5, <3>6 DEF Agreed, Torn, AtMostOnce
  <2> QED
    BY <1>4, <1>10, <2>5, <2>7, <2>8, <2>9, <2>13 DEF HistoryStep
<1>11. CASE AppendFails(e) /\ Settle(a, "failed", None)
  <2>1. UNCHANGED journal /\ (torn' \in {torn, None} \/ torn' = e)
    BY <1>11 DEF AppendFails
  <2>2. pc[a] \in Owning \ Begun
    BY <1>4 DEF Begun
  <2>3. /\ \A b \in Attempt : /\ CallMoves(b)
                              /\ pc'[b] = pc[b] \/ pc'[b] \in Answered
                              /\ pc'[b] = "effect" => pc[b] = "effect"
        /\ answers' = answers
    BY <1>4, <1>11, <2>2, SettleQuiet DEF Settle
  <2>4. pc' \in [Attempt -> Progresses] /\ pending' \in [Key -> Attempt \cup {None}] /\ pc'[a] = "failed"
    BY <1>11, SettleFacts
  <2>5. torn' \in Written \cup {None, Shorter}
    <3>1. torn \in Written \cup {None, Shorter}
      BY <1>5
    <3>2. e \in Written \cup {None, Shorter}
      BY <1>3
    <3> QED
      BY <2>1, <3>1, <3>2, Zenon
  <2>6. Typed'
    BY <1>4, <1>5, <1>6, <2>1, <2>3, <2>4, <2>5, LogTyped
  <2>7. FilesStep
    <3>1. \A j \in Key : Seen(j)' => Seen(j)
      BY <1>4, <2>1, <2>3, SameLog DEF Seen
    <3>2. torn' = e => torn'.tx \in Attempt /\ ~Ended(torn'.tx) /\ pc'[torn'.tx] \in Answered
      BY <1>3, <1>8, <2>4 DEF Answered
    <3>3. SidecarKept /\ CompactionMoves /\ ModeMoves
      BY <1>4, CompactionFacts DEF SidecarKept, ModeMoves
    <3> QED
      BY <1>4, <2>1, <2>3, <3>1, <3>2, <3>3 DEF FilesStep
  <2>8. \A b \in Attempt : /\ Ended(b)' <=> Ended(b)
                           /\ Logged(b)' <=> Logged(b)
                           /\ Trace(b)' => Trace(b) \/ (b = a /\ torn' = e)
    BY <1>3, <1>4, <2>1, SameLog DEF Trace, TornOf, Torn
  <2>9. \A j \in Key : \A o \in Outcome : Known(j, o)' => Known(j, o)
    <3>1. Span' = Span /\ \A q \in Span : At(q)' = At(q)
      BY <1>4, <2>1, SameLog
    <3> QED
      BY <1>3, <1>4, <2>1, <2>3, <3>1 DEF Known, Torn, IsTerminal
  <2>10. ASSUME NEW b \in Attempt, KeyOf[b] = k, k \notin orphaned, torn' = e, Trace(b)' PROVE b = a
    BY <1>3, <1>4, <1>7, <2>8, <2>10 DEF Trace, TornOf, Torn
  <2>11. Agreed'
    <3>1. ASSUME NEW j \in Key PROVE Earned(j)'
      BY <1>4, <2>9, OutcomeFacts DEF Earned, Agreed
    <3>2. ASSUME NEW j \in Key \ orphaned PROVE OneOutcome(j)'
      BY <2>9, OutcomeFacts DEF OneOutcome, Agreed
    <3>3. ASSUME NEW j \in Key \ orphaned PROVE OneTransaction(j)'
      BY <1>1, <2>8, <2>10 DEF OneTransaction, Agreed
    <3>4. ASSUME NEW j \in Key \ orphaned PROVE OpenUnknown(j)'
      <4> SUFFICES ASSUME NEW b \in Attempt, KeyOf[b] = j, Trace(b)', ~Ended(b), NEW o \in Attempt
                   PROVE  ~Known(j, o)' /\ (KeyOf[o] = j => pc'[o] # "persist")
        BY <2>8 DEF OpenUnknown
      <4>1. CASE b = a
        <5>1. KeyOf[o] = k => pc[o] # "persist"
          BY <1>1, <1>4, OneOwner DEF Owning, Executing
        <5>2. pc'[o] = "persist" => pc[o] = "persist"
          BY <2>3 DEF Answered
        <5> QED
          BY <1>1, <1>9, <2>9, <4>1, <5>1, <5>2, OutcomeFacts
      <4>2. CASE b # a
        <5>1. pc'[o] = "persist" => pc[o] = "persist"
          BY <2>3 DEF Answered
        <5> QED
          BY <2>8, <2>9, <4>2, <5>1, OutcomeFacts DEF OpenUnknown, Agreed
      <4> QED
        BY <4>1, <4>2
    <3>5. ASSUME NEW j \in Key \ orphaned PROVE Unheard(j)'
      <4> SUFFICES ASSUME NEW b \in Attempt, KeyOf[b] = j
                   PROVE  /\ pc'[b] \in Fresh => effects[j] = 0
                          /\ pc'[b] \in Fresh \cup {"terminal"} => \A o \in Outcome : ~Known(j, o)'
                          /\ pc'[b] = "persist" => \A o \in Exact : Known(j, o)' => o = b
        BY <1>4 DEF Unheard
      <4>1. pc'[b] \in Fresh \cup {"terminal", "persist"} => pc'[b] = pc[b]
        BY <2>3 DEF Answered, Fresh
      <4> QED
        BY <2>9, <4>1, OutcomeFacts DEF Unheard, Agreed
    <3>6. \A b \in Attempt : pc'[b] \in {"terminal", "persist"} => effects[KeyOf[b]] > 0
      BY <2>3 DEF Agreed, Answered
    <3>7. Torn' /\ IsTerminal(torn)' => Torn /\ IsTerminal(torn) /\ torn' = torn
      BY <1>3, <2>1 DEF Torn, IsTerminal
    <3> QED
      BY <1>4, <3>1, <3>2, <3>3, <3>4, <3>5, <3>6, <3>7 DEF Agreed, AtMostOnce
  <2> QED
    BY <1>4, <2>3, <2>6, <2>7, <2>11, StepFiles DEF HistoryStep
<1> QED
  BY <1>4, <1>10, <1>11

\* The journal refuses it: the key is one of the orphaned.
LEMMA AppendTerminalFails ==
    ASSUME IInv, NEW a \in Attempt, pc[a] = "terminal", mode = "up", mode' = "up",
           NEW k \in Key, k = KeyOf[a], NEW e, e = Terminal(a, a),
           AppendFails(e), Settle(a, "failed", None), orphaned' = orphaned \cup {k},
           UNCHANGED <<dropped, baseline, cut, snapshot, sidecar, hot, dirty, compaction, blocked, recovered,
                       effects, crashes>>
    PROVE  IInv'
<1> USE DEF IInv
<1>1. e \in Written /\ e.tx = a /\ e.out = a
  BY DEF Terminal, Written, Event, IsTerminal, Exact, Outcome
<1>2. /\ pc \in [Attempt -> Progresses] /\ pending \in [Key -> Attempt \cup {None}]
      /\ hot \in [Key -> Outcome \cup {None}] /\ dirty \in [Key -> DirtyEntry \cup {None}]
      /\ compaction \in Compaction /\ blocked \in BOOLEAN /\ orphaned \subseteq Key
      /\ recovered \in Seq([seq : Nat, tx : Attempt]) /\ cut \in Nat /\ dropped \in 0..cut
      /\ snapshot \in [covered : Nat, open : SUBSET Attempt]
      /\ journal \in Seq(Written) /\ torn \in Written \cup {None, Shorter}
  BY DirtyTyped DEF Typed, TypeOK, Progresses, Compaction
<1>3. faults' \in 0..MaxFaults /\ UNCHANGED journal /\ (torn' \in {torn, None} \/ torn' = e)
  BY FaultType DEF AppendFails
<1>4. pc[a] \in Owning /\ pc[a] \in Begun /\ ~Ended(a) /\ effects[k] > 0
  BY DEF Owning, Executing, Begun, Progress, Agreed
<1>5. /\ \A b \in Attempt : /\ CallMoves(b)
                            /\ pc'[b] = pc[b] \/ pc'[b] \in Answered
                            /\ pc'[b] = "effect" => pc[b] = "effect"
      /\ answers' = answers
  BY <1>4, SettleQuiet DEF Settle
<1>6. pc' \in [Attempt -> Progresses] /\ pending' \in [Key -> Attempt \cup {None}] /\ pc'[a] = "failed"
  BY SettleFacts
<1>7. Typed'
  <2>1. torn' \in Written \cup {None, Shorter}
    <3>1. torn \in Written \cup {None, Shorter}
      BY <1>2
    <3>2. e \in Written \cup {None, Shorter}
      BY <1>1
    <3> QED
      BY <1>3, <3>1, <3>2, Zenon
  <2>2. orphaned' \subseteq Key
    BY <1>2
  <2> QED
    BY <1>2, <1>3, <1>5, <1>6, <2>1, <2>2, LogTyped
<1>8. FilesStep
  <2>1. \A j \in Key : Seen(j)' => Seen(j)
    BY <1>3, <1>5, SameLog DEF Seen
  <2>2. torn' = e => torn'.tx \in Attempt /\ ~Ended(torn'.tx) /\ pc'[torn'.tx] \in Answered
    BY <1>1, <1>4, <1>6 DEF Answered
  <2>3. SidecarKept /\ CompactionMoves /\ ModeMoves
    BY CompactionFacts DEF SidecarKept, ModeMoves
  <2> QED
    BY <1>3, <1>5, <2>1, <2>2, <2>3 DEF FilesStep
<1>9. \A b \in Attempt : /\ Ended(b)' <=> Ended(b)
                         /\ Trace(b)' => Trace(b) \/ b = a
  BY <1>1, <1>3, SameLog DEF Trace, TornOf, Torn
<1>10. \A j \in Key : \A o \in Outcome : Known(j, o)' => Known(j, o) \/ (j = k /\ o = a)
  <2>1. Span' = Span /\ \A q \in Span : At(q)' = At(q)
    BY <1>3, SameLog
  <2> QED
    BY <1>1, <1>3, <1>5, <2>1 DEF Known, Torn, IsTerminal
<1>11. Agreed'
  <2>1. ASSUME NEW j \in Key PROVE Earned(j)'
    BY <1>4, <1>10, OutcomeFacts DEF Earned, Agreed
  <2>2. ASSUME NEW j \in Key, j \notin orphaned'
        PROVE  j \notin orphaned /\ j # k /\ \A o \in Outcome : Known(j, o)' => Known(j, o)
    BY <1>10, <2>2
  <2>3. ASSUME NEW j \in Key, j \notin orphaned' PROVE OneOutcome(j)'
    BY <2>2, <2>3, OutcomeFacts DEF OneOutcome, Agreed
  <2>4. ASSUME NEW j \in Key, j \notin orphaned' PROVE OneTransaction(j)'
    BY <1>9, <2>2, <2>4 DEF OneTransaction, Agreed
  <2>5. ASSUME NEW j \in Key, j \notin orphaned' PROVE OpenUnknown(j)'
    <3> SUFFICES ASSUME NEW b \in Attempt, KeyOf[b] = j, Trace(b)', ~Ended(b), NEW o \in Attempt
                 PROVE  ~Known(j, o)' /\ (KeyOf[o] = j => pc'[o] # "persist")
      BY <1>9 DEF OpenUnknown
    <3>1. pc'[o] = "persist" => pc[o] = "persist"
      BY <1>5 DEF Answered
    <3> QED
      BY <1>9, <2>2, <2>5, <3>1, OutcomeFacts DEF OpenUnknown, Agreed
  <2>6. ASSUME NEW j \in Key, j \notin orphaned' PROVE Unheard(j)'
    <3> SUFFICES ASSUME NEW b \in Attempt, KeyOf[b] = j
                 PROVE  /\ pc'[b] \in Fresh => effects[j] = 0
                        /\ pc'[b] \in Fresh \cup {"terminal"} => \A o \in Outcome : ~Known(j, o)'
                        /\ pc'[b] = "persist" => \A o \in Exact : Known(j, o)' => o = b
      BY DEF Unheard
    <3>1. pc'[b] \in Fresh \cup {"terminal", "persist"} => pc'[b] = pc[b]
      BY <1>5 DEF Answered, Fresh
    <3> QED
      BY <2>2, <2>6, <3>1, OutcomeFacts DEF Unheard, Agreed
  <2>7. \A b \in Attempt : pc'[b] \in {"terminal", "persist"} => effects[KeyOf[b]] > 0
    BY <1>5 DEF Agreed, Answered
  <2>8. Torn' /\ IsTerminal(torn)' => (Torn /\ IsTerminal(torn) /\ torn' = torn) \/ KeyOf[torn'.tx] = k
    BY <1>1, <1>3 DEF Torn, IsTerminal
  <2>9. AtMostOnce'
    BY DEF Agreed, AtMostOnce
  <2>10. Torn' /\ IsTerminal(torn)' /\ mode' \notin {"down", "broken"} => KeyOf[torn'.tx] \in orphaned'
    BY <2>8 DEF Agreed
  <2> QED
    BY <2>1, <2>3, <2>4, <2>5, <2>6, <2>7, <2>9, <2>10 DEF Agreed
<1> QED
  BY <1>7, <1>8, <1>11, StepFiles

\* The journal takes it: what is known of the key is this execution's outcome.
LEMMA AppendTerminalSucceeds ==
    ASSUME IInv, NEW a \in Attempt, pc[a] = "terminal", mode = "up", mode' = "up",
           NEW k \in Key, k = KeyOf[a], NEW e, e = Terminal(a, a), AppendSucceeds(e),
           hot' = [hot EXCEPT ![k] = a], compaction' = Invalidated,
           \/ Settle(a, "failed", None) /\ UNCHANGED dirty
           \/ /\ dirty' = [dirty EXCEPT ![k] = [seq |-> LastSequence + 1, out |-> a]]
              /\ pc' = [pc EXCEPT ![a] = "persist"] /\ UNCHANGED <<pending, answers>>,
           UNCHANGED <<dropped, baseline, cut, snapshot, sidecar, blocked, recovered, effects, orphaned,
                       crashes>>
    PROVE  IInv' /\ UNCHANGED answers
<1> USE DEF IInv
<1>1. e \in Written /\ IsTerminal(e) /\ e.tx = a /\ e.out = a
  BY DEF Terminal, Written, Event, IsTerminal, Exact, Outcome
<1>2. /\ pc \in [Attempt -> Progresses] /\ pending \in [Key -> Attempt \cup {None}]
      /\ hot \in [Key -> Outcome \cup {None}] /\ dirty \in [Key -> DirtyEntry \cup {None}]
      /\ compaction \in Compaction /\ blocked \in BOOLEAN /\ orphaned \subseteq Key
      /\ recovered \in Seq([seq : Nat, tx : Attempt]) /\ cut \in Nat /\ dropped \in 0..cut
      /\ snapshot \in [covered : Nat, open : SUBSET Attempt]
  BY DirtyTyped DEF Typed, TypeOK, Progresses, Compaction
<1>3. faults' \in 0..MaxFaults /\ journal' = Append(journal, e) /\ torn' = None
  BY FaultType DEF AppendSucceeds
<1>4. pc[a] \in Owning /\ pc[a] \in Begun /\ ~Ended(a) /\ effects[k] > 0
  BY DEF Owning, Executing, Begun, Progress, Agreed
<1>5. PICK n : n = LastSequence + 1 /\ n \in Nat
  BY LogFacts
<1>6. /\ journal' \in Seq(Written) /\ Span' = Span \cup {n}
      /\ \A q \in Span : q < n /\ At(q)' = At(q)
      /\ At(n)' = e
      /\ \A b \in Attempt : (Logged(b)' <=> Logged(b) \/ b = a) /\ (Ended(b)' <=> Ended(b) \/ b = a)
  BY <1>1, <1>3, <1>5, Grows
<1>7. /\ pc' \in [Attempt -> Progresses] /\ pending' \in [Key -> Attempt \cup {None}]
      /\ pc'[a] \in {"failed", "persist"} /\ answers' = answers
      /\ \A b \in Attempt \ {a} : /\ pc'[b] = pc[b] \/ pc'[b] \in Answered
                                  /\ pc[b] \in Begun => pc'[b] = pc[b]
      /\ \A b \in Attempt : pc'[b] \in Owning => pending'[KeyOf[b]] = b
  <2>1. CASE Settle(a, "failed", None)
    <3>1. /\ pc' \in [Attempt -> Progresses] /\ pending' \in [Key -> Attempt \cup {None}]
          /\ answers' = answers
      BY <2>1, SettleFacts
    <3>2. /\ pc'[a] = "failed"
          /\ \A b \in Attempt : /\ pc'[b] = pc[b] \/ pc'[b] \in Answered
                                /\ pc[b] \in Begun => pc'[b] = pc[b] \/ b = a
                                /\ pc'[b] \in Owning => pending'[KeyOf[b]] = b
      BY <1>4, <2>1, SettleOwners
    <3> QED
      BY <3>1, <3>2
  <2>2. CASE pc' = [pc EXCEPT ![a] = "persist"] /\ UNCHANGED <<pending, answers>>
    BY <1>2, <1>4, <2>2 DEF Progresses, Executing, Progress
  <2> QED
    BY <2>1, <2>2
<1>8. /\ dirty' \in [Key -> DirtyEntry \cup {None}]
      /\ \A j \in Key : dirty'[j] = dirty[j] \/ (j = k /\ dirty'[j].out = a)
  <2>1. [seq |-> n, out |-> a] \in DirtyEntry
    BY <1>5, OutcomeFacts DEF DirtyEntry
  <2>2. CASE UNCHANGED dirty
    BY <1>2, <2>2
  <2>3. CASE dirty' = [dirty EXCEPT ![k] = [seq |-> n, out |-> a]]
    BY <1>2, <2>1, <2>3
  <2> QED
    BY <1>5, <2>2, <2>3
<1>9. /\ hot' \in [Key -> Outcome \cup {None}] /\ \A j \in Key : hot'[j] = hot[j] \/ (j = k /\ hot'[j] = a)
  BY <1>2, OutcomeFacts
<1>10. compaction' \in Compaction
  BY <1>2 DEF Compaction, Invalidated
<1>11. Typed'
  BY <1>2, <1>3, <1>6, <1>7, <1>8, <1>9, <1>10, LogTyped
<1>12. \A j \in Key : Seen(j)' => Seen(j) \/ j = k
  <2> SUFFICES ASSUME NEW j \in Key, j # k, Seen(j)' PROVE Seen(j)
    OBVIOUS
  <2>1. hot'[j] = hot[j] /\ dirty'[j] = dirty[j]
    BY <1>8, <1>9
  <2>2. \A b \in Attempt : pc'[b] = "effect" => pc[b] = "effect"
    BY <1>7 DEF Answered
  <2> QED
    BY <1>1, <1>6, <1>7, <2>1, <2>2 DEF Seen
<1>13. Positions' /\ Ordered' /\ Shown'
  BY <1>1, <1>3, <1>4, <1>5, <1>12, GrowFiles
<1>14. Progress'
  <2> SUFFICES ASSUME NEW b \in Attempt
               PROVE  /\ pc'[b] \in Early => b \notin snapshot.open /\ ~Logged(b)'
                      /\ pc'[b] \in Begun => ~Ended(b)'
                      /\ pc'[b] \in Owning => pending'[KeyOf[b]] = b
    BY <1>3 DEF Progress, TornOf, Torn
  <2>1. CASE b = a
    BY <1>7, <2>1 DEF Early, Begun
  <2>2. CASE b # a
    BY <1>6, <1>7, <2>2 DEF Progress, Early, Begun, Answered
  <2> QED
    BY <2>1, <2>2
<1>15. Closed'
  <2> SUFFICES ASSUME NEW b \in Attempt, Logged(b)' \/ b \in snapshot.open PROVE Underway(b)'
    BY DEF Closed
  <2>1. CASE b = a
    BY <1>6, <2>1 DEF Underway
  <2>2. CASE b # a
    <3>1. Underway(b)
      BY <1>6, <2>2 DEF Closed, Serving
    <3> QED
      BY <1>6, <1>7, <2>2, <3>1 DEF Underway
  <2> QED
    BY <2>1, <2>2
<1>16. \A j \in Key : \A o \in Outcome : Known(j, o)' => Known(j, o) \/ (j = k /\ o = a)
  <2> SUFFICES ASSUME NEW j \in Key, NEW o \in Outcome, Known(j, o)', ~(j = k /\ o = a) PROVE Known(j, o)
    OBVIOUS
  <2>1. (hot'[j] = o => hot[j] = o) /\ (dirty'[j] # None /\ dirty'[j].out = o => dirty[j] = dirty'[j])
    BY <1>8, <1>9
  <2> QED
    BY <1>1, <1>3, <1>6, <1>7, <2>1 DEF Known, Torn, IsTerminal
<1>17. \A b \in Attempt : Trace(b)' => Trace(b) \/ b = a
  BY <1>3, <1>6 DEF Trace, TornOf, Torn
<1>18. ASSUME NEW b \in Attempt, KeyOf[b] = k, k \notin orphaned, Trace(b)' PROVE b = a
  BY <1>3, <1>6, <1>18, LoneTransaction DEF Trace, TornOf, Torn
<1>19. k \notin orphaned => \A o \in Outcome : Known(k, o)' => o = a
  BY <1>16 DEF Agreed, Unheard
<1>20. Agreed'
  <2>1. ASSUME NEW j \in Key PROVE Earned(j)'
    BY <1>4, <1>16, OutcomeFacts DEF Earned, Agreed
  <2>2. ASSUME NEW j \in Key \ orphaned PROVE OneOutcome(j)'
    <3>1. CASE j = k
      BY <1>19, <3>1, OutcomeFacts DEF OneOutcome
    <3>2. CASE j # k
      BY <1>16, <3>2, OutcomeFacts DEF OneOutcome, Agreed
    <3> QED
      BY <3>1, <3>2
  <2>3. ASSUME NEW j \in Key \ orphaned PROVE OneTransaction(j)'
    BY <1>17, <1>18 DEF OneTransaction, Agreed
  <2>4. ASSUME NEW j \in Key \ orphaned PROVE OpenUnknown(j)'
    <3> SUFFICES ASSUME NEW b \in Attempt, KeyOf[b] = j, Trace(b)', ~Ended(b)', NEW o \in Attempt
                 PROVE  ~Known(j, o)' /\ (KeyOf[o] = j => pc'[o] # "persist")
      BY DEF OpenUnknown
    <3>1. b # a /\ j # k /\ Trace(b) /\ ~Ended(b)
      BY <1>6, <1>17, <1>18
    <3>2. KeyOf[o] = j /\ pc'[o] = "persist" => pc[o] = "persist"
      BY <1>7, <3>1 DEF Answered
    <3> QED
      BY <1>16, <3>1, <3>2, OutcomeFacts DEF OpenUnknown, Agreed
  <2>5. ASSUME NEW j \in Key \ orphaned PROVE Unheard(j)'
    <3> SUFFICES ASSUME NEW b \in Attempt, KeyOf[b] = j
                 PROVE  /\ pc'[b] \in Fresh => effects[j] = 0
                        /\ pc'[b] \in Fresh \cup {"terminal"} => \A o \in Outcome : ~Known(j, o)'
                        /\ pc'[b] = "persist" => \A o \in Exact : Known(j, o)' => o = b
      BY DEF Unheard
    <3>1. CASE b = a
      BY <1>7, <1>19, <3>1, OutcomeFacts DEF Fresh
    <3>2. CASE b # a
      <4>1. pc'[b] \in Fresh \cup {"terminal", "persist"} => pc'[b] = pc[b]
        BY <1>7, <3>2 DEF Answered, Fresh
      <4>2. pc[b] \in Fresh \cup {"terminal", "persist"} => j # k
        BY <1>4, <3>2, OneOwner DEF Owning, Executing, Fresh
      <4> QED
        BY <1>16, <4>1, <4>2, OutcomeFacts DEF Unheard, Agreed
    <3> QED
      BY <3>1, <3>2
  <2>6. \A b \in Attempt : pc'[b] \in {"terminal", "persist"} => effects[KeyOf[b]] > 0
    <3> TAKE b \in Attempt
    <3>1. CASE b = a
      BY <1>4, <3>1
    <3>2. CASE b # a
      BY <1>7, <3>2 DEF Agreed, Answered
    <3> QED
      BY <3>1, <3>2
  <2> QED
    BY <1>3, <2>1, <2>2, <2>3, <2>4, <2>5, <2>6 DEF Agreed, Torn, AtMostOnce
<1> QED
  BY <1>7, <1>11, <1>13, <1>14, <1>15, <1>20

\* The terminal event, taken or refused, keeps the invariant.
LEMMA AppendTerminalStep ==
    ASSUME IInv, NEW a \in Attempt, AppendTerminal(a)
    PROVE  IInv' /\ UNCHANGED <<answers, effects>>
           /\ \/ UNCHANGED orphaned
              \/ orphaned' = orphaned \cup {KeyOf[a]} /\ effects[KeyOf[a]] > 0
<1>1. PICK k \in Key : k = KeyOf[a]
  BY OutcomeFacts
<1>2. PICK e : e = Terminal(a, a)
  OBVIOUS
<1>3. /\ mode = "up" /\ mode' = "up" /\ pc[a] = "terminal"
      /\ UNCHANGED <<dropped, baseline, cut, snapshot, sidecar, blocked, recovered, effects, crashes>>
      /\ \/ /\ AppendSucceeds(e) /\ hot' = [hot EXCEPT ![k] = a] /\ compaction' = Invalidated
            /\ \/ Settle(a, "failed", None) /\ UNCHANGED dirty
               \/ /\ dirty' = [dirty EXCEPT ![k] = [seq |-> LastSequence + 1, out |-> a]]
                  /\ pc' = [pc EXCEPT ![a] = "persist"] /\ UNCHANGED <<pending, answers>>
            /\ UNCHANGED orphaned
         \/ /\ AppendFails(e) /\ orphaned' = orphaned \cup {k} /\ Settle(a, "failed", None)
            /\ UNCHANGED <<hot, dirty, compaction>>
  BY <1>1, <1>2 DEF AppendTerminal
<1>4. effects[k] > 0
  BY <1>1, <1>3 DEF IInv, Agreed
<1>5. CASE /\ AppendSucceeds(e) /\ hot' = [hot EXCEPT ![k] = a] /\ compaction' = Invalidated
           /\ \/ Settle(a, "failed", None) /\ UNCHANGED dirty
              \/ /\ dirty' = [dirty EXCEPT ![k] = [seq |-> LastSequence + 1, out |-> a]]
                 /\ pc' = [pc EXCEPT ![a] = "persist"] /\ UNCHANGED <<pending, answers>>
           /\ UNCHANGED orphaned
  BY <1>1, <1>2, <1>3, <1>5, AppendTerminalSucceeds
<1>6. CASE /\ AppendFails(e) /\ orphaned' = orphaned \cup {k} /\ Settle(a, "failed", None)
           /\ UNCHANGED <<hot, dirty, compaction>>
  <2>1. IInv'
    BY <1>1, <1>2, <1>3, <1>6, AppendTerminalFails
  <2>2. UNCHANGED answers
    BY <1>6 DEF Settle
  <2> QED
    BY <1>1, <1>3, <1>4, <1>6, <2>1, <2>2
<1> QED
  BY <1>3, <1>5, <1>6

\* Recovery writes "unknown" for an open transaction.
LEMMA RecoverOneStep ==
    ASSUME IInv, NEW a \in Attempt, RecoverOne(a)
    PROVE  IInv' /\ UNCHANGED <<effects, orphaned, answers>>
<1> USE DEF IInv
<1>1. PICK k \in Key : k = KeyOf[a]
  BY OutcomeFacts
<1>2. PICK e : e = Terminal(a, "unknown")
  OBVIOUS
<1>3. e \in Written /\ IsTerminal(e) /\ e.tx = a /\ e.out = "unknown"
  BY <1>2 DEF Terminal, Written, Event, IsTerminal, Exact, Outcome
<1>4. /\ mode = "recover"
      /\ UNCHANGED <<dropped, baseline, cut, snapshot, sidecar, pc, pending, hot, dirty, compaction, blocked,
                     effects, orphaned, answers, crashes>>
      /\ \/ /\ AppendSucceeds(e) /\ UNCHANGED mode
            /\ recovered' = Append(recovered, [seq |-> LastSequence + 1, tx |-> a])
         \/ AppendFails(e) /\ mode' = "down" /\ recovered' = <<>>
  BY <1>2 DEF RecoverOne, history
<1>5. /\ pc \in [Attempt -> Progresses] /\ pending \in [Key -> Attempt \cup {None}]
      /\ hot \in [Key -> Outcome \cup {None}] /\ dirty \in [Key -> DirtyEntry \cup {None}]
      /\ compaction \in Compaction /\ blocked \in BOOLEAN /\ orphaned \subseteq Key
      /\ recovered \in Seq([seq : Nat, tx : Attempt]) /\ cut \in Nat /\ dropped \in 0..cut
      /\ snapshot \in [covered : Nat, open : SUBSET Attempt]
      /\ journal \in Seq(Written) /\ torn \in Written \cup {None, Shorter}
  BY DirtyTyped DEF Typed, TypeOK, Progresses, Compaction
<1>6. faults' \in 0..MaxFaults
  BY <1>4, FaultType DEF AppendSucceeds, AppendFails
<1>7. (a \in snapshot.open \/ Logged(a)) /\ ~Ended(a) /\ Trace(a)
  <2>1. a \in OpenTransactions
    BY DEF RecoverOne
  <2> QED
    BY <2>1, ReadingFacts DEF Trace
<1>8. \A b \in Attempt : pc[b] \in {"idle"} \cup Answered
  BY <1>4 DEF Progress
<1>9. pc[a] \in Answered
  BY <1>7, <1>8 DEF Progress, Early
<1>10. k \notin orphaned => \A o \in Attempt : ~Known(k, o)
  BY <1>1, <1>7 DEF Agreed, OpenUnknown
\* What is known then, unless the agreement is lost on the key.
<1>11. ASSUME \A j \in Key : \A o \in Outcome : Known(j, o)' => Known(j, o) \/ (j = k /\ o = "unknown"),
              \A b \in Attempt : (Trace(b)' => Trace(b)) /\ (Ended(b) => Ended(b)'),
              Torn' /\ IsTerminal(torn)' /\ mode' # "down" => Torn /\ IsTerminal(torn) /\ torn' = torn
       PROVE  Agreed'
  <2>1. ASSUME NEW j \in Key PROVE Earned(j)'
    <3>1. \A o \in Attempt : o # "unknown" /\ o \in Outcome
      BY OutcomeFacts
    <3> QED
      BY <1>4, <1>11, <3>1 DEF Earned, Agreed
  <2>2. ASSUME NEW j \in Key \ orphaned PROVE OneOutcome(j)'
    <3>1. CASE j = k
      <4>1. \A o \in Exact : Known(k, o)' => o = "unknown"
        BY <1>10, <1>11, <3>1, OutcomeFacts DEF Exact
      <4> QED
        BY <3>1, <4>1 DEF OneOutcome
    <3>2. CASE j # k
      BY <1>11, <3>2, OutcomeFacts DEF OneOutcome, Agreed
    <3> QED
      BY <3>1, <3>2
  <2>3. ASSUME NEW j \in Key \ orphaned PROVE OneTransaction(j)'
    BY <1>11 DEF OneTransaction, Agreed
  <2>4. ASSUME NEW j \in Key \ orphaned PROVE OpenUnknown(j)'
    <3> SUFFICES ASSUME NEW b \in Attempt, KeyOf[b] = j, Trace(b)', ~Ended(b)', NEW o \in Attempt
                 PROVE  ~Known(j, o)' /\ (KeyOf[o] = j => pc'[o] # "persist")
      BY DEF OpenUnknown
    <3>1. o # "unknown" /\ o \in Outcome
      BY OutcomeFacts
    <3> QED
      BY <1>4, <1>11, <3>1 DEF OpenUnknown, Agreed
  <2>5. ASSUME NEW j \in Key \ orphaned PROVE Unheard(j)'
    BY <1>4, <1>8 DEF Unheard, Fresh, Answered
  <2>6. \A b \in Attempt : pc'[b] \in {"terminal", "persist"} => effects'[KeyOf[b]] > 0
    BY <1>4 DEF Agreed
  <2>7. Torn' /\ IsTerminal(torn)' /\ mode' \notin {"down", "broken"} => KeyOf[torn'.tx] \in orphaned'
    BY <1>4, <1>11 DEF Agreed
  <2> QED
    BY <1>4, <2>1, <2>2, <2>3, <2>4, <2>5, <2>6, <2>7 DEF Agreed, AtMostOnce
<1>12. CASE /\ AppendSucceeds(e) /\ UNCHANGED mode
            /\ recovered' = Append(recovered, [seq |-> LastSequence + 1, tx |-> a])
  <2>1. PICK n : n = LastSequence + 1 /\ n \in Nat
    BY LogFacts
  <2>2. journal' = Append(journal, e) /\ torn' = None
    BY <1>12 DEF AppendSucceeds
  <2>3. /\ journal' \in Seq(Written) /\ Span' = Span \cup {n}
        /\ \A q \in Span : q < n /\ At(q)' = At(q)
        /\ At(n)' = e
        /\ \A b \in Attempt : (Logged(b)' <=> Logged(b) \/ b = a) /\ (Ended(b)' <=> Ended(b) \/ b = a)
    BY <1>3, <1>4, <2>1, <2>2, Grows
  <2>4. /\ recovered' \in Seq([seq : Nat, tx : Attempt])
        /\ \A m \in 1..Len(recovered') :
             recovered'[m].tx = a \/ \E i \in 1..Len(recovered) : recovered'[m] = recovered[i]
    <3>1. PICK S : S = [seq : Nat, tx : Attempt]
      OBVIOUS
    <3>2. PICK r \in S : r = [seq |-> n, tx |-> a]
      BY <2>1, <3>1
    <3>3. recovered \in Seq(S) /\ recovered' = Append(recovered, r)
      BY <1>5, <1>12, <2>1, <3>1, <3>2
    <3>4. /\ recovered' \in Seq(S) /\ Len(recovered') = Len(recovered) + 1
          /\ \A i \in 1..Len(recovered) : recovered'[i] = recovered[i]
          /\ recovered'[Len(recovered) + 1] = r
      BY <3>3, AppendLemma
    <3>5. r.tx = a /\ Len(recovered) \in Nat
      BY <3>2, <3>3
    <3> QED
      BY <3>1, <3>4, <3>5
  <2>5. Typed'
    <3>1. mode' \in {"down", "recover", "publish", "up", "broken"}
      BY <1>4, <1>12
    <3> QED
      BY <1>4, <1>5, <1>6, <2>2, <2>3, <2>4, <3>1, LogTyped
  <2>6. \A j \in Key : Seen(j)' => Seen(j) \/ j = k
    BY <1>1, <1>3, <1>4, <2>3, <2>4 DEF Seen
  <2>7. Positions' /\ Ordered' /\ Shown'
    BY <1>1, <1>3, <1>4, <1>7, <2>1, <2>2, <2>6, GrowFiles
  <2>8. Progress'
    <3> SUFFICES ASSUME NEW b \in Attempt
                 PROVE  /\ pc[b] \in Early => b \notin snapshot.open /\ ~Logged(b)'
                        /\ pc[b] \in Begun => ~Ended(b)'
      BY <1>4, <1>12, <2>2 DEF Progress, TornOf, Torn
    <3>1. CASE b = a
      BY <1>9, <3>1 DEF Early, Begun, Answered
    <3>2. CASE b # a
      BY <2>3, <3>2 DEF Progress
    <3> QED
      BY <3>1, <3>2
  <2>9. Closed'
    BY <1>4, <1>12 DEF Closed, Serving
  <2>10. \A j \in Key : \A o \in Outcome : Known(j, o)' => Known(j, o) \/ (j = k /\ o = "unknown")
    <3> SUFFICES ASSUME NEW j \in Key, NEW o \in Outcome, Known(j, o)', ~(j = k /\ o = "unknown")
                 PROVE  Known(j, o)
      OBVIOUS
    <3>1. ASSUME NEW q \in Span', IsTerminal(At(q)'), KeyOf[At(q)'.tx] = j, At(q)'.out = o
          PROVE  Known(j, o)
      BY <1>1, <1>3, <2>3, <3>1 DEF Known
    <3>2. ASSUME NEW m \in 1..Len(recovered'), o = "unknown", KeyOf[recovered'[m].tx] = j
          PROVE  Known(j, o)
      BY <1>1, <2>4, <3>2 DEF Known
    <3>3. ~Torn'
      BY <2>2 DEF Torn
    <3> QED
      BY <1>4, <3>1, <3>2, <3>3 DEF Known, IsTerminal
  <2>11. \A b \in Attempt : (Trace(b)' => Trace(b)) /\ (Ended(b) => Ended(b)')
    BY <1>4, <1>7, <2>2, <2>3 DEF Trace, TornOf, Torn
  <2>12. Agreed'
    BY <1>11, <2>2, <2>10, <2>11 DEF Torn
  <2> QED
    BY <1>4, <2>5, <2>7, <2>8, <2>9, <2>12
<1>13. CASE AppendFails(e) /\ mode' = "down" /\ recovered' = <<>>
  <2>1. UNCHANGED journal /\ (torn' \in {torn, None} \/ torn' = e)
    BY <1>13 DEF AppendFails
  <2>2. Typed'
    <3>1. torn \in Written \cup {None, Shorter}
      BY <1>5
    <3>2. e \in Written \cup {None, Shorter}
      BY <1>3
    <3>3. torn' \in Written \cup {None, Shorter}
      BY <2>1, <3>1, <3>2, Zenon
    <3>4. recovered' \in Seq([seq : Nat, tx : Attempt])
      BY <1>13
    <3> QED
      BY <1>4, <1>5, <1>6, <1>13, <2>1, <3>3, <3>4, LogTyped
  <2>3. /\ Span' = Span /\ \A q \in Span : At(q)' = At(q)
        /\ \A b \in Attempt : (Ended(b)' <=> Ended(b)) /\ (Logged(b)' <=> Logged(b))
    BY <1>4, <2>1, SameLog
  <2>4. FilesStep
    <3>1. \A j \in Key : Seen(j)' => Seen(j)
      BY <1>4, <1>13, <2>3 DEF Seen
    <3>2. torn' = e => torn'.tx \in Attempt /\ ~Ended(torn'.tx) /\ pc'[torn'.tx] \in Answered
      BY <1>3, <1>4, <1>7, <1>9
    <3>3. SidecarKept /\ CompactionMoves /\ ModeMoves
      BY <1>4, <1>13, CompactionFacts DEF SidecarKept, ModeMoves, Serving
    <3>4. \A b \in Attempt : CallMoves(b)
      BY <1>4, <1>8, <1>13 DEF CallMoves, Progress, Serving
    <3> QED
      BY <1>4, <2>1, <3>1, <3>2, <3>3, <3>4 DEF FilesStep
  <2>5. \A j \in Key : \A o \in Outcome : Known(j, o)' => Known(j, o) \/ (j = k /\ o = "unknown")
    BY <1>1, <1>3, <1>4, <1>13, <2>1, <2>3 DEF Known, Torn, IsTerminal
  <2>6. \A b \in Attempt : (Trace(b)' => Trace(b)) /\ (Ended(b) => Ended(b)')
    BY <1>3, <1>4, <1>7, <2>1, <2>3 DEF Trace, TornOf, Torn
  <2>7. Agreed'
    BY <1>11, <1>13, <2>5, <2>6
  <2> QED
    BY <1>4, <2>2, <2>4, <2>7, StepFiles
<1> QED
  BY <1>4, <1>12, <1>13

\* Numbers that the snapshot covers are dropped; a torn line may become an event.
Dropping(d) ==
    /\ d \in Nat /\ d <= snapshot.covered
    /\ UNCHANGED <<snapshot, sidecar, pc, pending, hot, dirty, recovered, effects, orphaned, answers>>
    /\ torn' \in {None, Shorter}
    /\ mode' \in Serving => mode' = mode /\ Span' \subseteq Span
    /\ mode' # "up" => mode # "up"
    /\ compaction'.step = "snapshot" => compaction' = compaction /\ d <= compaction.covered
    /\ \A q \in Span : q > d => q \in Span' /\ At(q)' = At(q)
    /\ \A q \in Span' : \/ q \in Span /\ q > d /\ At(q)' = At(q)
                        \/ q = LastSequence + 1 /\ Torn /\ At(q)' = torn

\* Dropping the covered prefix of the log loses nothing the files show.
LEMMA DropStep ==
    ASSUME IInv, NEW d, Dropping(d)
    PROVE  Ordered' /\ Progress' /\ Shown' /\ Closed' /\ Agreed'
<1> USE DEF IInv, Dropping
<1>1. /\ LastSequence \in Nat /\ snapshot.covered \in Nat /\ snapshot.covered <= LastSequence
      /\ \A q \in Span : q \in Nat /\ q <= LastSequence
  BY LogFacts DEF Typed, TypeOK, Positions, Span
<1>2. ~Torn'
  BY DEF Torn
<1>3. Torn => torn.tx \in Attempt
  BY DEF Typed, Torn, Written, Event
<1>4. ASSUME NEW a \in Attempt
      PROVE  /\ Logged(a)' => Logged(a) \/ TornOf(a)
             /\ Ended(a)' => Ended(a) \/ TornOf(a)
  BY DEF Logged, Ended, TornOf, IsTerminal
<1>5. ASSUME NEW a \in Attempt, Logged(a)' \/ a \in snapshot.open, Ended(a)
      PROVE  Ended(a)'
  <2>1. PICK r \in Span : IsTerminal(At(r)) /\ At(r).tx = a
    BY <1>5 DEF Ended
  <2>2. r > d
    <3>1. CASE a \in snapshot.open
      <4>1. r > snapshot.covered
        BY <2>1, <3>1 DEF Ordered
      <4> QED
        BY <1>1, <4>1
    <3>2. CASE Logged(a)'
      <4>1. PICK q \in Span' : At(q)'.tx = a
        BY <3>2 DEF Logged
      <4>2. q \in Span /\ q > d /\ At(q)' = At(q)
        BY <1>5, <4>1 DEF Ordered
      <4>3. ~(r < q)
        BY <2>1, <4>1, <4>2 DEF Ordered
      <4> QED
        BY <1>1, <4>2, <4>3
    <3> QED
      BY <1>5, <3>1, <3>2
  <2> QED
    BY <2>1, <2>2 DEF Ended, IsTerminal
<1>6. Ordered'
  <2>1. ASSUME NEW q \in Span', NEW r \in Span', q < r, IsTerminal(At(q)')
        PROVE  At(q)'.tx # At(r)'.tx
    <3>1. r \in Nat /\ r <= LastSequence + 1
      BY <1>1
    <3>2. q \in Span /\ At(q)' = At(q)
      BY <1>1, <2>1, <3>1
    <3>3. CASE r \in Span /\ At(r)' = At(r)
      BY <2>1, <3>2, <3>3 DEF Ordered, IsTerminal
    <3>4. CASE Torn /\ At(r)' = torn
      BY <1>3, <2>1, <3>2, <3>4 DEF Ordered, Ended, IsTerminal
    <3> QED
      BY <3>3, <3>4
  <2>2. ASSUME NEW q \in Span', IsTerminal(At(q)'), At(q)'.tx \in snapshot.open
        PROVE  q > snapshot.covered
    <3>1. CASE q \in Span /\ At(q)' = At(q)
      BY <2>2, <3>1 DEF Ordered, IsTerminal
    <3>2. CASE q = LastSequence + 1
      BY <1>1, <3>2
    <3> QED
      BY <3>1, <3>2
  <2> QED
    BY <1>2, <2>1, <2>2 DEF Ordered, IsTerminal
<1>7. Progress'
  BY <1>2, <1>4 DEF Progress, TornOf
<1>8. ASSUME NEW k \in Key, Seen(k)' PROVE Strong(k)'
  <2>1. ASSUME NEW q \in Span', q = LastSequence + 1, KeyOf[At(q)'.tx] = k PROVE Strong(k)'
    <3>1. q > snapshot.covered
      BY <1>1, <2>1
    <3> QED
      BY <2>1, <3>1 DEF Strong
  <2>2. CASE Seen(k)
    <3>1. Strong(k)
      BY <2>2 DEF Shown
    <3>2. CASE \E q \in Span : q > snapshot.covered /\ KeyOf[At(q).tx] = k
      <4>1. PICK q \in Span : q > snapshot.covered /\ KeyOf[At(q).tx] = k
        BY <3>2
      <4>2. q > d
        BY <1>1, <4>1
      <4> QED
        BY <4>1, <4>2 DEF Strong
    <3> QED
      BY <3>1, <3>2 DEF Strong
  <2>3. CASE \E q \in Span' : KeyOf[At(q)'.tx] = k
    <3>1. PICK q \in Span' : KeyOf[At(q)'.tx] = k
      BY <2>3
    <3>2. CASE q \in Span /\ At(q)' = At(q)
      BY <2>2, <3>1, <3>2 DEF Seen
    <3>3. CASE q = LastSequence + 1 /\ Torn /\ At(q)' = torn
      BY <2>1, <3>1, <3>3
    <3> QED
      BY <3>2, <3>3
  <2>4. CASE ~\E q \in Span' : KeyOf[At(q)'.tx] = k
    <3>1. Seen(k)
      BY <1>8, <2>4 DEF Seen
    <3> QED
      BY <2>2, <3>1
  <2> QED
    BY <2>3, <2>4
<1>9. ASSUME NEW k \in Key, compaction'.step = "snapshot" PROVE Demands(k)'
  <2> SUFFICES ASSUME NEW q \in Span', IsTerminal(At(q)'), KeyOf[At(q)'.tx] = k, q <= compaction.covered
               PROVE  \/ compaction.expected[k] # None
                      \/ \E r \in Span' : /\ IsTerminal(At(r)') /\ KeyOf[At(r)'.tx] = k
                                          /\ r > compaction.covered
    BY <1>9 DEF Demands, IsTerminal
  <2>0. compaction.covered \in Nat /\ compaction.covered <= LastSequence
    <3>1. compaction.covered \in Nat /\ compaction.covered + Retain <= LastSequence /\ compaction.step # "idle"
      BY <1>9 DEF Positions, Typed, TypeOK
    <3> QED
      BY <1>1, <3>1
  <2>1. q \in Span /\ At(q)' = At(q)
    BY <1>1, <2>0
  <2>2. Demands(k)
    BY <1>9 DEF Shown
  <2>3. \/ compaction.expected[k] # None
        \/ \E r \in Span : IsTerminal(At(r)) /\ KeyOf[At(r).tx] = k /\ r > compaction.covered
    BY <2>1, <2>2 DEF Demands, IsTerminal
  <2>4. ASSUME NEW r \in Span, r > compaction.covered PROVE r \in Span' /\ At(r)' = At(r)
    BY <1>1, <1>9, <2>0, <2>4
  <2> QED
    BY <2>3, <2>4 DEF IsTerminal
<1>10. Shown'
  BY <1>8, <1>9 DEF Shown
<1>11. Closed'
  <2> SUFFICES ASSUME mode' \in Serving, NEW a \in Attempt, Logged(a)' \/ a \in snapshot.open
               PROVE  Underway(a)'
    BY DEF Closed
  <2>1. CASE Underway(a)
    BY <1>5, <2>1 DEF Underway
  <2>2. CASE ~Underway(a)
    <3>1. ~Logged(a) /\ a \notin snapshot.open
      BY <2>2 DEF Closed
    <3>2. ~Logged(a)'
      BY <1>1, <3>1 DEF Logged
    <3> QED
      BY <3>1, <3>2
  <2> QED
    BY <2>1, <2>2
<1>12. \A k \in Key : \A o \in Outcome : Known(k, o)' => Known(k, o)
  <2> SUFFICES ASSUME NEW k \in Key, NEW o \in Outcome, Known(k, o)' PROVE Known(k, o)
    OBVIOUS
  <2>1. ASSUME NEW q \in Span', IsTerminal(At(q)'), KeyOf[At(q)'.tx] = k, At(q)'.out = o
        PROVE  Known(k, o)
    <3>1. CASE q \in Span /\ At(q)' = At(q)
      BY <2>1, <3>1 DEF Known, IsTerminal
    <3>2. CASE Torn /\ At(q)' = torn
      BY <2>1, <3>2 DEF Known, IsTerminal
    <3> QED
      BY <3>1, <3>2
  <2> QED
    BY <1>2, <2>1 DEF Known, IsTerminal
<1>13. \A a \in Attempt : Trace(a)' => Trace(a) /\ (Ended(a) => Ended(a)')
  BY <1>2, <1>4, <1>5 DEF Trace, TornOf
<1>14. Agreed'
  <2>1. ASSUME NEW j \in Key PROVE Earned(j)'
    BY <1>12, OutcomeFacts DEF Earned, Agreed
  <2>2. ASSUME NEW j \in Key \ orphaned PROVE OneOutcome(j)'
    BY <1>12, OutcomeFacts DEF OneOutcome, Agreed
  <2>3. ASSUME NEW j \in Key \ orphaned PROVE OneTransaction(j)'
    BY <1>13 DEF OneTransaction, Agreed
  <2>4. ASSUME NEW j \in Key \ orphaned PROVE OpenUnknown(j)'
    BY <1>12, <1>13, OutcomeFacts DEF OpenUnknown, Agreed
  <2>5. ASSUME NEW j \in Key \ orphaned PROVE Unheard(j)'
    BY <1>12, OutcomeFacts DEF Unheard, Agreed
  <2> QED
    BY <1>2, <2>1, <2>2, <2>3, <2>4, <2>5 DEF Agreed, AtMostOnce
<1> QED
  BY <1>6, <1>7, <1>10, <1>11, <1>14

\* Opening the journal, rollback and torn line included, keeps the invariant.
LEMMA OpenStep ==
    ASSUME IInv, Open
    PROVE  IInv' /\ UNCHANGED <<effects, orphaned, answers>>
<1> USE DEF IInv
<1>1. /\ mode \in {"down", "broken"} /\ mode' = "recover" /\ dropped' = cut /\ torn' = None
      /\ baseline' = snapshot.covered
      /\ journal' = IF torn \in {None, Shorter} THEN SubSeq(journal, cut - dropped + 1, Len(journal))
                    ELSE Append(SubSeq(journal, cut - dropped + 1, Len(journal)), torn)
      /\ UNCHANGED <<cut, snapshot, sidecar, pc, pending, hot, dirty, compaction, blocked, recovered,
                     effects, orphaned, answers, crashes, faults>>
  BY DEF Open, history, bounds
<1>2. /\ pc \in [Attempt -> Progresses] /\ pending \in [Key -> Attempt \cup {None}]
      /\ hot \in [Key -> Outcome \cup {None}] /\ dirty \in [Key -> DirtyEntry \cup {None}]
      /\ compaction \in Compaction /\ blocked \in BOOLEAN /\ orphaned \subseteq Key
      /\ recovered \in Seq([seq : Nat, tx : Attempt]) /\ cut \in Nat /\ faults \in 0..MaxFaults
      /\ snapshot \in [covered : Nat, open : SUBSET Attempt]
      /\ torn \in Written \cup {None, Shorter}
  BY DirtyTyped DEF Typed, TypeOK, Progresses, Compaction
<1>3. /\ cut \in dropped..LastSequence /\ cut <= snapshot.covered /\ LastSequence \in Nat
      /\ snapshot.covered \in Nat /\ compaction.covered \in Nat
  <2>1. cut \in Nat /\ dropped \in Nat /\ LastSequence \in Nat /\ snapshot.covered \in Nat
        /\ compaction.covered \in Nat
    BY LogFacts DEF Typed, TypeOK
  <2>2. dropped <= cut /\ cut <= snapshot.covered /\ snapshot.covered <= LastSequence
    BY DEF Positions
  <2> QED
    BY <2>1, <2>2
<1>4. PICK n : n = LastSequence + 1
  OBVIOUS
<1>5. /\ journal' \in Seq(Written)
      /\ LastSequence' \in {LastSequence, n}
      /\ \A q \in Span : q > cut => q \in Span' /\ At(q)' = At(q)
      /\ \A q \in Span' : \/ q \in Span /\ q > cut /\ At(q)' = At(q)
                          \/ q = n /\ Torn /\ At(q)' = torn
  <2>1. CASE torn \in {None, Shorter}
    <3>1. /\ journal' \in Seq(Written)
          /\ LastSequence' = LastSequence /\ Span' = {q \in Span : q > cut}
          /\ \A q \in Span' : At(q)' = At(q)
      BY <1>1, <1>3, <2>1, Drops
    <3> QED
      BY <3>1
  <2>2. CASE torn \notin {None, Shorter}
    <3>1. torn \in Written
      BY <1>2, <2>2
    <3>2. dropped' = cut /\ journal' = Append(SubSeq(journal, cut - dropped + 1, Len(journal)), torn)
      BY <1>1, <2>2
    <3>3. /\ journal' \in Seq(Written)
          /\ LastSequence' = n
          /\ Span' = {q \in Span : q > cut} \cup {n}
          /\ \A q \in Span : q < n /\ (q > cut => At(q)' = At(q))
          /\ At(n)' = torn
      <4>1. Typed /\ n = LastSequence + 1 /\ cut \in dropped..LastSequence
        BY <1>3, <1>4
      <4> HIDE DEF IInv
      <4> QED
        BY <3>1, <3>2, <4>1, DropsAndGrows
    <3> QED
      BY <2>2, <3>3 DEF Torn
  <2> QED
    BY <2>1, <2>2
<1>6. Typed'
  <2>1. dropped' \in 0..cut' /\ cut' \in Nat
    BY <1>1, <1>2
  <2>2. mode' \in {"down", "recover", "publish", "up", "broken"}
    BY <1>1
  <2>3. torn' \in Written \cup {None, Shorter}
    BY <1>1
  <2> QED
    BY <1>1, <1>2, <1>3, <1>5, <2>1, <2>2, <2>3, LogTyped
<1>7. Positions'
  <2>1. LastSequence' \in Nat /\ LastSequence <= LastSequence'
    BY <1>3, <1>4, <1>5
  <2>2. /\ cut = 0 \/ cut + Retain <= LastSequence
        /\ snapshot.covered <= LastSequence
        /\ compaction.step # "idle" => cut <= compaction.covered /\ compaction.covered + Retain <= LastSequence
        /\ compaction.step \in Compacting => snapshot.covered = compaction.covered
    BY DEF Positions
  <2>3. /\ cut = 0 \/ cut + Retain <= LastSequence'
        /\ snapshot.covered <= LastSequence'
        /\ compaction.step # "idle" => compaction.covered + Retain <= LastSequence'
    BY <1>2, <1>3, <2>1, <2>2
  <2> QED
    BY <1>1, <1>2, <1>3, <2>2, <2>3 DEF Positions
<1>8. Dropping(cut)
  <2>1. compaction'.step = "snapshot" => compaction' = compaction /\ cut <= compaction.covered
    BY <1>1 DEF Positions
  <2> QED
    BY <1>1, <1>2, <1>3, <1>4, <1>5, <2>1 DEF Dropping, Serving
<1>9. Ordered' /\ Progress' /\ Shown' /\ Closed' /\ Agreed'
  BY <1>8, DropStep
<1> QED
  BY <1>1, <1>6, <1>7, <1>9

\* Truncation; a fault may leave the file ahead of memory.
LEMMA CompactTruncateStep ==
    ASSUME IInv, CompactTruncate
    PROVE  IInv' /\ UNCHANGED <<effects, orphaned, answers>>
<1> USE DEF IInv
<1>1. /\ compaction.step = "markers" /\ mode \in Serving
      /\ UNCHANGED <<baseline, snapshot, sidecar, mode, pc, pending, hot, dirty, recovered, effects, orphaned,
                     answers, crashes>>
  BY DEF CompactTruncate, history, Serving
<1>2. /\ pc \in [Attempt -> Progresses] /\ pending \in [Key -> Attempt \cup {None}]
      /\ hot \in [Key -> Outcome \cup {None}] /\ dirty \in [Key -> DirtyEntry \cup {None}]
      /\ compaction \in Compaction /\ blocked \in BOOLEAN /\ orphaned \subseteq Key
      /\ recovered \in Seq([seq : Nat, tx : Attempt]) /\ cut \in Nat /\ dropped \in 0..cut
      /\ snapshot \in [covered : Nat, open : SUBSET Attempt]
      /\ journal \in Seq(Written) /\ torn \in Written \cup {None, Shorter}
      /\ mode \in {"down", "recover", "publish", "up", "broken"}
  BY DirtyTyped DEF Typed, TypeOK, Progresses, Compaction
<1>3. faults' \in 0..MaxFaults
  BY FaultType DEF CompactTruncate
<1>4. PICK c \in Nat : c = compaction.covered
  BY <1>2 DEF Compaction
<1>5. snapshot.covered = c /\ dropped <= c /\ cut <= c /\ c + Retain <= LastSequence /\ LastSequence \in Nat
  BY <1>1, <1>4, LogFacts DEF Positions, Compacting
<1>6. CASE /\ journal' = SubSeq(journal, c - dropped + 1, Len(journal))
           /\ cut' = c /\ dropped' = c /\ torn' = None
           /\ Advance("final", compaction.expected) /\ UNCHANGED blocked
  <2>1. c \in dropped..LastSequence
    BY <1>2, <1>5
  <2>2. /\ journal' \in Seq(Written)
        /\ LastSequence' = LastSequence /\ Span' = {q \in Span : q > c}
        /\ \A q \in Span' : At(q)' = At(q)
    BY <1>6, <2>1, Drops
  <2>3. compaction' \in Compaction /\ compaction'.step = "final" /\ compaction'.covered = c
    BY <1>2, <1>4, <1>6 DEF Advance, Compaction
  <2>4. Typed'
    BY <1>1, <1>2, <1>3, <1>6, <2>2, <2>3, LogTyped
  <2>5. Positions'
    BY <1>1, <1>2, <1>5, <1>6, <2>2, <2>3 DEF Positions, Compacting
  <2>6. Dropping(c)
    BY <1>1, <1>5, <1>6, <2>2, <2>3 DEF Dropping
  <2>7. Ordered' /\ Progress' /\ Shown' /\ Closed' /\ Agreed'
    BY <2>6, DropStep
  <2> QED
    BY <1>1, <2>4, <2>5, <2>7
<1>7. CASE /\ EndCompaction(TRUE) /\ UNCHANGED <<journal, dropped>>
           /\ \/ UNCHANGED <<cut, torn>>
              \/ cut' = c /\ torn' = IF torn = None THEN None ELSE Shorter
  <2>1. compaction' = NoCompaction /\ blocked' = TRUE /\ compaction'.step = "idle"
    BY <1>7 DEF EndCompaction, NoCompaction
  <2>2. compaction' \in Compaction /\ CompactionMoves
    BY <2>1, CompactionFacts
  <2>3. cut' \in Nat /\ dropped' \in 0..cut' /\ torn' \in Written \cup {None, Shorter}
    BY <1>2, <1>5, <1>7
  <2>4. Typed'
    BY <1>1, <1>2, <1>3, <1>7, <2>1, <2>2, <2>3, LogTyped
  <2>5. QuietStep /\ QuietAgreement
    <3>1. torn' \in {torn, None, Shorter}
      BY <1>7
    <3>2. cut' = cut \/ (cut' = snapshot.covered /\ compaction.step \in Compacting /\ compaction'.step = "idle")
      BY <1>1, <1>5, <1>7, <2>1 DEF Compacting
    <3>3. \A j \in Key : /\ Seen(j)' => Seen(j) \/ Strong(j)'
                         /\ \A o \in Outcome : Known(j, o)' => Source(j, o)
      BY <1>1, <1>7, <3>1, SeenFacts, NewsFacts, HeldIsKnown
    <3>4. \A b \in Attempt : CallMoves(b)
      BY <1>1 DEF CallMoves, Progress
    <3>5. SidecarKept /\ ModeMoves
      BY <1>1 DEF SidecarKept, ModeMoves
    <3> QED
      BY <1>1, <1>7, <2>2, <3>1, <3>2, <3>3, <3>4, <3>5 DEF QuietStep, FilesStep, QuietAgreement
  <2> QED
    BY <1>1, <2>4, <2>5, QuietFiles, QuietAgreed
<1> QED
  <2>1. \/ /\ journal' = SubSeq(journal, c - dropped + 1, Len(journal))
           /\ cut' = c /\ dropped' = c /\ torn' = None
           /\ Advance("final", compaction.expected) /\ UNCHANGED blocked
        \/ /\ EndCompaction(TRUE) /\ UNCHANGED <<journal, dropped>>
           /\ \/ UNCHANGED <<cut, torn>>
              \/ cut' = c /\ torn' = IF torn = None THEN None ELSE Shorter
    BY <1>4 DEF CompactTruncate
  <2> QED
    BY <1>6, <1>7, <2>1

\* The open transactions of a snapshot, read over the log.
LEMMA OpenBelowFacts ==
    ASSUME Typed, NEW c \in Nat
    PROVE  /\ OpenBelow(c) \subseteq Attempt
           /\ \A a \in Attempt : a \in OpenBelow(c) <=>
                /\ a \in snapshot.open \/ \E q \in Span : snapshot.covered < q /\ q <= c /\ At(q).tx = a
                /\ ~\E q \in Span : snapshot.covered < q /\ q <= c /\ IsTerminal(At(q)) /\ At(q).tx = a
<1> DEFINE since == {i \in 1..Len(journal) : SequenceAt(i) \in snapshot.covered + 1..c}
<1>1. snapshot.covered \in Nat /\ snapshot.open \subseteq Attempt /\ dropped \in Nat
  BY DEF Typed, TypeOK
<1>2. \A i \in since : /\ dropped + i \in Span /\ At(dropped + i) = journal[i]
                       /\ snapshot.covered < dropped + i /\ dropped + i <= c
  BY <1>1, LogFacts DEF SequenceAt
<1>3. \A q \in Span : snapshot.covered < q /\ q <= c =>
        q - dropped \in since /\ journal[q - dropped] = At(q)
  <2> SUFFICES ASSUME NEW q \in Span, snapshot.covered < q, q <= c
               PROVE  q - dropped \in since /\ journal[q - dropped] = At(q)
    OBVIOUS
  <2>1. q \in Nat /\ q - dropped \in 1..Len(journal)
    BY LogFacts
  <2>2. dropped + (q - dropped) = q
    BY <1>1, <2>1
  <2> QED
    BY <1>1, <2>1, <2>2 DEF SequenceAt, At
<1>4. \A i \in since : journal[i].tx \in Attempt
  BY <1>2, LogFacts
<1>5. OpenBelow(c) = {a \in snapshot.open \cup {journal[i].tx : i \in since} :
                        ~\E i \in since : journal[i].kind = "terminal" /\ journal[i].tx = a}
  BY DEF OpenBelow
<1> HIDE DEF since
<1>6. \A a \in Attempt : (\E i \in since : journal[i].tx = a) <=>
                         \E q \in Span : snapshot.covered < q /\ q <= c /\ At(q).tx = a
  BY <1>2, <1>3
<1>7. \A a \in Attempt : (\E i \in since : journal[i].kind = "terminal" /\ journal[i].tx = a) <=>
                         \E q \in Span : snapshot.covered < q /\ q <= c /\ IsTerminal(At(q)) /\ At(q).tx = a
  BY <1>2, <1>3 DEF IsTerminal
<1>8. OpenBelow(c) \subseteq Attempt
  BY <1>1, <1>4, <1>5
<1> QED
  BY <1>5, <1>6, <1>7, <1>8

\* The new snapshot stands for the prefix it covers, with the verified sidecars.
LEMMA SnapshotStep ==
    ASSUME IInv, compaction.step = "snapshot", mode \in Serving,
           \A k \in Key : compaction.expected[k] # None => sidecar[k] # None,
           snapshot' = [covered |-> compaction.covered, open |-> OpenBelow(compaction.covered)],
           compaction' \in Compaction, compaction'.step \in {"idle", "batch"},
           compaction'.step = "batch" => compaction'.covered = compaction.covered,
           blocked' \in BOOLEAN, faults' \in 0..MaxFaults,
           UNCHANGED <<journal, cut, dropped, baseline, torn, sidecar, mode, pc, pending, hot, dirty, recovered,
                       effects, orphaned, answers, crashes>>
    PROVE  IInv'
<1> USE DEF IInv
<1>1. PICK c \in Nat : c = compaction.covered
  BY DEF Typed, TypeOK
<1>2. /\ dropped <= c /\ cut <= c /\ c <= LastSequence /\ c + Retain <= LastSequence
      /\ LastSequence \in Nat /\ snapshot.covered \in Nat /\ \A q \in Span : q \in Nat
  <2>1. LastSequence \in Nat /\ snapshot.covered \in Nat /\ \A q \in Span : q \in Nat
    BY LogFacts DEF Typed, TypeOK
  <2>2. dropped <= c /\ cut <= c /\ c + Retain <= LastSequence
    BY <1>1 DEF Positions
  <2> QED
    BY <2>1, <2>2
<1>3. snapshot'.covered = c /\ snapshot'.open = OpenBelow(c)
  BY <1>1
<1>4. /\ LastSequence' = LastSequence /\ Span' = Span /\ \A q \in Span : At(q)' = At(q)
      /\ \A a \in Attempt : (Ended(a)' <=> Ended(a)) /\ (Logged(a)' <=> Logged(a))
  BY SameLog
<1>5. /\ snapshot'.open \subseteq Attempt
      /\ \A a \in Attempt : a \in snapshot'.open <=>
           /\ a \in snapshot.open \/ \E q \in Span : snapshot.covered < q /\ q <= c /\ At(q).tx = a
           /\ ~\E q \in Span : snapshot.covered < q /\ q <= c /\ IsTerminal(At(q)) /\ At(q).tx = a
  BY <1>3, OpenBelowFacts
<1>6. \A a \in Attempt : a \in snapshot'.open => a \in snapshot.open \/ Logged(a)
  BY <1>5 DEF Logged
<1>7. Typed'
  <2>1. snapshot' \in [covered : Nat, open : SUBSET Attempt]
    BY <1>1, <1>3, <1>5
  <2>2. /\ pc \in [Attempt -> Progresses] /\ pending \in [Key -> Attempt \cup {None}]
        /\ hot \in [Key -> Outcome \cup {None}] /\ dirty \in [Key -> DirtyEntry \cup {None}]
        /\ orphaned \subseteq Key
        /\ recovered \in Seq([seq : Nat, tx : Attempt]) /\ cut \in Nat /\ dropped \in 0..cut
        /\ journal \in Seq(Written) /\ torn \in Written \cup {None, Shorter}
        /\ mode \in {"down", "recover", "publish", "up", "broken"}
    BY DirtyTyped DEF Typed, TypeOK, Progresses
  <2> QED
    BY <2>1, <2>2, LogTyped
<1>8. Positions'
  BY <1>1, <1>2, <1>3, <1>4 DEF Positions, Compacting
<1>9. Ordered'
  <2>1. ASSUME NEW q \in Span, IsTerminal(At(q)), At(q).tx \in snapshot'.open PROVE q > c
    <3>1. PICK a \in Attempt : a = At(q).tx
      BY LogFacts
    <3>2. ~(snapshot.covered < q /\ q <= c)
      BY <1>5, <2>1, <3>1
    <3>3. CASE a \in snapshot.open
      <4>1. q > snapshot.covered
        BY <2>1, <3>1, <3>3 DEF Ordered
      <4> QED
        BY <1>2, <3>2, <4>1
    <3>4. CASE \E r \in Span : snapshot.covered < r /\ r <= c /\ At(r).tx = a
      <4>1. PICK r \in Span : snapshot.covered < r /\ r <= c /\ At(r).tx = a
        BY <3>4
      <4>2. ~(q < r)
        BY <2>1, <3>1, <4>1 DEF Ordered
      <4> QED
        BY <1>2, <3>2, <4>1, <4>2
    <3> QED
      BY <1>5, <2>1, <3>1, <3>3, <3>4
  <2> QED
    <3>1. (\A q \in Span : \A r \in Span : q < r /\ IsTerminal(At(q)) => At(q).tx # At(r).tx)'
      BY <1>4 DEF Ordered, IsTerminal
    <3>2. (\A q \in Span : IsTerminal(At(q)) /\ At(q).tx \in snapshot.open => q > snapshot.covered)'
      BY <1>3, <1>4, <2>1 DEF IsTerminal
    <3>3. (Torn => ~Ended(torn.tx))'
      BY <1>4 DEF Ordered, Torn, Typed, Written, Event
    <3> QED
      BY <3>1, <3>2, <3>3 DEF Ordered
<1>10. Progress'
  BY <1>4, <1>6 DEF Progress, TornOf, Torn
<1>11. ASSUME NEW k \in Key, Strong(k) PROVE Strong(k)'
  <2>1. ASSUME NEW q \in Span, q > c, KeyOf[At(q).tx] = k PROVE Strong(k)'
    BY <1>3, <1>4, <2>1 DEF Strong
  <2>2. ASSUME NEW r \in Span, IsTerminal(At(r)), KeyOf[At(r).tx] = k, r <= c PROVE Strong(k)'
    <3>1. Demands(k)
      BY DEF Shown
    <3>2. CASE compaction.expected[k] # None
      BY <3>2 DEF Strong
    <3>3. CASE \E q \in Span : IsTerminal(At(q)) /\ KeyOf[At(q).tx] = k /\ q > c
      BY <2>1, <3>3
    <3> QED
      BY <1>1, <2>2, <3>1, <3>2, <3>3 DEF Demands
  <2>3. ASSUME NEW a \in Attempt, KeyOf[a] = k,
               a \in snapshot.open \/ \E q \in Span : snapshot.covered < q /\ q <= c /\ At(q).tx = a
        PROVE  Strong(k)'
    <3>1. CASE \E q \in Span : snapshot.covered < q /\ q <= c /\ IsTerminal(At(q)) /\ At(q).tx = a
      BY <2>2, <2>3, <3>1
    <3>2. CASE ~\E q \in Span : snapshot.covered < q /\ q <= c /\ IsTerminal(At(q)) /\ At(q).tx = a
      <4>1. a \in snapshot'.open
        BY <1>5, <2>3, <3>2
      <4> QED
        BY <2>3, <4>1 DEF Strong
    <3> QED
      BY <3>1, <3>2
  <2>4. CASE \E q \in Span : q > snapshot.covered /\ KeyOf[At(q).tx] = k
    <3>1. PICK q \in Span : q > snapshot.covered /\ KeyOf[At(q).tx] = k
      BY <2>4
    <3>2. CASE q > c
      BY <2>1, <3>1, <3>2
    <3>3. CASE q <= c
      BY <2>3, <3>1, <3>3, LogFacts
    <3> QED
      BY <1>2, <3>2, <3>3
  <2>5. CASE \E a \in snapshot.open : KeyOf[a] = k
    BY <2>3, <2>5 DEF Typed, TypeOK
  <2>6. CASE sidecar[k] # None
    BY <2>6 DEF Strong
  <2> QED
    BY <1>11, <2>4, <2>5, <2>6 DEF Strong
<1>12. Shown'
  <2>1. \A k \in Key : Seen(k)' => Seen(k)
    BY <1>4 DEF Seen
  <2> QED
    BY <1>11, <2>1 DEF Shown
<1>13. Closed'
  BY <1>4, <1>6 DEF Closed, Underway
<1>14. Agreed'
  <2>1. \A a \in Attempt : Trace(a)' => Trace(a)
    BY <1>4, <1>6 DEF Trace, TornOf, Torn
  <2>2. \A k \in Key : \A o \in Outcome : Known(k, o)' <=> Known(k, o)
    BY <1>4 DEF Known, Torn, IsTerminal
  <2>3. ASSUME NEW j \in Key PROVE Earned(j)'
    BY <2>2, OutcomeFacts DEF Earned, Agreed
  <2>4. ASSUME NEW j \in Key \ orphaned PROVE OneOutcome(j)' /\ OneTransaction(j)'
    BY <2>1, <2>2, OutcomeFacts DEF OneOutcome, OneTransaction, Agreed
  <2>5. ASSUME NEW j \in Key \ orphaned PROVE OpenUnknown(j)'
    BY <1>4, <2>1, <2>2, OutcomeFacts DEF OpenUnknown, Agreed
  <2>6. ASSUME NEW j \in Key \ orphaned PROVE Unheard(j)'
    BY <2>2, OutcomeFacts DEF Unheard, Agreed
  <2> QED
    BY <2>3, <2>4, <2>5, <2>6 DEF Agreed, AtMostOnce, Torn, IsTerminal
<1> QED
  BY <1>7, <1>8, <1>9, <1>10, <1>12, <1>13, <1>14

\* Writing the snapshot keeps the invariant.
LEMMA CompactSnapshotStep ==
    ASSUME IInv, CompactSnapshot
    PROVE  IInv' /\ UNCHANGED <<effects, orphaned, answers>>
<1> USE DEF IInv
<1>1. /\ compaction.step = "snapshot" /\ mode \in Serving
      /\ UNCHANGED <<journal, cut, dropped, baseline, torn, sidecar, mode, pc, pending, hot, dirty, recovered,
                     effects, orphaned, answers, crashes>>
  BY DEF CompactSnapshot, history, Serving
<1>2. faults' \in 0..MaxFaults
  BY FaultType DEF CompactSnapshot
<1>3. CASE EndCompaction(TRUE) /\ UNCHANGED snapshot
  <2>1. compaction' = NoCompaction /\ blocked' \in BOOLEAN /\ compaction' \in Compaction /\ CompactionMoves
    BY <1>3, CompactionFacts DEF EndCompaction
  <2>2. Typed'
    BY <1>1, <1>2, <1>3, <2>1, QuietTyped DEF Typed, TypeOK, Progresses, DirtyEntry
  <2>3. QuietStep /\ QuietAgreement
    <3>1. \A j \in Key : /\ Seen(j)' => Seen(j) \/ Strong(j)'
                         /\ \A o \in Outcome : Known(j, o)' => Source(j, o)
      BY <1>1, SeenFacts, NewsFacts, HeldIsKnown
    <3>2. \A b \in Attempt : CallMoves(b)
      BY <1>1 DEF CallMoves, Progress
    <3>3. SidecarKept /\ ModeMoves
      BY <1>1 DEF SidecarKept, ModeMoves
    <3> QED
      BY <1>1, <1>3, <2>1, <3>1, <3>2, <3>3 DEF QuietStep, FilesStep, QuietAgreement
  <2> QED
    BY <1>1, <2>2, <2>3, QuietFiles, QuietAgreed
<1>4. CASE /\ \A k \in Key : compaction.expected[k] # None =>
                sidecar[k] \in {"compacted", compaction.expected[k]}
           /\ snapshot' = [covered |-> compaction.covered, open |-> OpenBelow(compaction.covered)]
           /\ \/ EndCompaction(TRUE)
              \/ /\ Advance("batch", [k \in Key |-> IF compaction.expected[k] = None THEN None ELSE sidecar[k]])
                 /\ UNCHANGED blocked
  <2>1. \A k \in Key : compaction.expected[k] # None => sidecar[k] # None
    BY <1>4
  <2>2. compaction \in Compaction /\ sidecar \in [Key -> Outcome \cup {None}] /\ blocked \in BOOLEAN
    BY DEF Typed, TypeOK, Compaction
  <2>3. /\ compaction' \in Compaction /\ compaction'.step \in {"idle", "batch"} /\ blocked' \in BOOLEAN
        /\ compaction'.step = "batch" => compaction'.covered = compaction.covered
    <3>1. CASE EndCompaction(TRUE)
      BY <3>1, CompactionFacts DEF EndCompaction, NoCompaction
    <3>2. CASE /\ Advance("batch", [k \in Key |-> IF compaction.expected[k] = None THEN None ELSE sidecar[k]])
               /\ UNCHANGED blocked
      BY <2>2, <3>2 DEF Advance, Compaction
    <3> QED
      BY <1>4, <3>1, <3>2
  <2> QED
    BY <1>1, <1>2, <1>4, <2>1, <2>3, SnapshotStep
<1> QED
  <2> DEFINE next == [covered |-> compaction.covered, open |-> OpenBelow(compaction.covered)]
             verified == \A k \in Key : compaction.expected[k] # None =>
                           sidecar[k] \in {"compacted", compaction.expected[k]}
  <2>1. \/ EndCompaction(TRUE) /\ UNCHANGED snapshot
        \/ /\ verified
           /\ snapshot' = next
           /\ \/ EndCompaction(TRUE)
              \/ /\ Advance("batch", [k \in Key |-> IF compaction.expected[k] = None THEN None ELSE sidecar[k]])
                 /\ UNCHANGED blocked
    <3> HIDE DEF next, verified
    <3>1. \/ EndCompaction(TRUE) /\ UNCHANGED snapshot
          \/ /\ verified
             /\ snapshot' = next
             /\ Advance("batch", [k \in Key |-> IF compaction.expected[k] = None THEN None ELSE sidecar[k]])
             /\ UNCHANGED blocked
          \/ verified /\ snapshot' \in {snapshot, next} /\ EndCompaction(TRUE)
      BY DEF CompactSnapshot, next, verified
    <3> QED
      BY <3>1
  <2> QED
    BY <1>3, <1>4, <2>1

-----------------------------------------------------------------------------
(* Every step. *)

\* What a step does to the history of the keys.
Performed == \E a \in Attempt : PerformEffect(a)

Excused ==
    /\ UNCHANGED <<effects, answers>>
    /\ \E k \in Key : effects[k] > 0 /\ orphaned' = orphaned \cup {k}

\* Quiet steps keep the invariant.
LEMMA QuietNext == IInv /\ Quiet /\ QuietAgreement => IInv' /\ HistoryStep
BY QuietFiles, QuietAgreed DEF Quiet, IInv

\* The invariant holds of empty files and a stopped process.
LEMMA Initially == Init => IInv
<1> SUFFICES ASSUME Init PROVE IInv
  OBVIOUS
<1> USE DEF Init
<1>1. /\ Span = {} /\ LastSequence = 0 /\ Len(journal) = 0
  BY DEF Span, LastSequence
<1>2. ~Torn /\ \A a \in Attempt : ~Logged(a) /\ ~Ended(a) /\ ~TornOf(a) /\ ~Trace(a) /\ pc[a] = "idle"
  BY <1>1 DEF Torn, Logged, Ended, TornOf, Trace
<1>3. Typed
  <2>1. compaction \in [step : {"idle", "flush", "snapshot", "batch", "markers", "final"},
                        covered : Nat, expected : [Key -> Outcome \cup {None}],
                        guard : {"valid", "invalidated"}]
    BY DEF NoCompaction
  <2>2. journal \in Seq(Event) /\ journal \in Seq(Written)
    OBVIOUS
  <2>3. recovered \in Seq([seq : Nat, tx : Attempt])
    OBVIOUS
  <2>4. snapshot \in [covered : Nat, open : SUBSET Attempt]
    OBVIOUS
  <2> QED
    <3>1. /\ cut \in Nat /\ dropped \in 0..cut /\ baseline \in Nat
          /\ crashes \in 0..MaxCrashes /\ faults \in 0..MaxFaults
      OBVIOUS
    <3>2. /\ pc \in [Attempt -> Progresses] /\ effects \in [Key -> Nat]
          /\ answers \in [Key -> SUBSET Outcome]
      BY DEF Progresses
    <3>3. /\ pending \in [Key -> Attempt \cup {None}]
          /\ dirty \in [Key -> DirtyEntry \cup {None}]
          /\ hot \in [Key -> Outcome \cup {None}] /\ sidecar \in [Key -> Outcome \cup {None}]
      OBVIOUS
    <3> QED
      BY <2>1, <2>2, <2>3, <2>4, <3>1, <3>2, <3>3 DEF Typed, TypeOK, DirtyEntry, Progresses
<1>4. Positions
  BY <1>1 DEF Positions, NoCompaction, Compacting
<1>5. Ordered /\ Progress /\ Closed
  BY <1>1, <1>2 DEF Ordered, Progress, Closed, Begun, Owning, Executing, Serving
<1>6. \A k \in Key : ~Seen(k) /\ \A o \in Outcome : ~Known(k, o)
  BY <1>1, <1>2, OutcomeFacts DEF Seen, Known
<1>7. Shown
  BY <1>6 DEF Shown, NoCompaction
<1>8. Agreed
  BY <1>2, <1>6, OutcomeFacts DEF Agreed, Earned, OneOutcome, OneTransaction, OpenUnknown, Unheard, Fresh,
                                  AtMostOnce
<1> QED
  BY <1>3, <1>4, <1>5, <1>7, <1>8 DEF IInv

\* Every step of a call keeps the invariant.
LEMMA StepNext ==
    ASSUME IInv, NEW a \in Attempt, Submit(a) \/ Step(a)
    PROVE  IInv' /\ (HistoryStep \/ Performed \/ Excused)
<1>1. CASE Submit(a) \/ LookupRetained(a) \/ LookupSidecar(a)
  BY <1>1, SubmitQuiet, LookupRetainedQuiet, LookupSidecarQuiet, QuietNext
<1>2. CASE PassDurabilityGate(a) \/ Reserve(a) \/ PersistOutcome(a)
  BY <1>2, PassDurabilityGateQuiet, ReserveQuiet, PersistOutcomeQuiet, QuietNext
<1>3. CASE AppendRequest(a)
  BY <1>3, AppendRequestStep
<1>4. CASE PerformEffect(a)
  BY <1>4, PerformEffectStep DEF Performed
<1>5. CASE AppendTerminal(a)
  BY <1>5, AppendTerminalStep, OutcomeFacts DEF HistoryStep, Excused
<1> QED
  BY <1>1, <1>2, <1>3, <1>4, <1>5 DEF Step

\* Every step of a compaction keeps the invariant.
LEMMA CompactNext ==
    ASSUME IInv, Compact
    PROVE  IInv' /\ HistoryStep
<1>1. CASE CompactFlush \/ CompactBatch \/ CompactEnd \/ \E k \in Key : MarkCompacted(k)
  BY <1>1, CompactFlushQuiet, CompactBatchQuiet, MarkCompactedQuiet, QuietNext
<1>2. CASE CompactSnapshot \/ CompactTruncate
  BY <1>2, CompactSnapshotStep, CompactTruncateStep DEF HistoryStep
<1> QED
  BY <1>1, <1>2 DEF Compact

\* Crashes, starts and evictions keep the invariant.
LEMMA LifeNext ==
    ASSUME IInv, Crash \/ Open \/ Create \/ CreateFails \/ \E k \in Key : Evict(k)
    PROVE  IInv' /\ HistoryStep
<1>1. CASE Crash \/ CreateFails \/ \E k \in Key : Evict(k)
  BY <1>1, CrashQuiet, EvictQuiet, QuietNext
<1>2. CASE Open \/ \E a \in Attempt : RecoverOne(a)
  BY <1>2, OpenStep, RecoverOneStep DEF HistoryStep
<1>3. CASE RecoveryDone \/ PublishRecovered \/ Restore
  BY <1>3, RecoveryDoneQuiet, PublishRecoveredQuiet, RestoreQuiet, QuietNext
<1> QED
  BY <1>1, <1>2, <1>3 DEF Create

\* Every step keeps the invariant, and is seen as one of three in the contract.
LEMMA NextFacts ==
    ASSUME IInv, Next
    PROVE  IInv' /\ (HistoryStep \/ Performed \/ Excused)
BY StepNext, CompactNext, LifeNext DEF Next

\* A stuttering step keeps the invariant.
LEMMA IdleFacts ==
    ASSUME IInv, UNCHANGED vars
    PROVE  IInv'
<1> USE DEF IInv
<1>1. /\ UNCHANGED <<journal, cut, dropped, torn, snapshot, baseline, effects, orphaned, mode, sidecar, pc,
                     pending, hot, dirty, compaction, blocked, recovered, answers, crashes, faults>>
  BY DEF vars, files, memory, history, bounds
<1>2. Typed'
  BY <1>1 DEF Typed, TypeOK
<1>3. QuietStep /\ QuietAgreement
  <2>1. \A j \in Key : /\ Seen(j)' => Seen(j) \/ Strong(j)'
                       /\ \A o \in Outcome : Known(j, o)' => Source(j, o)
    BY <1>1, SeenFacts, NewsFacts, HeldIsKnown
  <2>2. \A b \in Attempt : CallMoves(b)
    BY <1>1 DEF CallMoves, Progress
  <2>3. SidecarKept /\ CompactionMoves /\ ModeMoves
    BY <1>1, CompactionFacts DEF SidecarKept, ModeMoves
  <2> QED
    BY <1>1, <2>1, <2>2, <2>3 DEF QuietStep, FilesStep, QuietAgreement
<1> QED
  BY <1>2, <1>3, QuietFiles, QuietAgreed

\* No step of owner, compaction, recovery or crash leaves the inductive invariant:
\* log, snapshot and sidecars always hold what was done and told of every key.
THEOREM Inductive == Spec => []IInv
<1>1. IInv /\ [Next]_vars => IInv'
  BY NextFacts, IdleFacts
<1> QED
  BY <1>1, Initially, PTL DEF Spec

-----------------------------------------------------------------------------
(* Theorems. *)

\* Every reachable state of files, owner process and clients is well typed.
THEOREM TypeCorrect == Spec => []TypeOK
BY Inductive, PTL DEF IInv, Typed

\* performCompaction and recoverNonterminalCommands: wherever the process stops, an
\* effect that was performed shows in the files.
THEOREM EffectsShow == Spec => []CrashSafe
<1>1. IInv => CrashSafe
  <2> SUFFICES ASSUME IInv, NEW k \in Key, effects[k] > 0 PROVE Evidence(k)
    BY DEF CrashSafe
  <2>1. Strong(k)
    BY DEF IInv, Shown, Seen
  <2>2. CASE \E q \in Span : q > snapshot.covered /\ KeyOf[At(q).tx] = k
    <3>1. PICK q \in Span : q > snapshot.covered /\ KeyOf[At(q).tx] = k
      BY <2>2
    <3>2. q \in Nat /\ dropped \in Nat /\ q - dropped \in 1..Len(journal)
      BY LogFacts DEF IInv
    <3>3. q - dropped \in EventsOf(k) /\ SequenceAt(q - dropped) = q
      BY <3>1, <3>2 DEF EventsOf, At, SequenceAt
    <3>4. q > cut
      BY <3>1, <3>2 DEF IInv, Positions, Typed, TypeOK
    <3> QED
      BY <3>3, <3>4 DEF Evidence
  <2> QED
    BY <2>1, <2>2 DEF Strong, Evidence
<1> QED
  BY <1>1, Inductive, PTL

\* submit() and reconstructRetainedOutcome: no retry runs an effect again, unless the
\* journal refused the terminal event of the first run.
THEOREM RunsAtMostOnce == Spec => []AtMostOnce
BY Inductive, PTL DEF IInv, Agreed

\* recoverNonterminalCommands and appendTerminal: one terminal event per transaction.
THEOREM TerminatesOnce == Spec => []TerminalOnce
<1>1. IInv => TerminalOnce
  <2> SUFFICES ASSUME IInv, NEW i \in 1..Len(journal), NEW j \in 1..Len(journal),
                      journal[i].kind = "terminal", journal[j].kind = "terminal",
                      journal[i].tx = journal[j].tx
               PROVE  i = j
    BY DEF TerminalOnce
  <2>1. PICK q \in Span : q = dropped + i /\ At(q) = journal[i]
    BY LogFacts DEF IInv
  <2>2. PICK r \in Span : r = dropped + j /\ At(r) = journal[j]
    BY LogFacts DEF IInv
  <2>3. ~(q < r) /\ ~(r < q)
    BY <2>1, <2>2 DEF IInv, Ordered, IsTerminal
  <2>4. dropped \in Nat /\ i \in Nat /\ j \in Nat
    BY NumberFacts DEF IInv
  <2> QED
    BY <2>1, <2>2, <2>3, <2>4
<1> QED
  BY <1>1, Inductive, PTL

\* readRetainedOutcome, the sidecars and the hot cache: all callers of a key are told
\* one outcome, or that it has been compacted.
THEOREM OneAnswer == Spec => []AnswersAgree
<1>1. IInv => AnswersAgree
  <2> SUFFICES ASSUME IInv, NEW k \in Key \ orphaned PROVE Cardinality(answers[k] \ {"compacted"}) <= 1
    BY DEF AnswersAgree
  <2>1. PICK S : S = answers[k] \ {"compacted"}
    OBVIOUS
  <2>2. \A o \in S : o \in Exact /\ Known(k, o)
    BY <2>1 DEF IInv, Typed, TypeOK, Known, Outcome, Exact
  <2>3. \A o \in S : \A p \in S : o = p
    BY <2>2 DEF IInv, Agreed, OneOutcome
  <2>4. S = {} \/ \E o : S = {o}
    BY <2>3
  <2>5. Cardinality(S) \in {0, 1}
    BY <2>4, FS_EmptySet, FS_Singleton
  <2> QED
    BY <2>1, <2>5
<1> QED
  BY <1>1, Inductive, PTL

-----------------------------------------------------------------------------
(* Refinement: the runtime implements CommandContract. *)

\* An answer of the runtime is an answer the contract allows.
LEMMA HistoryAnswers ==
    ASSUME IInv, HistoryStep
    PROVE  Contract!Next \/ UNCHANGED <<effects, orphaned, answers>>
<1> USE DEF IInv
<1> SUFFICES ASSUME NEW k \in Key, NEW o \in Outcome, Source(k, o),
                    answers' = [answers EXCEPT ![k] = @ \cup {o}]
             PROVE  Contract!Answer(k, o)
  BY DEF HistoryStep, Contract!Next, Outcome
<1>1. o \in Attempt => KeyOf[o] = k /\ effects[k] > 0
  BY OutcomeFacts DEF Source, Agreed, Earned
<1>2. ASSUME k \notin orphaned, o # "compacted", NEW p \in answers[k], p # "compacted" PROVE p = o
  <2>1. p \in Exact /\ o \in Exact /\ Known(k, p)
    BY <1>2 DEF Typed, TypeOK, Known, Exact, Outcome
  <2>2. OneOutcome(k) /\ Unheard(k)
    BY <1>2 DEF Agreed
  <2> QED
    BY <1>2, <2>1, <2>2 DEF Source, OneOutcome, Unheard
<1> QED
  BY <1>1, <1>2 DEF HistoryStep, Contract!Answer

\* An effect of the runtime is an effect the contract allows.
LEMMA EffectPerforms ==
    ASSUME IInv, Performed
    PROVE  Contract!Next
<1> USE DEF IInv
<1>1. PICK a \in Attempt : PerformEffect(a)
  BY DEF Performed
<1>2. PICK k \in Key : k = KeyOf[a]
  BY OutcomeFacts
<1>3. pc[a] = "effect" /\ effects' = [effects EXCEPT ![k] = @ + 1] /\ UNCHANGED <<orphaned, answers>>
  BY <1>1, <1>2 DEF PerformEffect
<1>4. k \in orphaned \/ (effects[k] = 0 /\ answers[k] = {})
  <2> SUFFICES ASSUME k \notin orphaned PROVE effects[k] = 0 /\ answers[k] = {}
    OBVIOUS
  <2>1. effects[k] = 0 /\ \A o \in Outcome : ~Known(k, o)
    BY <1>2, <1>3 DEF Agreed, Unheard, Fresh
  <2> QED
    BY <2>1 DEF Known, Typed, TypeOK
<1> QED
  BY <1>3, <1>4 DEF Contract!Next, Contract!Perform

\* The runtime implements CommandContract: for any keys, calls, crashes and failing
\* writes, an effect comes at most once and never after an answer, and answers agree.
THEOREM ImplementsCommandContract == Spec => KeepsContract
<1>1. Init => Contract!Init
  BY DEF Init, Contract!Init
<1>2. IInv /\ [Next]_vars => [Contract!Next]_<<effects, orphaned, answers>>
  <2> SUFFICES ASSUME IInv, [Next]_vars PROVE Contract!Next \/ UNCHANGED <<effects, orphaned, answers>>
    OBVIOUS
  <2>1. CASE HistoryStep
    BY <2>1, HistoryAnswers
  <2>2. CASE Performed
    BY <2>2, EffectPerforms
  <2>3. CASE Excused
    BY <2>3 DEF Excused, Contract!Next, Contract!Excuse
  <2>4. CASE UNCHANGED vars
    BY <2>4 DEF vars, history
  <2> QED
    BY <2>1, <2>2, <2>3, <2>4, NextFacts
<1> QED
  BY <1>1, <1>2, Inductive, PTL DEF Spec, KeepsContract, Contract!Spec

-----------------------------------------------------------------------------
(* No caller is forgotten. *)

\* How many steps a call may still take, at most.
Rank(stage) ==
    CASE stage = "idle" -> 9
      [] stage = "lookup" -> 8
      [] stage = "ready" -> 7
      [] stage = "await" -> 6
      [] stage = "reserve" -> 5
      [] stage = "request" -> 4
      [] stage = "effect" -> 3
      [] stage = "terminal" -> 2
      [] stage \in {"persist", "joined"} -> 1
      [] stage \in Answered -> 0

\* Each step of a call moves it on, and nothing moves a call back.
FewSteps ==
    [][\A a \in Attempt : /\ pc'[a] # pc[a] => Rank(pc'[a]) < Rank(pc[a])
                          /\ Step(a) => pc'[a] # pc[a]]_vars

\* An open call is of a running process, and its key has an execution under way, by
\* itself or by the call that it joined.
CallersServed ==
    \A a \in Attempt : pc[a] \notin {"idle"} \cup Answered =>
        LET b == pending[KeyOf[a]] IN
        /\ mode = "up"
        /\ b \in Attempt /\ KeyOf[b] = KeyOf[a] /\ pc[b] \in Owning

CallerInv ==
    /\ \A k \in Key : pending[k] # None => KeyOf[pending[k]] = k /\ pc[pending[k]] \in Owning
    /\ \A a \in Attempt : pc[a] = "joined" => pending[KeyOf[a]] # None

\* A call goes on to a later stage of its execution, or settles with those that joined.
Advances(a) ==
    /\ pc[a] \in Owning /\ pending' = pending
    /\ \E s \in Owning : Rank(s) < Rank(pc[a]) /\ pc' = [pc EXCEPT ![a] = s]

Settles(a) == pc[a] \in Owning /\ \E r \in Answered : \E o : Settle(a, r, o)

LEMMA CallSteps ==
    ASSUME Typed, NEW a \in Attempt, Step(a)
    PROVE  Advances(a) \/ Settles(a)
<1>1. CASE LookupRetained(a)
  <2>1. pc[a] = "lookup" /\ \E r \in {"answered", "failed"} : \E o : Settle(a, r, o)
    BY <1>1 DEF LookupRetained
  <2> QED
    BY <2>1 DEF Settles, Owning, Answered
<1>2. CASE LookupSidecar(a)
  <2>1. CASE Settle(a, "answered", sidecar[KeyOf[a]]) \/ Settle(a, "failed", None)
    BY <1>2, <2>1 DEF LookupSidecar, Settles, Owning, Answered
  <2>2. CASE pc' = [pc EXCEPT ![a] = "ready"] /\ pending' = pending
    <3>1. pc[a] = "lookup"
      BY <1>2 DEF LookupSidecar
    <3>2. Rank("ready") < Rank("lookup")
      BY DEF Rank, Answered
    <3>3. pc[a] \in Owning /\ "ready" \in Owning
      BY <3>1 DEF Owning
    <3> QED
      BY <2>2, <3>1, <3>2, <3>3 DEF Advances
  <2> QED
    BY <1>2, <2>1, <2>2 DEF LookupSidecar
<1>3. CASE PassDurabilityGate(a)
  BY <1>3 DEF PassDurabilityGate, Advances, Settles, Owning, Executing, Answered, Rank
<1>4. CASE Reserve(a)
  BY <1>4 DEF Reserve, Advances, Settles, Owning, Executing, Answered, Rank
<1>5. CASE AppendRequest(a)
  BY <1>5 DEF AppendRequest, Advances, Settles, Owning, Executing, Answered, Rank
<1>6. CASE PerformEffect(a)
  BY <1>6 DEF PerformEffect, Advances, Owning, Executing, Answered, Rank
<1>7. CASE AppendTerminal(a)
  <2>1. CASE Settle(a, "failed", None)
    BY <1>7, <2>1 DEF AppendTerminal, Settles, Owning, Executing, Answered
  <2>2. CASE pc' = [pc EXCEPT ![a] = "persist"] /\ pending' = pending
    BY <1>7, <2>2 DEF AppendTerminal, Advances, Owning, Executing, Answered, Rank
  <2> QED
    BY <1>7, <2>1, <2>2 DEF AppendTerminal
<1>8. CASE PersistOutcome(a)
  BY <1>8 DEF PersistOutcome, Settles, Owning, Executing, Answered
<1> QED
  BY <1>1, <1>2, <1>3, <1>4, <1>5, <1>6, <1>7, <1>8 DEF Step

\* Whose calls a step moves, and how.
LEMMA WhoCalls ==
    ASSUME Typed, [Next]_vars
    PROVE  \/ \E a \in Attempt : Submit(a) \/ Advances(a) \/ Settles(a)
           \/ ForgetMemory
           \/ UNCHANGED <<pc, pending>>
<1>1. CASE \E a \in Attempt : Submit(a) \/ Step(a)
  BY <1>1, CallSteps
<1>2. CASE Compact
  BY <1>2 DEF Compact, CompactFlush, CompactSnapshot, CompactBatch, CompactTruncate, CompactEnd, MarkCompacted
<1>3. CASE Crash \/ CreateFails
  BY <1>3 DEF Crash, CreateFails
<1>4. CASE PublishRecovered
  BY <1>4 DEF PublishRecovered
<1>5. CASE Restore
  BY <1>5 DEF Restore
<1>6. CASE Open \/ RecoveryDone \/ (\E a \in Attempt : RecoverOne(a)) \/ (\E k \in Key : Evict(k)) \/ UNCHANGED vars
  BY <1>6 DEF Open, RecoveryDone, RecoverOne, Evict, vars, memory
<1> QED
  BY <1>1, <1>2, <1>3, <1>4, <1>5, <1>6 DEF Next, Create

LEMMA CallerStep == Typed /\ CallerInv /\ [Next]_vars => CallerInv'
<1> SUFFICES ASSUME Typed, CallerInv, [Next]_vars PROVE CallerInv'
  OBVIOUS
<1> USE DEF Owning, Executing, Answered
<1>0. /\ pc \in [Attempt -> {"idle", "joined", "lookup", "ready", "await"} \cup Executing \cup Answered]
      /\ pending \in [Key -> Attempt \cup {None}] /\ \A a \in Attempt : KeyOf[a] \in Key
      /\ None \notin Attempt
  BY DEF Typed, TypeOK
<1>1. ASSUME NEW a \in Attempt, Submit(a) PROVE CallerInv'
  <2>1. pc[a] = "idle" /\ \A k \in Key : pending[k] # a
    BY <1>0, <1>1 DEF Submit, CallerInv
  <2>2. \/ pc' = [pc EXCEPT ![a] = "answered"] /\ pending' = pending
        \/ pc' = [pc EXCEPT ![a] = "joined"] /\ pending' = pending /\ pending[KeyOf[a]] # None
        \/ pc' = [pc EXCEPT ![a] = "lookup"] /\ pending' = [pending EXCEPT ![KeyOf[a]] = a]
    BY <1>1 DEF Submit, InFlight
  <2> QED
    BY <1>0, <2>1, <2>2 DEF CallerInv
<1>2. ASSUME NEW a \in Attempt, Advances(a) PROVE CallerInv'
  BY <1>0, <1>2 DEF Advances, CallerInv
<1>3. ASSUME NEW a \in Attempt, Settles(a) PROVE CallerInv'
  <2>1. PICK r \in Answered :
          /\ pc' = [b \in Attempt |-> IF b = a \/ (pc[b] = "joined" /\ KeyOf[b] = KeyOf[a]) THEN r ELSE pc[b]]
          /\ pending' = [pending EXCEPT ![KeyOf[a]] = None]
    BY <1>3 DEF Settles, Settle
  <2>2. ASSUME NEW k \in Key, pending'[k] # None
        PROVE  KeyOf[pending'[k]] = k /\ pc'[pending'[k]] \in Owning
    <3>1. k # KeyOf[a] /\ pending'[k] = pending[k]
      BY <1>0, <2>1, <2>2
    <3>2. pending[k] \in Attempt /\ KeyOf[pending[k]] = k /\ pc[pending[k]] \in Owning
      BY <1>0, <2>2, <3>1 DEF CallerInv
    <3>3. pc'[pending[k]] = pc[pending[k]]
      BY <2>1, <3>1, <3>2
    <3> QED
      BY <3>1, <3>2, <3>3
  <2>3. ASSUME NEW b \in Attempt, pc'[b] = "joined"
        PROVE  pending'[KeyOf[b]] # None
    <3>1. pc[b] = "joined" /\ KeyOf[b] # KeyOf[a]
      BY <2>1, <2>3
    <3> QED
      BY <1>0, <2>1, <3>1 DEF CallerInv
  <2> QED
    BY <2>2, <2>3 DEF CallerInv
<1>4. CASE ForgetMemory
  BY <1>4 DEF ForgetMemory, CallerInv
<1>5. CASE UNCHANGED <<pc, pending>>
  BY <1>5 DEF CallerInv
<1> QED
  BY <1>1, <1>2, <1>3, <1>4, <1>5, WhoCalls

\* ControlRuntime.submit and the promises of pendingByIdempotencyKey: whatever fails, is
\* evicted, compacted or crashes, no caller is left with a promise that nobody settles.
THEOREM CallersAreServed == Spec => []CallersServed
<1>1. Init => CallerInv
  BY DEF Init, CallerInv
<1>2. IInv /\ CallerInv => CallersServed
  <2> SUFFICES ASSUME IInv, CallerInv, NEW a \in Attempt, pc[a] \notin {"idle"} \cup Answered
               PROVE  /\ mode = "up"
                      /\ pending[KeyOf[a]] \in Attempt
                      /\ KeyOf[pending[KeyOf[a]]] = KeyOf[a]
                      /\ pc[pending[KeyOf[a]]] \in Owning
    BY DEF CallersServed
  <2>1. /\ pc[a] \in {"joined"} \cup Owning /\ KeyOf[a] \in Key
        /\ pending[KeyOf[a]] \in Attempt \cup {None} /\ None \notin Attempt
    BY DEF IInv, Typed, TypeOK, Owning
  <2>2. mode = "up"
    BY DEF IInv, Progress
  <2>3. pending[KeyOf[a]] # None
    BY <2>1 DEF CallerInv, IInv, Progress
  <2> QED
    BY <2>1, <2>2, <2>3 DEF CallerInv
<1>3. IInv /\ CallerInv /\ [Next]_vars => CallerInv'
  BY CallerStep DEF IInv
<1> QED
  BY <1>1, <1>2, <1>3, Inductive, PTL DEF Spec

\* submitFresh and executeSubmission have no loop of retries: a call settles after at
\* most nine steps of its own, and no crash or failure sends it back.
THEOREM CallsStepForward == Spec => FewSteps
<1>1. ASSUME Typed, [Next]_vars, NEW a \in Attempt, pc'[a] # pc[a]
      PROVE  Rank(pc'[a]) < Rank(pc[a])
  <2> USE DEF Owning, Executing, Answered
  <2>0. pc \in [Attempt -> {"idle", "joined", "lookup", "ready", "await"} \cup Executing \cup Answered]
    BY <1>1 DEF Typed, TypeOK
  <2>1. ASSUME NEW b \in Attempt, Submit(b) PROVE Rank(pc'[a]) < Rank(pc[a])
    <3>1. pc[a] = "idle" /\ pc'[a] \in {"answered", "joined", "lookup"}
      BY <1>1, <2>0, <2>1 DEF Submit
    <3> QED
      BY <3>1 DEF Rank
  <2>2. ASSUME NEW b \in Attempt, Advances(b) PROVE Rank(pc'[a]) < Rank(pc[a])
    BY <1>1, <2>0, <2>2 DEF Advances
  <2>3. ASSUME NEW b \in Attempt, Settles(b) PROVE Rank(pc'[a]) < Rank(pc[a])
    <3>1. pc[a] \in {"joined"} \cup Owning /\ pc'[a] \in Answered
      BY <1>1, <2>0, <2>3 DEF Settles, Settle
    <3> QED
      BY <3>1 DEF Rank
  <2>4. CASE ForgetMemory
    <3>1. pc[a] \in {"joined"} \cup Owning /\ pc'[a] \in Answered
      BY <1>1, <2>0, <2>4 DEF ForgetMemory
    <3> QED
      BY <3>1 DEF Rank
  <2> QED
    BY <1>1, <2>1, <2>2, <2>3, <2>4, WhoCalls
<1>2. ASSUME Typed, NEW a \in Attempt, Step(a)
      PROVE  pc'[a] # pc[a]
  <2> USE DEF Owning, Executing, Answered
  <2>0. pc \in [Attempt -> {"idle", "joined", "lookup", "ready", "await"} \cup Executing \cup Answered]
    BY <1>2 DEF Typed, TypeOK
  <2>1. CASE Advances(a)
    <3>1. PICK s \in Owning : Rank(s) < Rank(pc[a]) /\ pc'[a] = s
      BY <2>0, <2>1 DEF Advances
    <3>2. Rank(s) \in Int
      BY DEF Rank
    <3> QED
      BY <3>1, <3>2
  <2>2. CASE Settles(a)
    BY <2>0, <2>2 DEF Settles, Settle
  <2> QED
    BY <1>2, <2>1, <2>2, CallSteps
<1>3. IInv /\ [Next]_vars => [\A a \in Attempt : /\ pc'[a] # pc[a] => Rank(pc'[a]) < Rank(pc[a])
                                                 /\ Step(a) => pc'[a] # pc[a]]_vars
  BY <1>1, <1>2 DEF IInv
<1> QED
  BY <1>3, Inductive, PTL DEF Spec, FewSteps

=============================================================================
