------------------------- MODULE WorktreeLease_proofs -------------------------
(***************************************************************************)
(* Theorems about WorktreeLease, for any clients, mutators and faults: its *)
(* type invariant, that a record renamed away is in somebody's hands, that *)
(* the lease excludes and that a release takes effect, unless a directory  *)
(* was taken from a process at work.  The inductive invariant says of each *)
(* process what it may have read and renamed away at its stage (Sound),    *)
(* that nobody sets out to take a lease whose client is not through with   *)
(* it (Marks), and that, unless robbed, at most one process has the record *)
(* of the directory in its hands (Held); the last section adds what a      *)
(* client leaves behind at the end of its release (Owned).                 *)
(***************************************************************************)
EXTENDS WorktreeLease, TLAPS

ClientGoal == {"acquire", "hold", "prepare", "fork", "wait", "drop", "defer", "release", "done", "dead"}
SupervisorGoal == {"none", "claim", "track", "run", "clear", "deferClear", "drop", "defer", "exited", "dead"}
Reading == {"acquire", "release", "clear", "deferClear", "defer"}
Updating == {"prepare", "claim", "track", "drop"}
InHand == {"moving", "restoring"}
Through == {"release", "done", "dead"}

\* A process may have goal g.
Fits(p, g) ==
    IF IsClient(p) THEN g \in ClientGoal /\ (g \in {"prepare", "fork", "wait"} => Nonce(p) \in Mutator)
    ELSE g \in SupervisorGoal /\ (g # "none" => Nonce(p) \in Mutator)

\* It may be at stage s of goal g with view v and claim k.
Sound(p, g, s, v, k) ==
    /\ Fits(p, g)
    /\ s # "ready" => v \in View
    /\ s \in {"marker", "child", "deciding", "claiming"} \cup InHand => g \in Reading
    /\ s = "replacing" => g \in Updating /\ v.nonce = Nonce(p)
    /\ s \in InHand => k \in Claim
    /\ s = "moving" => k.record.nonce = v.nonce

\* Goal g at stage s is work that needs the lease.
Working(p, g, s) ==
    IF IsClient(p) THEN g \in {"hold", "prepare", "fork", "wait"}
    ELSE g \in {"claim", "track", "run"} \/ (g = "drop" /\ s = "replacing")

Busy(c) ==
    \/ Working(C(c), goal[C(c)], stage[C(c)])
    \/ Working(S(c), goal[S(c)], stage[S(c)])
    \/ GitAlive(c)

Holds(c) == lock # None /\ lock.holder = c

Rest ==
    /\ lock \in Directory \cup {None}
    /\ stale \subseteq Client /\ released \subseteq Client
    /\ git \in [Client -> {"none", "stopped", "running", "signalled", "closed"}]
    /\ past \subseteq Mutator /\ reported \subseteq Mutator /\ lost \subseteq Mutator /\ broken \subseteq Mutator
    /\ faults \in 0..MaxFaults
    /\ robbed \in BOOLEAN /\ missed \subseteq Client /\ cut \in BOOLEAN

Processes ==
    /\ goal \in [Process -> Goal] /\ stage \in [Process -> Stage]
    /\ seen \in [Process -> View \cup {None}] /\ claim \in [Process -> Claim \cup {None}]
    /\ \A p \in Process : Sound(p, goal[p], stage[p], seen[p], claim[p])

Marks ==
    /\ lock # None => \A c \in lock.marker : goal[C(c)] \in Through
    /\ \A p \in Process :
         /\ stage[p] # "ready" /\ seen[p].marker => goal[C(seen[p].nonce)] \in Through
         /\ stage[p] \in {"claiming", "moving"} => goal[C(seen[p].nonce)] \in Through

\* The record of the directory is in the hands of p and of no other.
HasIt(p) ==
    /\ lock # None /\ lock.record = None
    /\ claim[p].holder = lock.holder /\ claim[p].record.nonce = lock.holder
    /\ \A q \in Process : stage[q] \in InHand => q = p

Held ==
    /\ \A c \in Client : Busy(c) => Holds(c)
    /\ lock # None /\ lock.record # None => lock.record.nonce = lock.holder
    /\ \A p \in Process : stage[p] \in InHand => HasIt(p)

Kept ==
    lock # None /\ lock.record = None =>
        cut \/ \E p \in Process : stage[p] \in InHand /\ claim[p].holder = lock.holder

IInv == Rest /\ Processes /\ Marks /\ (robbed \/ Held) /\ Kept

-----------------------------------------------------------------------------
(* Processes. *)

\* Clients and supervisors are different processes, named by their nonce.
LEMMA ProcessFacts ==
    /\ \A c \in Client : C(c) \in Process /\ S(c) \in Process /\ Nonce(C(c)) = c /\ Nonce(S(c)) = c
                         /\ IsClient(C(c)) /\ ~IsClient(S(c))
    /\ \A c \in Client : \A d \in Client : C(c) # S(d) /\ (C(c) = C(d) => c = d) /\ (S(c) = S(d) => c = d)
    /\ \A p \in Process : Nonce(p) \in Client /\ p = IF IsClient(p) THEN C(Nonce(p)) ELSE S(Nonce(p))
BY DEF Process, C, S, Nonce, IsClient

\* The step of one process.
One(p, g, s, v, k) ==
    /\ goal' = [goal EXCEPT ![p] = g] /\ stage' = [stage EXCEPT ![p] = s]
    /\ seen' = [seen EXCEPT ![p] = v] /\ claim' = [claim EXCEPT ![p] = k]

LEMMA OneProcess ==
    ASSUME Processes, NEW p \in Process, NEW g \in Goal, NEW s \in Stage,
           NEW v \in View \cup {None}, NEW k \in Claim \cup {None},
           One(p, g, s, v, k), Sound(p, g, s, v, k)
    PROVE  /\ Processes'
           /\ goal'[p] = g /\ stage'[p] = s /\ seen'[p] = v /\ claim'[p] = k
           /\ \A q \in Process \ {p} : /\ goal'[q] = goal[q] /\ stage'[q] = stage[q]
                                       /\ seen'[q] = seen[q] /\ claim'[q] = claim[q]
<1>1. goal' \in [Process -> Goal] /\ stage' \in [Process -> Stage]
      /\ seen' \in [Process -> View \cup {None}] /\ claim' \in [Process -> Claim \cup {None}]
  BY DEF One, Processes
<1>2. goal'[p] = g /\ stage'[p] = s /\ seen'[p] = v /\ claim'[p] = k
  BY DEF One, Processes
<1>3. \A q \in Process \ {p} : /\ goal'[q] = goal[q] /\ stage'[q] = stage[q]
                               /\ seen'[q] = seen[q] /\ claim'[q] = claim[q]
  BY DEF One, Processes
<1>4. \A q \in Process : Sound(q, goal'[q], stage'[q], seen'[q], claim'[q])
  <2> TAKE q \in Process
  <2>1. CASE q = p
    BY <2>1, <1>2
  <2>2. CASE q # p
    BY <2>2, <1>3 DEF Processes
  <2> QED BY <2>1, <2>2
<1> QED BY <1>1, <1>2, <1>3, <1>4 DEF Processes

\* What may happen to the directory while its holder and its record stay.
SameLease ==
    \/ lock = None /\ lock' = None
    \/ /\ lock # None /\ lock' # None
       /\ lock'.holder = lock.holder /\ lock'.record = lock.record

\* No client that is through with its lease comes back.
ThroughStays(p, g) == goal[p] \in Through => g \in Through

\* What p has read, and what it sets out to take, is of a client that is through.
ReadsThrough(s, v) ==
    /\ s # "ready" /\ v.marker => goal[C(v.nonce)] \in Through
    /\ s \in {"claiming", "moving"} => goal[C(v.nonce)] \in Through

LEMMA MarksStay ==
    ASSUME Processes, Marks, NEW p \in Process, NEW g \in Goal, NEW s \in Stage,
           NEW v \in View \cup {None}, NEW k \in Claim \cup {None},
           One(p, g, s, v, k), Sound(p, g, s, v, k),
           ThroughStays(p, g), ReadsThrough(s, v),
           lock # None => lock \in Directory,
           lock' # None => \A c \in lock'.marker :
               c \in Client /\ ((p = C(c) /\ g \in Through) \/ (lock # None /\ c \in lock.marker))
    PROVE  Marks'
<1>1. /\ goal'[p] = g /\ stage'[p] = s /\ seen'[p] = v
      /\ \A q \in Process \ {p} : goal'[q] = goal[q] /\ stage'[q] = stage[q] /\ seen'[q] = seen[q]
  BY OneProcess
<1>2. \A q \in Process : goal[q] \in Through => goal'[q] \in Through
  <2> TAKE q \in Process
  <2>1. CASE q = p
    BY <2>1, <1>1 DEF ThroughStays
  <2>2. CASE q # p
    BY <2>2, <1>1
  <2> QED BY <2>1, <2>2
<1>3. \A c \in Client : goal[C(c)] \in Through => goal'[C(c)] \in Through
  BY <1>2, ProcessFacts
<1>4. lock' # None => \A c \in lock'.marker : goal'[C(c)] \in Through
  <2> SUFFICES ASSUME lock' # None, NEW c \in lock'.marker PROVE goal'[C(c)] \in Through
    OBVIOUS
  <2>1. CASE p = C(c) /\ g \in Through
    BY <2>1, <1>1
  <2>2. CASE lock # None /\ c \in lock.marker
    <3>1. goal[C(c)] \in Through /\ c \in Client
      BY <2>2 DEF Marks
    <3> QED BY <3>1, <1>3
  <2> QED BY <2>1, <2>2
<1>5. \A q \in Process : stage'[q] # "ready" => seen'[q] \in View
  BY OneProcess DEF Processes, Sound
<1>6. ASSUME NEW q \in Process
      PROVE  /\ stage'[q] # "ready" /\ seen'[q].marker => goal'[C(seen'[q].nonce)] \in Through
             /\ stage'[q] \in {"claiming", "moving"} => goal'[C(seen'[q].nonce)] \in Through
  <2>1. stage'[q] \in {"claiming", "moving"} => stage'[q] # "ready"
    OBVIOUS
  <2>2. stage'[q] # "ready" => seen'[q].nonce \in Client
    BY <1>5 DEF View
  <2>3. CASE q = p
    <3>1. /\ s # "ready" /\ v.marker => goal[C(v.nonce)] \in Through
          /\ s \in {"claiming", "moving"} => goal[C(v.nonce)] \in Through
      BY DEF ReadsThrough
    <3> QED BY <2>1, <2>2, <2>3, <3>1, <1>1, <1>3
  <2>4. CASE q # p
    <3>1. stage'[q] = stage[q] /\ seen'[q] = seen[q]
      BY <2>4, <1>1
    <3>2. /\ stage[q] # "ready" /\ seen[q].marker => goal[C(seen[q].nonce)] \in Through
          /\ stage[q] \in {"claiming", "moving"} => goal[C(seen[q].nonce)] \in Through
      BY DEF Marks
    <3> QED BY <2>1, <2>2, <3>1, <3>2, <1>3
  <2> QED BY <2>3, <2>4
<1> QED BY <1>4, <1>6 DEF Marks

\* The step gives no process work that had no lease.
LEMMA BusyStays ==
    ASSUME Processes, NEW p \in Process, NEW g \in Goal, NEW s \in Stage,
           NEW v \in View \cup {None}, NEW k \in Claim \cup {None},
           One(p, g, s, v, k), Sound(p, g, s, v, k),
           Working(p, g, s) => Busy(Nonce(p)) \/ Holds(Nonce(p)),
           \A c \in Client : GitAlive(c)' => Busy(c),
           NEW c \in Client, Busy(c)'
    PROVE  Busy(c) \/ Holds(c)
<1>1. /\ goal'[p] = g /\ stage'[p] = s
      /\ \A q \in Process \ {p} : goal'[q] = goal[q] /\ stage'[q] = stage[q]
  BY OneProcess
<1>2. \/ Working(C(c), goal'[C(c)], stage'[C(c)])
      \/ Working(S(c), goal'[S(c)], stage'[S(c)])
      \/ GitAlive(c)'
  BY DEF Busy, C, S
<1>3. ASSUME NEW q \in Process, Nonce(q) = c, Working(q, goal'[q], stage'[q]), q = C(c) \/ q = S(c)
      PROVE  Busy(c) \/ Holds(c)
  <2>1. CASE q = p
    BY <2>1, <1>3, <1>1
  <2>2. CASE q # p
    <3>1. goal'[q] = goal[q] /\ stage'[q] = stage[q]
      BY <2>2, <1>1
    <3> QED BY <3>1, <1>3 DEF Busy
  <2> QED BY <2>1, <2>2
<1> QED BY <1>2, <1>3, ProcessFacts

\* A step of one process that leaves the lease and all renamed records where they are.
LEMMA HeldStays ==
    ASSUME Processes, Held, SameLease, NEW p \in Process, NEW g \in Goal, NEW s \in Stage,
           NEW v \in View \cup {None}, NEW k \in Claim \cup {None},
           One(p, g, s, v, k), Sound(p, g, s, v, k),
           s \in InHand => stage[p] \in InHand /\ k = claim[p],
           Working(p, g, s) => Busy(Nonce(p)) \/ Holds(Nonce(p)),
           \A c \in Client : GitAlive(c)' => Busy(c)
    PROVE  Held'
<1>1. /\ stage'[p] = s /\ claim'[p] = k
      /\ \A q \in Process \ {p} : stage'[q] = stage[q] /\ claim'[q] = claim[q]
  BY OneProcess
<1>2. \A c \in Client : Busy(c)' => Holds(c)'
  <2> TAKE c \in Client
  <2> HAVE Busy(c)'
  <2>1. Busy(c) \/ Holds(c)
    BY BusyStays
  <2>2. Holds(c)
    BY <2>1 DEF Held
  <2> QED BY <2>2 DEF Holds, SameLease
<1>3. lock' # None /\ lock'.record # None => lock'.record.nonce = lock'.holder
  BY DEF Held, SameLease
<1>4. \A q \in Process : stage'[q] \in InHand => stage[q] \in InHand /\ claim'[q] = claim[q]
  <2> TAKE q \in Process
  <2>1. CASE q = p
    BY <2>1, <1>1
  <2>2. CASE q # p
    BY <2>2, <1>1
  <2> QED BY <2>1, <2>2
<1>5. \A q \in Process : stage'[q] \in InHand => HasIt(q)'
  <2> SUFFICES ASSUME NEW q \in Process, stage'[q] \in InHand PROVE HasIt(q)'
    OBVIOUS
  <2>1. stage[q] \in InHand /\ claim'[q] = claim[q] /\ HasIt(q)
    BY <1>4 DEF Held
  <2>2. \A r \in Process : stage'[r] \in InHand => r = q
    BY <2>1, <1>4 DEF HasIt
  <2>3. lock' # None /\ lock'.record = None /\ claim'[q].holder = lock'.holder /\ claim'[q].record.nonce = lock'.holder
    BY <2>1 DEF HasIt, SameLease
  <2> QED BY <2>2, <2>3 DEF HasIt
<1> QED BY <1>2, <1>3, <1>5 DEF Held

LEMMA KeptStays ==
    ASSUME Processes, Kept, SameLease, NEW p \in Process, NEW g \in Goal, NEW s \in Stage,
           NEW v \in View \cup {None}, NEW k \in Claim \cup {None},
           One(p, g, s, v, k), Sound(p, g, s, v, k), cut => cut',
           stage[p] \in InHand => cut' \/ (s \in InHand /\ k = claim[p])
    PROVE  Kept'
<1> SUFFICES ASSUME lock' # None, lock'.record = None, ~cut'
             PROVE  \E q \in Process : stage'[q] \in InHand /\ claim'[q].holder = lock'.holder
  BY DEF Kept
<1>1. /\ stage'[p] = s /\ claim'[p] = k
      /\ \A q \in Process \ {p} : stage'[q] = stage[q] /\ claim'[q] = claim[q]
  BY OneProcess
<1>2. lock # None /\ lock.record = None /\ lock'.holder = lock.holder /\ ~cut
  BY DEF SameLease
<1>3. PICK q \in Process : stage[q] \in InHand /\ claim[q].holder = lock.holder
  BY <1>2 DEF Kept
<1>4. CASE q = p
  BY <1>4, <1>1, <1>2, <1>3
<1>5. CASE q # p
  BY <1>5, <1>1, <1>2, <1>3
<1> QED BY <1>4, <1>5

-----------------------------------------------------------------------------
(* Steps that leave the lease and its record in place. *)

\* Release markers of clients that are through.
MarkersFrom(p, g) ==
    lock' # None => \A c \in lock'.marker :
        c \in Client /\ ((p = C(c) /\ g \in Through) \/ (lock # None /\ c \in lock.marker))

NoMoreGit == \A c \in Client : GitAlive(c)' => Busy(c)

LEMMA Quiet ==
    ASSUME IInv, Rest', SameLease, robbed' = robbed, cut => cut', NoMoreGit,
           NEW p \in Process, NEW g \in Goal, NEW s \in Stage,
           NEW v \in View \cup {None}, NEW k \in Claim \cup {None},
           One(p, g, s, v, k), Sound(p, g, s, v, k), MarkersFrom(p, g),
           ThroughStays(p, g), ReadsThrough(s, v),
           s \in InHand => stage[p] \in InHand /\ k = claim[p],
           stage[p] \in InHand => cut' \/ s \in InHand,
           Held => (Working(p, g, s) => Busy(Nonce(p)) \/ Holds(Nonce(p)))
    PROVE  IInv'
<1>1. Processes /\ Marks /\ Kept /\ (robbed \/ Held) /\ (lock # None => lock \in Directory)
  BY DEF IInv, Rest
<1>2. Processes'
  BY <1>1, OneProcess
<1>3. Marks'
  BY <1>1, MarksStay DEF MarkersFrom
<1>4. robbed' \/ Held'
  <2>1. CASE robbed
    BY <2>1
  <2>2. CASE Held
    BY <2>2, <1>1, HeldStays DEF NoMoreGit
  <2> QED BY <1>1, <2>1, <2>2
<1>5. Kept'
  <2>1. stage[p] \in InHand => cut' \/ (s \in InHand /\ k = claim[p])
    OBVIOUS
  <2> QED BY <1>1, <2>1, KeptStays
<1> QED BY <1>2, <1>3, <1>4, <1>5 DEF IInv

LEMMA Unmoved ==
    ASSUME IInv, lock' = lock, NEW p \in Process, NEW g
    PROVE  SameLease /\ MarkersFrom(p, g)
<1>1. lock # None => lock.marker \in SUBSET Client
  BY DEF IInv, Rest, Directory
<1> QED BY <1>1 DEF SameLease, MarkersFrom

LEMMA GitUnmoved ==
    ASSUME IInv, \A c \in Client : git'[c] = git[c] \/ git'[c] \in {"none", "closed"} \/ GitAlive(c)
    PROVE  NoMoreGit
BY DEF NoMoreGit, Busy, GitAlive

\* A process goes on to another goal.
LEMMA Turns ==
    ASSUME IInv, Rest', SameLease, robbed' = robbed, cut => cut', NoMoreGit,
           NEW p \in Process, NEW g \in Goal, Turn(p, g), Fits(p, g), MarkersFrom(p, g), ThroughStays(p, g),
           stage[p] \in InHand => cut',
           Held => (Working(p, g, "ready") => Busy(Nonce(p)) \/ Holds(Nonce(p)))
    PROVE  IInv'
<1>1. One(p, g, "ready", None, None)
  BY DEF One, Turn
<1>2. Sound(p, g, "ready", None, None) /\ "ready" \in Stage /\ ReadsThrough("ready", None)
  BY DEF Sound, Stage, ReadsThrough, InHand
<1>3. "ready" \notin InHand
  BY DEF InHand
<1> QED BY <1>1, <1>2, <1>3, Quiet

\* A process goes on to another stage of its goal, having read v.
LEMMA StepsTo ==
    ASSUME IInv, Rest', SameLease, robbed' = robbed, cut' = cut, NoMoreGit,
           NEW p \in Process, NEW s \in Stage, Step(p, s), claim' = claim,
           NEW v \in View, seen' = [seen EXCEPT ![p] = v],
           stage[p] \notin InHand, s \notin InHand, ReadsThrough(s, v), MarkersFrom(p, goal[p]),
           s \in {"marker", "child", "deciding", "claiming"} => goal[p] \in Reading,
           s = "replacing" => goal[p] \in Updating /\ v.nonce = Nonce(p),
           Held => (Working(p, goal[p], s) => Busy(Nonce(p)) \/ Holds(Nonce(p)))
    PROVE  IInv'
<1>1. /\ Processes /\ Sound(p, goal[p], stage[p], seen[p], claim[p])
      /\ goal \in [Process -> Goal] /\ claim \in [Process -> Claim \cup {None}]
  BY DEF IInv, Processes
<1>2. PICK g \in Goal : g = goal[p]
  BY <1>1
<1>3. PICK k \in Claim \cup {None} : k = claim[p]
  BY <1>1
<1>4. One(p, g, s, v, k)
  BY <1>1, <1>2, <1>3 DEF One, Step
<1>5. Sound(p, g, s, v, k)
  BY <1>1, <1>2, <1>3 DEF Sound, InHand
<1>6. ThroughStays(p, g) /\ MarkersFrom(p, g)
  BY <1>2 DEF ThroughStays, MarkersFrom
<1>7. Held => (Working(p, g, s) => Busy(Nonce(p)) \/ Holds(Nonce(p)))
  BY <1>2
<1> QED BY <1>4, <1>5, <1>6, <1>7, Quiet

\* No process takes a step.
LEMMA NoneSteps ==
    ASSUME IInv, Rest', SameLease, robbed' = robbed, cut' = cut, NoMoreGit,
           NEW p \in Process, \A g : MarkersFrom(p, g), UNCHANGED <<goal, stage, seen, claim>>
    PROVE  IInv'
<1>1. /\ Processes /\ Marks /\ Sound(p, goal[p], stage[p], seen[p], claim[p])
      /\ goal \in [Process -> Goal] /\ stage \in [Process -> Stage]
      /\ seen \in [Process -> View \cup {None}] /\ claim \in [Process -> Claim \cup {None}]
  BY DEF IInv, Processes
<1>2. PICK g \in Goal, s \in Stage : g = goal[p] /\ s = stage[p]
  BY <1>1
<1>3. PICK v \in View \cup {None}, k \in Claim \cup {None} : v = seen[p] /\ k = claim[p]
  BY <1>1
<1>4. One(p, g, s, v, k) /\ Sound(p, g, s, v, k)
  BY <1>1, <1>2, <1>3 DEF One
<1>5. ReadsThrough(s, v)
  BY <1>1, <1>2, <1>3 DEF ReadsThrough, Marks
<1>6. Working(p, g, s) => Busy(Nonce(p))
  BY <1>2, ProcessFacts DEF Busy
<1> QED BY <1>2, <1>3, <1>4, <1>5, <1>6, Quiet DEF ThroughStays

-----------------------------------------------------------------------------
(* Reading. *)

\* What the invariant says of one process.
LEMMA ProcessTyped ==
    ASSUME IInv, NEW p \in Process
    PROVE  /\ goal[p] \in Goal /\ stage[p] \in Stage /\ Fits(p, goal[p])
           /\ claim[p] \in Claim \cup {None}
           /\ stage[p] # "ready" => seen[p] \in View
           /\ stage[p] \in {"marker", "child", "deciding", "claiming"} \cup InHand => goal[p] \in Reading
           /\ stage[p] = "replacing" => goal[p] \in Updating /\ seen[p].nonce = Nonce(p)
           /\ stage[p] \in InHand => claim[p] \in Claim
           /\ stage[p] = "moving" => claim[p].record.nonce = seen[p].nonce
BY DEF IInv, Processes, Sound

LEMMA OtherwiseFits ==
    ASSUME IInv, NEW p \in Process, goal[p] \in Reading
    PROVE  /\ Otherwise(p) \in Goal /\ Fits(p, Otherwise(p)) /\ ThroughStays(p, Otherwise(p))
           /\ ~Working(p, Otherwise(p), "ready")
<1>1. Fits(p, goal[p])
  BY ProcessTyped
<1>2. CASE goal[p] = "acquire"
  <2>1. Otherwise(p) = "acquire"
    BY <1>2 DEF Otherwise
  <2> QED BY <1>1, <1>2, <2>1 DEF Fits, ThroughStays, Working, Goal, ClientGoal, SupervisorGoal, Through
<1>3. CASE goal[p] = "release"
  <2>1. Otherwise(p) = "done"
    BY <1>3 DEF Otherwise
  <2> QED BY <1>1, <1>3, <2>1 DEF Fits, ThroughStays, Working, Goal, ClientGoal, SupervisorGoal, Through
<1>4. CASE goal[p] \in {"clear", "deferClear"}
  <2>1. Otherwise(p) = "drop"
    BY <1>4 DEF Otherwise
  <2> QED BY <1>1, <1>4, <2>1 DEF Fits, ThroughStays, Working, Goal, ClientGoal, SupervisorGoal, Through
<1>5. CASE goal[p] = "defer"
  <2>1. Otherwise(p) = IF IsClient(p) THEN "release" ELSE "exited"
    BY <1>5 DEF Otherwise
  <2> QED BY <1>1, <1>5, <2>1 DEF Fits, ThroughStays, Working, Goal, ClientGoal, SupervisorGoal, Through
<1> QED BY <1>2, <1>3, <1>4, <1>5 DEF Reading

\* A process that was reading leaves the directory alone.
LEMMA TurnsOtherwise ==
    ASSUME IInv, Rest', lock' = lock, git' = git, robbed' = robbed, cut' = cut,
           NEW p \in Process, goal[p] \in Reading, stage[p] \notin InHand, Turn(p, Otherwise(p))
    PROVE  IInv'
<1>1. PICK g \in Goal : g = Otherwise(p)
  BY OtherwiseFits
<1>2. Turn(p, g) /\ Fits(p, g) /\ ThroughStays(p, g) /\ ~Working(p, g, "ready")
  BY <1>1, OtherwiseFits
<1>3. SameLease /\ MarkersFrom(p, g) /\ NoMoreGit
  BY Unmoved, GitUnmoved
<1> QED BY <1>2, <1>3, Turns

LEMMA RestStays ==
    ASSUME IInv, UNCHANGED <<files, git, reported, events, robbed, cut>>, missed' \in SUBSET Client
    PROVE  Rest'
BY DEF IInv, Rest, files, events

LEMMA Reading_ReadRecord ==
    ASSUME IInv, NEW p \in Process, ReadRecord(p) PROVE IInv'
<1>1. goal[p] \in Reading /\ stage[p] = "ready" /\ UNCHANGED <<files, git, reported, events, robbed, cut>>
  BY DEF ReadRecord, Reads, Reading
<1>2. lock' = lock /\ Nonce(p) \in Client /\ stage[p] \notin InHand
  BY <1>1, ProcessFacts DEF files, InHand
<1>3. CASE /\ HasRecord /\ Step(p, "marker") /\ UNCHANGED <<claim, missed>>
           /\ seen' = [seen EXCEPT ![p] = [nonce |-> lock.record.nonce, pending |-> lock.record.pending,
                                           marker |-> FALSE, child |-> FALSE]]
  <2>1. lock.record \in Record
    BY <1>3 DEF IInv, Rest, HasRecord, Directory
  <2>2. PICK v \in View : v = [nonce |-> lock.record.nonce, pending |-> lock.record.pending,
                               marker |-> FALSE, child |-> FALSE]
    BY <2>1 DEF Record, View
  <2>3. ReadsThrough("marker", v) /\ "marker" \in Stage \ InHand
    BY <2>2 DEF ReadsThrough, Stage, InHand
  <2>4. Rest'
    <3>1. missed' \in SUBSET Client
      BY <1>3 DEF IInv, Rest
    <3> QED BY <1>1, <3>1, RestStays
  <2>5. ~Working(p, goal[p], "marker")
    BY <1>1 DEF Working, Reading
  <2>6. SameLease /\ MarkersFrom(p, goal[p]) /\ NoMoreGit
    BY <1>1, <1>2, Unmoved, GitUnmoved
  <2> QED BY <1>1, <1>2, <1>3, <2>2, <2>3, <2>4, <2>5, <2>6, StepsTo
<1>4. CASE NotFound(p)
  <2>1. Rest'
    <3>1. missed' \in SUBSET Client
      BY <1>4, <1>2 DEF IInv, Rest, NotFound
    <3> QED BY <1>1, <3>1, RestStays
  <2> QED BY <1>1, <1>2, <1>4, <2>1, TurnsOtherwise DEF NotFound
<1> QED BY <1>3, <1>4 DEF ReadRecord

\* Only the view of p changes, to v, on the way to the decision.
LEMMA Reading_On ==
    ASSUME IInv, NEW p \in Process, stage[p] \in {"marker", "child"}, NEW s \in {"child", "deciding"}, Step(p, s),
           UNCHANGED <<files, claim, git, reported, events, history>>,
           NEW v \in View, seen' = [seen EXCEPT ![p] = v],
           v.marker => goal[C(v.nonce)] \in Through
    PROVE  IInv'
<1>1. goal[p] \in Reading /\ stage[p] \notin InHand /\ s \notin InHand /\ s \in Stage
  BY ProcessTyped DEF InHand, Stage
<1>2. lock' = lock /\ claim' = claim /\ git' = git /\ robbed' = robbed /\ cut' = cut
  BY DEF files, history
<1>3. Rest'
  <2>1. missed' \in SUBSET Client
    BY DEF IInv, Rest, history
  <2> QED BY <2>1, RestStays DEF history
<1>4. ReadsThrough(s, v) /\ s # "replacing"
  BY DEF ReadsThrough
<1>5. ~Working(p, goal[p], s)
  BY <1>1 DEF Working, Reading
<1>6. SameLease /\ MarkersFrom(p, goal[p]) /\ NoMoreGit
  BY <1>2, Unmoved, GitUnmoved
<1> QED BY <1>1, <1>2, <1>3, <1>4, <1>5, <1>6, StepsTo

LEMMA Reading_ReadMarker ==
    ASSUME IInv, NEW p \in Process, ReadMarker(p) PROVE IInv'
<1> DEFINE b == lock # None /\ seen[p].nonce \in lock.marker
           v == [seen[p] EXCEPT !.marker = b]
<1>1. stage[p] = "marker" /\ Step(p, "child") /\ UNCHANGED <<files, claim, git, reported, events, history>>
  BY DEF ReadMarker
<1>2. seen[p] \in View
  BY <1>1, ProcessTyped
<1>3. v \in View /\ v.marker = b /\ v.nonce = seen[p].nonce
  BY <1>2 DEF View
<1>4. seen' = [seen EXCEPT ![p] = v]
  BY DEF ReadMarker
<1>5. b => goal[C(seen[p].nonce)] \in Through
  BY DEF IInv, Marks
<1> HIDE DEF v, b
<1> QED BY <1>1, <1>3, <1>4, <1>5, Reading_On

LEMMA Reading_ReadChild ==
    ASSUME IInv, NEW p \in Process, ReadChild(p) PROVE IInv'
<1> DEFINE b == lock # None /\ seen[p].nonce \in lock.child
           v == [seen[p] EXCEPT !.child = b]
<1>1. stage[p] = "child" /\ Step(p, "deciding") /\ UNCHANGED <<files, claim, git, reported, events, history>>
  BY DEF ReadChild
<1>2. seen[p] \in View
  BY <1>1, ProcessTyped
<1>3. v \in View /\ v.marker = seen[p].marker /\ v.nonce = seen[p].nonce
  BY <1>2 DEF View
<1>4. seen' = [seen EXCEPT ![p] = v]
  BY DEF ReadChild
<1>5. v.marker => goal[C(v.nonce)] \in Through
  BY <1>1, <1>3 DEF IInv, Marks
<1> HIDE DEF v
<1> QED BY <1>1, <1>3, <1>4, <1>5, Reading_On

LEMMA WantsFits ==
    ASSUME IInv, NEW p \in Process, stage[p] = "deciding"
    PROVE  /\ Wants(p) \in {"ready", "claiming", "writing"}
           /\ Wants(p) = "claiming" => goal[C(seen[p].nonce)] \in Through
<1>1. goal[p] \in Reading /\ seen[p] \in View /\ Fits(p, goal[p])
  BY ProcessTyped
<1>2. seen[p].marker => goal[C(seen[p].nonce)] \in Through
  BY DEF IInv, Marks
<1>3. CASE goal[p] = "acquire"
  <2>1. Wants(p) = IF Stale(seen[p]) THEN "claiming" ELSE "ready"
    BY <1>3 DEF Wants
  <2>2. Stale(seen[p]) => goal[C(seen[p].nonce)] \in Through
    BY <1>2 DEF Stale, ClientAlive, Through
  <2> QED BY <2>1, <2>2
<1>4. CASE goal[p] = "release"
  <2>1. Wants(p) = IF seen[p].nonce # Nonce(p) THEN "ready"
                   ELSE IF LiveMutation(seen[p]) THEN "writing" ELSE "claiming"
    BY <1>4 DEF Wants
  <2>2. p = C(Nonce(p))
    BY <1>1, <1>4, ProcessFacts DEF Fits, SupervisorGoal
  <2>3. Wants(p) = "claiming" => seen[p].nonce = Nonce(p)
    BY <2>1
  <2> QED BY <1>4, <2>1, <2>2, <2>3 DEF Through
<1>5. CASE goal[p] = "clear"
  <2>1. Wants(p) \in {"ready", "writing"}
    BY <1>5 DEF Wants
  <2> QED BY <2>1
<1>6. CASE goal[p] \in {"deferClear", "defer"}
  <2>1. Wants(p) = IF /\ seen[p].nonce = Nonce(p) /\ seen[p].marker
                      /\ seen[p].pending = "none" /\ ~seen[p].child
                   THEN "claiming" ELSE "ready"
    BY <1>6 DEF Wants
  <2> QED BY <2>1, <1>2
<1> QED BY <1>1, <1>3, <1>4, <1>5, <1>6 DEF Reading

LEMMA Reading_Decide ==
    ASSUME IInv, NEW p \in Process, Decide(p) PROVE IInv'
<1>1. stage[p] = "deciding" /\ UNCHANGED <<files, git, reported, events, history>>
  BY DEF Decide
<1>2. goal[p] \in Reading /\ stage[p] \notin InHand /\ seen[p] \in View
  BY <1>1, ProcessTyped DEF InHand
<1>3. lock' = lock /\ git' = git /\ robbed' = robbed /\ cut' = cut
  BY <1>1 DEF files, history
<1>4. Rest'
  <2>1. missed' \in SUBSET Client
    BY <1>1 DEF IInv, Rest, history
  <2> QED BY <1>1, <2>1, RestStays DEF history
<1>5. CASE Wants(p) = "ready" /\ Turn(p, Otherwise(p))
  BY <1>2, <1>3, <1>4, <1>5, TurnsOtherwise
<1>6. CASE Wants(p) # "ready" /\ Step(p, Wants(p)) /\ UNCHANGED <<seen, claim>>
  <2>1. PICK s \in {"claiming", "writing"} : s = Wants(p)
    BY <1>1, <1>6, WantsFits
  <2>2. PICK v \in View : v = seen[p]
    BY <1>2
  <2>3. s \in Stage /\ s \notin InHand /\ Step(p, s) /\ claim' = claim
    BY <1>6, <2>1 DEF Stage, InHand
  <2>4. seen' = [seen EXCEPT ![p] = v]
    BY <1>6, <2>2 DEF IInv, Processes
  <2>5. ReadsThrough(s, v)
    BY <1>1, <2>1, <2>2, WantsFits DEF ReadsThrough, IInv, Marks
  <2>6. ~Working(p, goal[p], s)
    BY <1>2 DEF Working, Reading
  <2>7. SameLease /\ MarkersFrom(p, goal[p]) /\ NoMoreGit
    BY <1>2, <1>3, Unmoved, GitUnmoved
  <2>8. s # "replacing"
    OBVIOUS
  <2> QED BY <1>2, <1>3, <1>4, <2>3, <2>4, <2>5, <2>6, <2>7, <2>8, StepsTo
<1> QED BY <1>5, <1>6 DEF Decide

-----------------------------------------------------------------------------
(* Updating. *)

LEMMA UpdateFails ==
    ASSUME IInv, NEW p \in Process, goal[p] \in Updating, stage[p] \notin InHand, Fails(p),
           UNCHANGED <<files, reported, events, history>>
    PROVE  IInv'
<1>1. /\ lock' = lock /\ robbed' = robbed /\ cut' = cut /\ Fits(p, goal[p])
      /\ UNCHANGED <<stale, released, past, lost, broken, faults, reported, missed>>
  BY ProcessTyped DEF files, history, events
<1>2. \/ git' = git
      \/ GitAlive(Nonce(p)) /\ git' = [git EXCEPT ![Nonce(p)] = "signalled"]
  BY DEF Fails
<1>3. Nonce(p) \in Client
  BY ProcessFacts
<1>4. git' \in [Client -> {"none", "stopped", "running", "signalled", "closed"}]
      /\ \A c \in Client : git'[c] = git[c] \/ GitAlive(c)
  <2>1. git \in [Client -> {"none", "stopped", "running", "signalled", "closed"}]
    BY DEF IInv, Rest
  <2>2. CASE git' = git
    BY <2>1, <2>2
  <2>3. CASE GitAlive(Nonce(p)) /\ git' = [git EXCEPT ![Nonce(p)] = "signalled"]
    BY <2>1, <2>3, <1>3
  <2> QED BY <1>2, <2>2, <2>3
<1>5. Rest'
  BY <1>1, <1>4 DEF IInv, Rest
<1>6. NoMoreGit
  BY <1>4, GitUnmoved
<1>7. ASSUME NEW g \in Goal, Turn(p, g), Fits(p, g), ThroughStays(p, g),
             Working(p, g, "ready") => Busy(Nonce(p))
      PROVE  IInv'
  <2>1. SameLease /\ MarkersFrom(p, g)
    BY <1>1, Unmoved
  <2> QED BY <1>1, <1>5, <1>6, <1>7, <2>1, Turns
<1>8. CASE goal[p] = "prepare"
  <2>1. Turn(p, "release")
    BY <1>8 DEF Fails
  <2>2. /\ "release" \in Goal /\ Fits(p, "release") /\ ~Working(p, "release", "ready")
        /\ ThroughStays(p, "release")
    BY <1>1, <1>8 DEF Fits, ThroughStays, Working, Goal, ClientGoal, SupervisorGoal, Through
  <2> QED BY <1>7, <2>1, <2>2
<1>9. CASE goal[p] = "claim"
  <2>1. Turn(p, "exited")
    BY <1>9 DEF Fails
  <2>2. /\ "exited" \in Goal /\ Fits(p, "exited") /\ ~Working(p, "exited", "ready")
        /\ ThroughStays(p, "exited")
    BY <1>1, <1>9 DEF Fits, ThroughStays, Working, Goal, ClientGoal, SupervisorGoal, Through
  <2> QED BY <1>7, <2>1, <2>2
<1>10. CASE goal[p] = "track"
  <2>1. Turn(p, "run")
    BY <1>10 DEF Fails
  <2>2. /\ "run" \in Goal /\ Fits(p, "run") /\ ThroughStays(p, "run") /\ ~IsClient(p)
    BY <1>1, <1>10 DEF Fits, ThroughStays, Goal, ClientGoal, SupervisorGoal, Through
  <2>3. Busy(Nonce(p))
    <3>1. p = S(Nonce(p)) /\ ~IsClient(S(Nonce(p)))
      BY <2>2, ProcessFacts
    <3> QED BY <3>1, <1>10 DEF Busy, Working
  <2> QED BY <1>7, <2>1, <2>2, <2>3
<1>11. CASE goal[p] = "drop"
  <2>1. PICK g \in {"release", "exited"} : g = IF IsClient(p) THEN "release" ELSE "exited"
    OBVIOUS
  <2>2. Turn(p, g)
    BY <1>11, <2>1 DEF Fails
  <2>3. g \in Goal /\ Fits(p, g) /\ ~Working(p, g, "ready") /\ ThroughStays(p, g)
    BY <1>1, <1>11, <2>1 DEF Fits, ThroughStays, Working, Goal, ClientGoal, SupervisorGoal, Through
  <2> QED BY <1>7, <2>2, <2>3
<1> QED BY <1>8, <1>9, <1>10, <1>11 DEF Updating

\* Work that has begun goes on: the process is busy, or it has just read its own record.
LEMMA Updating_ReadRaw ==
    ASSUME IInv, NEW p \in Process, ReadRaw(p) PROVE IInv'
<1>1. /\ goal[p] \in Updating /\ stage[p] = "ready" /\ stage[p] \notin InHand
      /\ UNCHANGED <<files, reported, events, history>>
  BY DEF ReadRaw, Updates, Updating, InHand
<1>2. CASE Fails(p)
  BY <1>1, <1>2, UpdateFails
<1>3. CASE /\ HasRecord /\ lock.record.nonce = Nonce(p) /\ Step(p, "replacing") /\ UNCHANGED <<claim, git>>
           /\ seen' = [seen EXCEPT ![p] = [nonce |-> Nonce(p), pending |-> Pending(p, lock.record.pending),
                                           marker |-> FALSE, child |-> FALSE]]
  <2>1. lock.record \in Record /\ Nonce(p) \in Client
    BY <1>3, ProcessFacts DEF IInv, Rest, HasRecord, Directory
  <2>2. Pending(p, lock.record.pending) \in {"none", "unclaimed", "claimed"}
    <3>1. lock.record.pending \in {"none", "unclaimed", "claimed"}
      BY <2>1 DEF Record
    <3> QED BY <1>1, <3>1 DEF Pending, Updating
  <2>3. PICK v \in View : v = [nonce |-> Nonce(p), pending |-> Pending(p, lock.record.pending),
                               marker |-> FALSE, child |-> FALSE]
    BY <2>1, <2>2 DEF View
  <2>4. ReadsThrough("replacing", v) /\ "replacing" \in Stage \ InHand /\ v.nonce = Nonce(p)
    BY <2>3 DEF ReadsThrough, Stage, InHand
  <2>5. lock' = lock /\ git' = git /\ robbed' = robbed /\ cut' = cut
    BY <1>1, <1>3 DEF files, history
  <2>6. Rest'
    <3>1. missed' \in SUBSET Client
      BY <1>1 DEF IInv, Rest, history
    <3> QED BY <1>1, <1>3, <3>1, RestStays DEF history
  <2>7. Held => Holds(Nonce(p))
    BY <1>3 DEF Held, HasRecord, Holds
  <2>8. SameLease /\ MarkersFrom(p, goal[p]) /\ NoMoreGit
    BY <1>1, <2>5, Unmoved, GitUnmoved
  <2> QED BY <1>1, <1>3, <2>3, <2>4, <2>5, <2>6, <2>7, <2>8, StepsTo
<1> QED BY <1>2, <1>3 DEF ReadRaw

-----------------------------------------------------------------------------
(* Child file, release marker, clients, Git and faults. *)

\* A companion file comes or goes; the record stays.
LEMMA Companion ==
    ASSUME IInv, NEW p \in Process, NEW g, NEW m \in SUBSET Client, NEW k \in SUBSET Client,
           lock' = IF lock # None THEN [lock EXCEPT !.marker = m, !.child = k] ELSE lock,
           lock # None => \A c \in m : c \in lock.marker \/ (p = C(c) /\ g \in Through)
    PROVE  SameLease /\ MarkersFrom(p, g) /\ lock' \in Directory \cup {None}
<1>1. lock \in Directory \cup {None}
  BY DEF IInv, Rest
<1>2. CASE lock = None
  BY <1>2 DEF SameLease, MarkersFrom
<1>3. CASE lock # None
  <2>1. lock \in Directory
    BY <1>1, <1>3
  <2>2. lock' \in Directory /\ lock'.holder = lock.holder /\ lock'.record = lock.record /\ lock'.marker = m
    BY <2>1, <1>3 DEF Directory
  <2>3. lock' # None
    BY <2>2, NoneAssumption
  <2> QED BY <1>3, <2>2, <2>3 DEF SameLease, MarkersFrom
<1> QED BY <1>2, <1>3

LEMMA RestKeeps ==
    ASSUME IInv, lock' \in Directory \cup {None}, UNCHANGED <<stale, released, git, reported, events, history>>
    PROVE  Rest'
BY DEF IInv, Rest, events, history

LEMMA Files_ClearChild ==
    ASSUME IInv, NEW p \in Process, ClearChild(p) PROVE IInv'
<1>1. /\ goal[p] = "clear" /\ stage[p] \notin InHand /\ Turn(p, "deferClear")
      /\ UNCHANGED <<stale, released, git, reported, events, history>>
  BY DEF ClearChild, At, InHand
<1>2. SameLease /\ MarkersFrom(p, "deferClear") /\ lock' \in Directory \cup {None}
  <2>1. CASE lock = None
    <3>1. lock' = lock
      BY <2>1 DEF ClearChild
    <3> QED BY <2>1, <3>1, Unmoved
  <2>2. CASE lock # None
    <3>1. lock \in Directory
      BY <2>2 DEF IInv, Rest
    <3>2. PICK m \in SUBSET Client, k \in SUBSET Client : m = lock.marker /\ k = lock.child \ {Nonce(p)}
      BY <3>1 DEF Directory
    <3>3. lock' = [lock EXCEPT !.marker = m, !.child = k]
      BY <2>2, <3>1, <3>2 DEF ClearChild, Directory
    <3>4. \A c \in m : c \in lock.marker
      BY <3>2
    <3>5. lock' = IF lock # None THEN [lock EXCEPT !.marker = m, !.child = k] ELSE lock
      BY <2>2, <3>3
    <3> QED BY <3>4, <3>5, Companion
  <2> QED BY <2>1, <2>2
<1>3. Rest' /\ git' = git /\ robbed' = robbed /\ cut' = cut
  BY <1>1, <1>2, RestKeeps DEF history
<1>4. NoMoreGit
  BY <1>3, GitUnmoved
<1>5. /\ "deferClear" \in Goal /\ Fits(p, "deferClear") /\ ThroughStays(p, "deferClear")
      /\ ~Working(p, "deferClear", "ready")
  <2>1. Fits(p, "clear")
    BY <1>1, ProcessTyped
  <2> QED BY <1>1, <2>1 DEF Fits, ThroughStays, Working, Goal, ClientGoal, SupervisorGoal, Through
<1> QED BY <1>1, <1>2, <1>3, <1>4, <1>5, Turns

LEMMA Files_MarkRelease ==
    ASSUME IInv, NEW p \in Process, MarkRelease(p) PROVE IInv'
<1>1. /\ goal[p] = "release" /\ stage[p] \notin InHand /\ Turn(p, "done")
      /\ UNCHANGED <<stale, released, git, reported, events, history>>
  BY DEF MarkRelease, At, InHand
<1>2. Fits(p, "release")
  BY <1>1, ProcessTyped
<1>3. p = C(Nonce(p)) /\ Nonce(p) \in Client
  BY <1>2, ProcessFacts DEF Fits, SupervisorGoal
<1>4. SameLease /\ MarkersFrom(p, "done") /\ lock' \in Directory \cup {None}
  <2>1. CASE lock = None
    <3>1. lock' = lock
      BY <2>1 DEF MarkRelease
    <3> QED BY <2>1, <3>1, Unmoved
  <2>2. CASE lock # None
    <3>1. lock \in Directory
      BY <2>2 DEF IInv, Rest
    <3>2. PICK m \in SUBSET Client, k \in SUBSET Client : m = lock.marker \cup {Nonce(p)} /\ k = lock.child
      BY <3>1, <1>3 DEF Directory
    <3>3. lock' = [lock EXCEPT !.marker = m, !.child = k]
      BY <2>2, <3>1, <3>2 DEF MarkRelease, Directory
    <3>4. \A c \in m : c \in lock.marker \/ (p = C(c) /\ "done" \in Through)
      BY <3>2, <1>3 DEF Through
    <3>5. lock' = IF lock # None THEN [lock EXCEPT !.marker = m, !.child = k] ELSE lock
      BY <2>2, <3>3
    <3> QED BY <3>4, <3>5, Companion
  <2> QED BY <2>1, <2>2
<1>5. Rest' /\ git' = git /\ robbed' = robbed /\ cut' = cut
  BY <1>1, <1>4, RestKeeps DEF history
<1>6. NoMoreGit
  BY <1>5, GitUnmoved
<1>7. "done" \in Goal /\ Fits(p, "done") /\ ThroughStays(p, "done") /\ ~Working(p, "done", "ready")
  BY <1>2 DEF Fits, ThroughStays, Working, Goal, ClientGoal, SupervisorGoal, Through
<1> QED BY <1>1, <1>4, <1>5, <1>6, <1>7, Turns

\* A supervisor that has its lease stays busy with Git.
LEMMA Files_TrackGit ==
    ASSUME IInv, NEW p \in Process, TrackGit(p) PROVE IInv'
<1>1. /\ goal[p] = "track" /\ stage[p] \notin InHand /\ goal[p] \in Updating
      /\ UNCHANGED <<stale, released, reported, events, history>>
  BY DEF TrackGit, At, InHand, Updating
<1>2. Fits(p, "track")
  BY <1>1, ProcessTyped
<1>3. p = S(Nonce(p)) /\ Nonce(p) \in Client
  BY <1>2, ProcessFacts DEF Fits, ClientGoal
<1>4. Busy(Nonce(p))
  BY <1>1, <1>3, ProcessFacts DEF Busy, Working
<1>5. CASE lock = None /\ Fails(p) /\ UNCHANGED lock
  BY <1>1, <1>5, UpdateFails DEF files
<1>6. CASE /\ lock # None /\ lock' = [lock EXCEPT !.child = @ \cup {Nonce(p)}]
           /\ IF Nonce(p) \in lost
              THEN Turn(p, IF git[Nonce(p)] = "closed" THEN "clear" ELSE "exited") /\ UNCHANGED git
              ELSE Turn(p, "run") /\ git' = [git EXCEPT ![Nonce(p)] = IF @ = "stopped" THEN "running" ELSE @]
  <2>1. lock \in Directory
    BY <1>6 DEF IInv, Rest
  <2>2. PICK m \in SUBSET Client, k \in SUBSET Client : m = lock.marker /\ k = lock.child \cup {Nonce(p)}
    BY <2>1, <1>3 DEF Directory
  <2>3. lock' = [lock EXCEPT !.marker = m, !.child = k]
    BY <1>6, <2>1, <2>2 DEF Directory
  <2>4. ASSUME NEW g PROVE SameLease /\ MarkersFrom(p, g) /\ lock' \in Directory \cup {None}
    <3>1. lock' = IF lock # None THEN [lock EXCEPT !.marker = m, !.child = k] ELSE lock
      BY <1>6, <2>3
    <3>2. \A c \in m : c \in lock.marker
      BY <2>2
    <3> QED BY <3>1, <3>2, Companion
  <2>5. git \in [Client -> {"none", "stopped", "running", "signalled", "closed"}]
    BY DEF IInv, Rest
  <2>6. git' \in [Client -> {"none", "stopped", "running", "signalled", "closed"}]
        /\ \A c \in Client : git'[c] = git[c] \/ GitAlive(c)
    <3>1. CASE git' = git
      BY <3>1, <2>5
    <3>2. CASE git' = [git EXCEPT ![Nonce(p)] = IF @ = "stopped" THEN "running" ELSE @]
      <4>1. \A c \in Client : git'[c] = git[c] \/ (git[c] = "stopped" /\ git'[c] = "running")
        BY <3>2, <2>5, <1>3
      <4>2. git' \in [Client -> {"none", "stopped", "running", "signalled", "closed"}]
        BY <3>2, <2>5, <1>3
      <4> QED BY <4>1, <4>2 DEF GitAlive
    <3> QED BY <1>6, <3>1, <3>2
  <2>7. NoMoreGit
    BY <2>6, GitUnmoved
  <2>8. lock' \in Directory \cup {None} /\ robbed' = robbed /\ cut' = cut
    BY <2>4, <1>1 DEF history
  <2>9. Rest'
    BY <1>1, <2>6, <2>8 DEF IInv, Rest, events, history
  <2>10. PICK g \in {"clear", "exited", "run"} : Turn(p, g)
    BY <1>6
  <2>11. g \in Goal /\ Fits(p, g) /\ ThroughStays(p, g)
    BY <1>1, <1>2 DEF Fits, ThroughStays, Goal, ClientGoal, SupervisorGoal, Through
  <2>12. SameLease /\ MarkersFrom(p, g)
    BY <2>4
  <2> QED BY <1>1, <1>4, <2>7, <2>8, <2>9, <2>10, <2>11, <2>12, Turns
<1> QED BY <1>5, <1>6 DEF TrackGit

\* A process turns while no file changes.
LEMMA TurnsOnly ==
    ASSUME IInv, Rest', lock' = lock, git' = git, robbed' = robbed, cut => cut',
           NEW p \in Process, NEW g \in Goal, Turn(p, g), Fits(p, g), ThroughStays(p, g),
           stage[p] \in InHand => cut',
           Working(p, g, "ready") => Busy(Nonce(p))
    PROVE  IInv'
<1>1. SameLease /\ MarkersFrom(p, g) /\ NoMoreGit
  BY Unmoved, GitUnmoved
<1> QED BY <1>1, Turns

\* What a process has in hand, it has while it reads.
LEMMA NotInHand ==
    ASSUME IInv, NEW p \in Process, goal[p] \notin Reading
    PROVE  stage[p] \notin InHand
BY ProcessTyped

LEMMA Client_Use ==
    ASSUME IInv, NEW c \in Client, Use(c) PROVE IInv'
<1>1. /\ goal[C(c)] = "hold" /\ UNCHANGED <<files, git, reported, events, history>>
      /\ C(c) \in Process /\ Nonce(C(c)) = c /\ IsClient(C(c))
  BY ProcessFacts DEF Use
<1>2. PICK g \in {"release", "prepare"} : Turn(C(c), g) /\ (g = "prepare" => c \in Mutator)
  BY DEF Use
<1>3. stage[C(c)] \notin InHand
  BY <1>1, NotInHand DEF Reading
<1>4. Rest' /\ lock' = lock /\ git' = git /\ robbed' = robbed /\ cut' = cut
  BY <1>1 DEF IInv, Rest, files, events, history
<1>5. g \in Goal /\ Fits(C(c), g) /\ ThroughStays(C(c), g)
  BY <1>1, <1>2 DEF Goal, Fits, ClientGoal, ThroughStays, Through
<1>6. Busy(c)
  BY <1>1 DEF Busy, Working
<1> QED BY <1>1, <1>2, <1>3, <1>4, <1>5, <1>6, TurnsOnly

LEMMA Client_Return ==
    ASSUME IInv, NEW c \in Client, Return(c) PROVE IInv'
<1>1. /\ goal[C(c)] = "wait" /\ UNCHANGED <<files, git, reported, past, lost, history>>
      /\ C(c) \in Process /\ Nonce(C(c)) = c /\ IsClient(C(c))
  BY ProcessFacts DEF Return
<1>2. PICK g \in {"release", "drop"} : Turn(C(c), g)
  BY DEF Return
<1>3. stage[C(c)] \notin InHand /\ c \in Mutator
  <2>1. Fits(C(c), "wait")
    BY <1>1, ProcessTyped
  <2> QED BY <1>1, <2>1, NotInHand DEF Reading, Fits
<1>4. Rest'
  <2>1. broken' \subseteq Mutator /\ faults' \in 0..MaxFaults
    <3>1. CASE UNCHANGED <<broken, faults>>
      BY <3>1 DEF IInv, Rest
    <3>2. CASE Fault /\ broken' = broken \cup {c}
      BY <3>2, <1>3, BoundsAssumption DEF IInv, Rest, Fault
    <3> QED BY <3>1, <3>2 DEF Return
  <2> QED BY <1>1, <2>1 DEF IInv, Rest, files, history
<1>5. lock' = lock /\ git' = git /\ robbed' = robbed /\ cut' = cut
  BY <1>1 DEF files, history
<1>6. g \in Goal /\ Fits(C(c), g) /\ ThroughStays(C(c), g)
  BY <1>1, <1>2 DEF Goal, Fits, ClientGoal, ThroughStays, Through
<1>7. Busy(c)
  BY <1>1 DEF Busy, Working
<1> QED BY <1>1, <1>2, <1>3, <1>4, <1>5, <1>6, <1>7, TurnsOnly

LEMMA Supervisor_NoticeClose ==
    ASSUME IInv, NEW c \in Client, NoticeClose(c) PROVE IInv'
<1>1. /\ goal[S(c)] = "run" /\ Turn(S(c), "clear") /\ UNCHANGED <<files, git, reported, events, history>>
      /\ S(c) \in Process /\ Nonce(S(c)) = c /\ ~IsClient(S(c))
  BY ProcessFacts DEF NoticeClose
<1>2. stage[S(c)] \notin InHand /\ Fits(S(c), "run")
  BY <1>1, NotInHand, ProcessTyped DEF Reading
<1>3. Rest' /\ lock' = lock /\ git' = git /\ robbed' = robbed /\ cut' = cut
  BY <1>1 DEF IInv, Rest, files, events, history
<1>4. "clear" \in Goal /\ Fits(S(c), "clear") /\ ThroughStays(S(c), "clear")
  BY <1>1, <1>2 DEF Goal, Fits, SupervisorGoal, ThroughStays, Through
<1>5. Busy(c)
  BY <1>1 DEF Busy, Working
<1> QED BY <1>1, <1>2, <1>3, <1>4, <1>5, TurnsOnly

\* Only who was cut short by death leaves a record in nobody's hands.
LEMMA Fault_Die ==
    ASSUME IInv, NEW p \in Process, Die(p) PROVE IInv'
<1>1. /\ goal[p] \notin {"none", "exited", "dead"} /\ Turn(p, "dead")
      /\ UNCHANGED <<files, git, reported, past, lost, broken, robbed, missed>>
      /\ cut' = (cut \/ stage[p] \in {"moving", "restoring"}) /\ Fault
  BY DEF Die
<1>2. Fits(p, goal[p])
  BY ProcessTyped
<1>3. cut => cut'
  BY <1>1
<1>4. stage[p] \in InHand => cut'
  BY <1>1 DEF InHand
<1>5. Rest'
  <2>1. faults' \in 0..MaxFaults
    BY <1>1, BoundsAssumption DEF IInv, Rest, Fault
  <2>2. cut' \in BOOLEAN
    BY <1>1
  <2> QED BY <1>1, <2>1, <2>2 DEF IInv, Rest, files
<1>6. lock' = lock /\ git' = git /\ robbed' = robbed
  BY <1>1 DEF files
<1>7. "dead" \in Goal /\ Fits(p, "dead") /\ ThroughStays(p, "dead") /\ ~Working(p, "dead", "ready")
  BY <1>1, <1>2 DEF Goal, Fits, ClientGoal, SupervisorGoal, ThroughStays, Through, Working
<1> QED BY <1>1, <1>3, <1>4, <1>5, <1>6, <1>7, TurnsOnly

\* Git and the clock.
LEMMA NoProcessSteps ==
    ASSUME IInv, NEW c \in Client, Rest', lock' = lock, robbed' = robbed, cut' = cut,
           UNCHANGED <<goal, stage, seen, claim>>,
           \A d \in Client : git'[d] = git[d] \/ git'[d] = "closed" \/ GitAlive(d)
    PROVE  IInv'
<1>1. C(c) \in Process
  BY ProcessFacts
<1>2. SameLease /\ NoMoreGit /\ \A g : MarkersFrom(C(c), g)
  <2>1. NoMoreGit
    BY GitUnmoved
  <2> QED BY <1>1, <2>1, Unmoved
<1> QED BY <1>1, <1>2, NoneSteps

LEMMA Git_Steps ==
    ASSUME IInv, NEW c \in Client, GitCloses(c) \/ NoticeLoss(c) \/ PassDeadline(c) PROVE IInv'
<1>1. git \in [Client -> {"none", "stopped", "running", "signalled", "closed"}]
  BY DEF IInv, Rest
<1>2. CASE GitCloses(c)
  <2>1. git' = [git EXCEPT ![c] = "closed"] /\ UNCHANGED <<files, goal, stage, seen, claim, reported, events, history>>
    BY <1>2 DEF GitCloses
  <2>2. \A d \in Client : git'[d] = git[d] \/ git'[d] = "closed"
    BY <1>1, <2>1
  <2>3. git' \in [Client -> {"none", "stopped", "running", "signalled", "closed"}]
    BY <1>1, <2>1
  <2>4. Rest' /\ lock' = lock /\ robbed' = robbed /\ cut' = cut
    BY <2>1, <2>3 DEF IInv, Rest, files, events, history
  <2> QED BY <2>1, <2>2, <2>4, NoProcessSteps
<1>3. CASE NoticeLoss(c)
  <2>1. /\ goal[S(c)] \in {"claim", "track", "run"} /\ lost' = lost \cup {c}
        /\ UNCHANGED <<files, goal, stage, seen, claim, reported, past, broken, faults, history>>
        /\ git' = IF git[c] \in {"stopped", "running"} THEN [git EXCEPT ![c] = "signalled"] ELSE git
    BY <1>3 DEF NoticeLoss
  <2>2. \A d \in Client : git'[d] = git[d] \/ GitAlive(d)
    BY <1>1, <2>1 DEF GitAlive
  <2>3. git' \in [Client -> {"none", "stopped", "running", "signalled", "closed"}]
    BY <1>1, <2>1
  <2>4. c \in Mutator
    <3>1. Fits(S(c), goal[S(c)]) /\ ~IsClient(S(c)) /\ Nonce(S(c)) = c
      BY ProcessTyped, ProcessFacts
    <3> QED BY <3>1, <2>1 DEF Fits
  <2>5. Rest' /\ lock' = lock /\ robbed' = robbed /\ cut' = cut
    BY <2>1, <2>3, <2>4 DEF IInv, Rest, files, history
  <2> QED BY <2>1, <2>2, <2>5, NoProcessSteps
<1>4. CASE PassDeadline(c)
  <2>1. /\ c \in Mutator /\ past' = past \cup {c}
        /\ UNCHANGED <<files, goal, stage, seen, claim, git, reported, lost, broken, faults, history>>
    BY <1>4 DEF PassDeadline
  <2>2. Rest' /\ lock' = lock /\ robbed' = robbed /\ cut' = cut
    BY <2>1 DEF IInv, Rest, files, history
  <2> QED BY <2>1, <2>2, NoProcessSteps
<1> QED BY <1>2, <1>3, <1>4


-----------------------------------------------------------------------------
(* Taking and losing the directory. *)

\* A step that gives no process work.
LEMMA BusyBefore ==
    ASSUME Processes, NEW p \in Process, NEW g \in Goal, NEW s \in Stage,
           NEW v \in View \cup {None}, NEW k \in Claim \cup {None},
           One(p, g, s, v, k), Sound(p, g, s, v, k), ~Working(p, g, s), git' = git,
           NEW c \in Client, Busy(c)'
    PROVE  Busy(c)
<1>1. /\ goal'[p] = g /\ stage'[p] = s
      /\ \A q \in Process \ {p} : goal'[q] = goal[q] /\ stage'[q] = stage[q]
  BY OneProcess
<1>2. \/ Working(C(c), goal'[C(c)], stage'[C(c)])
      \/ Working(S(c), goal'[S(c)], stage'[S(c)])
      \/ GitAlive(c)
  BY DEF Busy, C, S, GitAlive
<1>3. ASSUME NEW q \in Process, Working(q, goal'[q], stage'[q])
      PROVE  Working(q, goal[q], stage[q])
  <2>1. q # p
    BY <1>1, <1>3
  <2> QED BY <2>1, <1>1, <1>3
<1> QED BY <1>2, <1>3, ProcessFacts DEF Busy

\* Nobody is busy, and nothing is in hand, before there is a lease.
LEMMA Client_Acquire ==
    ASSUME IInv, NEW c \in Client, Acquire(c) PROVE IInv'
<1> DEFINE r == [nonce |-> c, pending |-> "none"]
<1>1. /\ goal[C(c)] = "acquire" /\ lock = None /\ Turn(C(c), "hold")
      /\ lock' = [holder |-> c, record |-> r, marker |-> {}, child |-> {}]
      /\ UNCHANGED <<stale, released, git, reported, events, history>>
  BY DEF Acquire, At
<1>2. C(c) \in Process /\ Nonce(C(c)) = c /\ IsClient(C(c))
  BY ProcessFacts
<1>3. /\ lock' \in Directory /\ r \in Record
      /\ lock'.holder = c /\ lock'.record = r /\ lock'.marker = {} /\ r.nonce = c
  BY <1>1 DEF Directory, Record
<1> HIDE DEF r
<1>4. lock' # None /\ lock'.record # None
  BY <1>3, NoneAssumption
<1>5. Rest'
  BY <1>1, <1>3, RestKeeps
<1>6. /\ One(C(c), "hold", "ready", None, None) /\ Sound(C(c), "hold", "ready", None, None)
      /\ "hold" \in Goal /\ "ready" \in Stage
  BY <1>1, <1>2 DEF Turn, One, Sound, Fits, ClientGoal, Goal, Stage, InHand
<1>7. Processes /\ Marks
  BY DEF IInv
<1>8. /\ Processes' /\ goal'[C(c)] = "hold" /\ stage'[C(c)] = "ready"
      /\ \A q \in Process \ {C(c)} : goal'[q] = goal[q] /\ stage'[q] = stage[q]
  BY <1>2, <1>6, <1>7, OneProcess
<1>9. Marks'
  <2>1. ThroughStays(C(c), "hold") /\ ReadsThrough("ready", None)
    BY <1>1 DEF ThroughStays, Through, ReadsThrough
  <2>2. \A d \in lock'.marker : FALSE
    BY <1>3
  <2> QED BY <1>1, <1>2, <1>6, <1>7, <2>1, <2>2, MarksStay
<1>10. Kept'
  BY <1>4 DEF Kept
<1>11. ASSUME Held PROVE Held'
  <2>1. \A d \in Client : ~Busy(d)
    BY <1>1, <1>11 DEF Held, Holds
  <2>2. \A q \in Process : stage[q] \notin InHand
    BY <1>1, <1>11 DEF Held, HasIt
  <2>3. ASSUME NEW d \in Client, d # c PROVE ~Busy(d)'
    <3>1. C(d) # C(c) /\ S(d) # C(c) /\ C(d) \in Process /\ S(d) \in Process
      BY <2>3, ProcessFacts
    <3>2. /\ goal'[C(d)] = goal[C(d)] /\ stage'[C(d)] = stage[C(d)]
          /\ goal'[S(d)] = goal[S(d)] /\ stage'[S(d)] = stage[S(d)] /\ git' = git
      BY <3>1, <1>1, <1>8
    <3>3. /\ Working(C(d), goal'[C(d)], stage'[C(d)]) <=> Working(C(d), goal[C(d)], stage[C(d)])
          /\ Working(S(d), goal'[S(d)], stage'[S(d)]) <=> Working(S(d), goal[S(d)], stage[S(d)])
          /\ GitAlive(d)' <=> GitAlive(d)
      BY <3>2 DEF GitAlive
    <3>4. Busy(d)' => Busy(d)
      BY <3>3 DEF Busy, C, S
    <3> QED BY <3>4, <2>1
  <2>4. Holds(c)'
    BY <1>3, <1>4 DEF Holds
  <2>5. \A q \in Process : stage'[q] \notin InHand
    <3> TAKE q \in Process
    <3>1. CASE q = C(c)
      BY <3>1, <1>8 DEF InHand
    <3>2. CASE q # C(c)
      BY <3>2, <1>8, <2>2
    <3> QED BY <3>1, <3>2
  <2>6. lock'.record.nonce = lock'.holder
    BY <1>3
  <2> QED BY <2>3, <2>4, <2>5, <2>6 DEF Held
<1>12. robbed' \/ Held'
  BY <1>1, <1>11 DEF IInv, history
<1> QED BY <1>5, <1>8, <1>9, <1>10, <1>12 DEF IInv

LEMMA Client_Fork ==
    ASSUME IInv, NEW c \in Client, Fork(c) PROVE IInv'
<1>1. /\ goal[C(c)] = "fork" /\ goal[S(c)] = "none" /\ stage[S(c)] = "ready"
      /\ goal' = [goal EXCEPT ![C(c)] = "wait", ![S(c)] = "claim"]
      /\ UNCHANGED <<files, stage, seen, claim, git, reported, events, history>>
  BY DEF Fork, At
<1>2. /\ C(c) \in Process /\ S(c) \in Process /\ C(c) # S(c)
      /\ Nonce(C(c)) = c /\ Nonce(S(c)) = c /\ IsClient(C(c)) /\ ~IsClient(S(c))
  BY ProcessFacts
<1>3. goal \in [Process -> Goal] /\ \A q \in Process : Sound(q, goal[q], stage[q], seen[q], claim[q])
  BY DEF IInv, Processes
<1>4. /\ goal'[C(c)] = "wait" /\ goal'[S(c)] = "claim"
      /\ \A q \in Process \ {C(c), S(c)} : goal'[q] = goal[q]
  BY <1>1, <1>2, <1>3
<1>5. goal' \in [Process -> Goal]
  <2>1. goal' \in [Process -> Goal] <=> \A q \in Process : goal'[q] \in Goal
    BY <1>1, <1>3
  <2>2. \A q \in Process : goal'[q] \in Goal
    BY <1>3, <1>4 DEF Goal
  <2> QED BY <2>1, <2>2
<1>6. UNCHANGED <<lock, stage, seen, claim, git, robbed, cut>>
  BY <1>1 DEF files, history
<1>7. Rest'
  <2>1. missed' \in SUBSET Client
    BY <1>1 DEF IInv, Rest, history
  <2> QED BY <1>1, <2>1, RestStays DEF history
<1>8. c \in Mutator
  <2>1. Fits(C(c), "fork")
    BY <1>1, <1>2, ProcessTyped
  <2> QED BY <2>1, <1>2 DEF Fits
<1>9. \A q \in Process : Sound(q, goal'[q], stage[q], seen[q], claim[q])
  <2> TAKE q \in Process
  <2>1. CASE q = C(c)
    <3>1. Sound(C(c), "fork", stage[C(c)], seen[C(c)], claim[C(c)])
      BY <1>1, <1>2, <1>3
    <3>2. Sound(C(c), "wait", stage[C(c)], seen[C(c)], claim[C(c)])
      BY <3>1, <1>2, <1>8 DEF Sound, Fits, ClientGoal, Reading, Updating, InHand
    <3> QED BY <2>1, <3>2, <1>4
  <2>2. CASE q = S(c)
    <3>1. Sound(S(c), "claim", "ready", seen[S(c)], claim[S(c)])
      BY <1>2, <1>8 DEF Sound, Fits, SupervisorGoal, InHand
    <3> QED BY <2>2, <3>1, <1>1, <1>4
  <2>3. CASE q \in Process \ {C(c), S(c)}
    BY <2>3, <1>3, <1>4
  <2> QED BY <2>1, <2>2, <2>3
<1>10. Processes'
  BY <1>5, <1>6, <1>9 DEF IInv, Processes
<1>11. \A d \in Client : goal[C(d)] \in Through => goal'[C(d)] \in Through
  <2> TAKE d \in Client
  <2> HAVE goal[C(d)] \in Through
  <2>1. C(d) \in Process \ {C(c), S(c)}
    BY <1>1, <1>2, ProcessFacts DEF Through
  <2> QED BY <2>1, <1>4
<1>12. Marks'
  <2>1. lock # None => \A d \in lock.marker : d \in Client
    BY DEF IInv, Rest, Directory
  <2>2. \A q \in Process : stage[q] # "ready" => seen[q].nonce \in Client
    BY ProcessTyped DEF View
  <2>3. lock # None => \A d \in lock.marker : goal'[C(d)] \in Through
    BY <2>1, <1>11 DEF IInv, Marks
  <2>4. ASSUME NEW q \in Process
        PROVE  /\ stage[q] # "ready" /\ seen[q].marker => goal'[C(seen[q].nonce)] \in Through
               /\ stage[q] \in {"claiming", "moving"} => goal'[C(seen[q].nonce)] \in Through
    <3>1. /\ stage[q] # "ready" /\ seen[q].marker => goal[C(seen[q].nonce)] \in Through
          /\ stage[q] \in {"claiming", "moving"} => goal[C(seen[q].nonce)] \in Through
      BY DEF IInv, Marks
    <3> QED BY <3>1, <2>2, <1>11
  <2> QED BY <2>3, <2>4, <1>6 DEF Marks
<1>13. Kept'
  <2>1. Kept
    BY DEF IInv
  <2> QED BY <2>1, <1>6 DEF Kept
<1>14. ASSUME Held PROVE Held'
  <2>1. ASSUME NEW d \in Client, Busy(d)' PROVE Busy(d)
    <3>1. CASE d = c
      BY <3>1, <1>1, <1>2 DEF Busy, Working
    <3>2. CASE d # c
      <4>1. goal'[C(d)] = goal[C(d)] /\ goal'[S(d)] = goal[S(d)]
        <5>1. C(d) \in Process \ {C(c), S(c)} /\ S(d) \in Process \ {C(c), S(c)}
          BY <3>2, ProcessFacts
        <5> QED BY <5>1, <1>4
      <4>2. \/ Working(C(d), goal'[C(d)], stage'[C(d)])
            \/ Working(S(d), goal'[S(d)], stage'[S(d)])
            \/ GitAlive(d)
        BY <2>1, <1>6 DEF Busy, C, S, GitAlive
      <4> QED BY <4>1, <4>2, <1>6 DEF Busy
    <3> QED BY <3>1, <3>2
  <2>2. \A d \in Client : Busy(d)' => Holds(d)'
    BY <2>1, <1>14, <1>6 DEF Held, Holds
  <2>3. \A q \in Process : stage[q] \in InHand => HasIt(q)'
    BY <1>14, <1>6 DEF Held, HasIt
  <2> QED BY <2>2, <2>3, <1>14, <1>6 DEF Held
<1>15. robbed' \/ Held'
  BY <1>6, <1>14 DEF IInv
<1> QED BY <1>7, <1>10, <1>12, <1>13, <1>15 DEF IInv

\* The record is renamed away.
LEMMA Taking_ClaimRecord ==
    ASSUME IInv, NEW p \in Process, ClaimRecord(p) PROVE IInv'
<1>1. /\ stage[p] = "claiming" /\ stage[p] \notin InHand /\ goal[p] \in Reading /\ seen[p] \in View
      /\ UNCHANGED <<stale, released, git, reported, events, cut>>
  BY ProcessTyped DEF ClaimRecord, InHand
<1>2. CASE ~HasRecord /\ NotFound(p) /\ UNCHANGED <<lock, robbed>>
  <2>1. missed' \in SUBSET Client
    BY <1>2, ProcessFacts DEF NotFound, IInv, Rest
  <2>2. Rest'
    BY <1>1, <1>2, <2>1, RestStays DEF files
  <2> QED BY <1>1, <1>2, <2>2, TurnsOtherwise DEF NotFound
<1>3. CASE /\ HasRecord
           /\ claim' = [claim EXCEPT ![p] = [holder |-> lock.holder, record |-> lock.record]]
           /\ lock' = [lock EXCEPT !.record = None]
           /\ Step(p, IF ClaimsRead(p) THEN "moving" ELSE "restoring")
           /\ robbed' = IF ClaimsRead(p) THEN Robbed ELSE robbed
           /\ UNCHANGED <<seen, missed>>
  <2>1. lock \in Directory /\ lock.record \in Record /\ lock # None /\ lock.record # None
    BY <1>3 DEF HasRecord, IInv, Rest, Directory
  <2>2. PICK k \in Claim : k = [holder |-> lock.holder, record |-> lock.record]
    BY <2>1 DEF Claim, Directory
  <2>3. k.holder = lock.holder /\ k.record = lock.record
    BY <2>2
  <2>4. PICK s \in {"moving", "restoring"} : s = IF ClaimsRead(p) THEN "moving" ELSE "restoring"
    OBVIOUS
  <2>5. /\ lock' \in Directory /\ lock'.holder = lock.holder /\ lock'.record = None
        /\ lock'.marker = lock.marker
    BY <2>1, <1>3 DEF Directory
  <2>6. lock' # None
    BY <2>5, NoneAssumption
  <2>7. robbed' \in BOOLEAN /\ (robbed => robbed')
    BY <1>3 DEF IInv, Rest, Robbed
  <2>8. Rest'
    BY <1>1, <1>3, <2>5, <2>7 DEF IInv, Rest, events
  <2>9. PICK g \in Goal, v \in View : g = goal[p] /\ v = seen[p]
    BY <1>1, ProcessTyped
  <2>10. /\ Processes /\ Marks /\ goal \in [Process -> Goal] /\ seen \in [Process -> View \cup {None}]
         /\ Sound(p, g, stage[p], v, claim[p])
    BY <2>9 DEF IInv, Processes
  <2>11. One(p, g, s, v, k)
    BY <1>3, <2>2, <2>4, <2>9, <2>10 DEF One, Step
  <2>12. s \in Stage /\ s \in InHand
    BY <2>4 DEF Stage, InHand
  <2>13. s = "moving" => k.record.nonce = v.nonce
    BY <2>3, <2>4, <2>9 DEF ClaimsRead
  <2>14. Sound(p, g, s, v, k)
    BY <1>1, <2>9, <2>10, <2>13 DEF Sound, InHand
  <2>15. /\ Processes' /\ stage'[p] = s /\ claim'[p] = k
         /\ \A q \in Process \ {p} : stage'[q] = stage[q]
    BY <2>10, <2>11, <2>12, <2>14, OneProcess
  <2>16. Marks'
    <3>1. ReadsThrough(s, v)
      BY <1>1, <2>9, <2>10 DEF ReadsThrough, Marks
    <3>2. \A c \in lock'.marker : c \in Client /\ c \in lock.marker
      BY <2>1, <2>5 DEF Directory
    <3>3. ThroughStays(p, g)
      BY <2>9 DEF ThroughStays
    <3> QED BY <2>1, <2>10, <2>11, <2>12, <2>14, <3>1, <3>2, <3>3, MarksStay
  <2>17. Kept'
    BY <2>3, <2>5, <2>12, <2>15 DEF Kept
  <2>18. ASSUME Held PROVE Held'
    <3>1. lock.record.nonce = lock.holder
      BY <2>1, <2>18 DEF Held
    <3>2. \A q \in Process : stage[q] \notin InHand
      BY <2>1, <2>18 DEF Held, HasIt
    <3>3. \A q \in Process : stage'[q] \in InHand => q = p
      BY <2>15, <3>2
    <3>4. HasIt(p)'
      BY <2>3, <2>5, <2>6, <2>15, <3>1, <3>3 DEF HasIt
    <3>5. ~Working(p, g, s)
      BY <1>1, <2>9 DEF Working, Reading
    <3>6. ASSUME NEW c \in Client, Busy(c)' PROVE Holds(c)'
      <4>1. Busy(c)
        BY <1>1, <2>10, <2>11, <2>12, <2>14, <3>5, <3>6, BusyBefore
      <4>2. Holds(c)
        BY <4>1, <2>18 DEF Held
      <4> QED BY <4>2, <2>5, <2>6 DEF Holds
    <3>7. \A q \in Process : stage'[q] \in InHand => HasIt(q)'
      BY <3>3, <3>4
    <3> QED BY <2>5, <3>6, <3>7 DEF Held
  <2>19. robbed' \/ Held'
    BY <2>7, <2>18 DEF IInv
  <2> QED BY <2>8, <2>15, <2>16, <2>17, <2>19 DEF IInv
<1> QED BY <1>2, <1>3 DEF ClaimRecord

\* A process that has a record in hand turns away.
LEMMA PutsDown ==
    ASSUME IInv, NEW p \in Process, stage[p] \in InHand, Turn(p, Otherwise(p)), git' = git,
           lock' # None => lock # None /\ lock' \in Directory /\ lock'.marker = lock.marker
    PROVE  /\ Processes' /\ Marks' /\ stage'[p] \notin InHand
           /\ \A q \in Process \ {p} : stage'[q] = stage[q] /\ claim'[q] = claim[q]
           /\ \A c \in Client : Busy(c)' => Busy(c)
<1>1. goal[p] \in Reading /\ Processes /\ Marks
  BY ProcessTyped DEF IInv
<1>2. PICK g \in Goal : g = Otherwise(p)
  BY <1>1, OtherwiseFits
<1>3. Turn(p, g) /\ Fits(p, g) /\ ThroughStays(p, g) /\ ~Working(p, g, "ready")
  BY <1>1, <1>2, OtherwiseFits
<1>4. One(p, g, "ready", None, None) /\ Sound(p, g, "ready", None, None)
  BY <1>3 DEF One, Turn, Sound, InHand
<1>5. "ready" \in Stage /\ "ready" \notin InHand /\ ReadsThrough("ready", None)
  BY DEF Stage, InHand, ReadsThrough
<1>6. /\ Processes' /\ stage'[p] = "ready"
      /\ \A q \in Process \ {p} : stage'[q] = stage[q] /\ claim'[q] = claim[q]
  BY <1>1, <1>4, <1>5, OneProcess
<1>7. lock # None => lock \in Directory
  BY DEF IInv, Rest
<1>8. lock' # None => \A c \in lock'.marker : c \in Client /\ lock # None /\ c \in lock.marker
  BY DEF Directory
<1>9. Marks'
  BY <1>1, <1>3, <1>4, <1>5, <1>7, <1>8, MarksStay
<1>10. \A c \in Client : Busy(c)' => Busy(c)
  BY <1>1, <1>3, <1>4, <1>5, BusyBefore
<1> QED BY <1>5, <1>6, <1>9, <1>10

\* The holder of a directory whose record is in hand to be moved has nothing to do.
LEMMA IdleWhenMoved ==
    ASSUME IInv, Held, NEW p \in Process, stage[p] = "moving", ~AtWork(lock.holder)
    PROVE  \A c \in Client : ~Busy(c)
<1>1. HasIt(p) /\ claim[p].record.nonce = seen[p].nonce /\ seen[p] \in View
  BY ProcessTyped DEF Held, InHand
<1>2. lock.holder = seen[p].nonce /\ lock # None
  BY <1>1 DEF HasIt
<1>3. goal[C(lock.holder)] \in Through
  BY <1>2 DEF IInv, Marks
<1>4. lock.holder \in Client
  BY <1>1, <1>2 DEF View
<1>5. ~Busy(lock.holder)
  <2>1. IsClient(C(lock.holder)) /\ ~IsClient(S(lock.holder))
    BY <1>4, ProcessFacts
  <2> QED BY <1>3, <2>1 DEF Busy, Working, Through, AtWork, At
<1>6. \A c \in Client : Busy(c) => c = lock.holder
  BY DEF Held, Holds
<1> QED BY <1>5, <1>6

\* The directory goes, or the record is to be restored.
LEMMA Taking_MoveDirectory ==
    ASSUME IInv, NEW p \in Process, MoveDirectory(p) PROVE IInv'
<1>1. /\ stage[p] = "moving" /\ stage[p] \in InHand /\ goal[p] \in Reading
      /\ UNCHANGED <<git, reported, events, missed, cut>>
  BY ProcessTyped DEF MoveDirectory, InHand
<1>2. seen[p] \in View /\ seen[p].nonce \in Client
  BY <1>1, ProcessTyped DEF View
<1>3. CASE /\ lock' = None /\ robbed' = Robbed /\ Turn(p, Otherwise(p))
           /\ stale' \subseteq Client /\ released' \subseteq Client
  <2>1. /\ Processes' /\ Marks' /\ stage'[p] \notin InHand
        /\ \A q \in Process \ {p} : stage'[q] = stage[q]
        /\ \A c \in Client : Busy(c)' => Busy(c)
    BY <1>1, <1>3, PutsDown
  <2>2. robbed' \in BOOLEAN /\ (robbed => robbed') /\ (AtWork(lock.holder) => robbed')
    BY <1>3 DEF Robbed, IInv, Rest
  <2>3. Rest'
    BY <1>1, <1>3, <2>2 DEF IInv, Rest, events
  <2>4. Kept'
    BY <1>3 DEF Kept
  <2>5. ASSUME Held, ~robbed' PROVE Held'
    <3>1. \A c \in Client : ~Busy(c)
      BY <1>1, <2>2, <2>5, IdleWhenMoved
    <3>2. HasIt(p)
      BY <1>1, <2>5 DEF Held
    <3>3. \A q \in Process : stage'[q] \notin InHand
      BY <2>1, <3>2 DEF HasIt
    <3> QED BY <1>3, <2>1, <3>1, <3>3 DEF Held
  <2>6. robbed' \/ Held'
    BY <2>2, <2>5 DEF IInv
  <2> QED BY <2>1, <2>3, <2>4, <2>6 DEF IInv
<1>4. CASE lock = None /\ Turn(p, Otherwise(p)) /\ UNCHANGED <<files, robbed>>
  <2>1. lock' = None /\ robbed' = robbed
    BY <1>4 DEF files
  <2>2. Processes' /\ Marks'
    BY <1>1, <1>4, <2>1, PutsDown
  <2>3. Rest'
    BY <1>1, <1>4, RestStays DEF IInv, Rest
  <2>4. Kept'
    BY <2>1 DEF Kept
  <2>5. robbed
    BY <1>1, <1>4 DEF IInv, Held, HasIt
  <2> QED BY <2>1, <2>2, <2>3, <2>4, <2>5 DEF IInv
<1>5. CASE Step(p, "restoring") /\ UNCHANGED <<seen, claim>> /\ UNCHANGED <<files, robbed>>
  <2>1. /\ Processes /\ Marks /\ Sound(p, goal[p], stage[p], seen[p], claim[p])
        /\ goal \in [Process -> Goal] /\ seen \in [Process -> View \cup {None}]
        /\ claim \in [Process -> Claim \cup {None}]
    BY DEF IInv, Processes
  <2>2. PICK g \in Goal, v \in View, k \in Claim : g = goal[p] /\ v = seen[p] /\ k = claim[p]
    BY <1>1, ProcessTyped
  <2>3. One(p, g, "restoring", v, k)
    BY <1>5, <2>1, <2>2 DEF One, Step
  <2>4. Sound(p, g, "restoring", v, k) /\ "restoring" \in Stage /\ "restoring" \in InHand
    BY <1>1, <2>1, <2>2 DEF Sound, InHand, Stage
  <2>5. ReadsThrough("restoring", v) /\ ThroughStays(p, g)
    BY <1>1, <2>1, <2>2 DEF ReadsThrough, Marks, ThroughStays
  <2>6. ~Working(p, g, "restoring")
    BY <1>1, <2>2 DEF Working, Reading
  <2>7. lock' = lock /\ git' = git /\ robbed' = robbed /\ cut' = cut
    BY <1>1, <1>5 DEF files
  <2>8. Rest'
    BY <1>1, <1>5, RestStays DEF IInv, Rest
  <2>9. SameLease /\ MarkersFrom(p, g) /\ NoMoreGit
    BY <2>7, Unmoved, GitUnmoved
  <2> QED BY <1>1, <2>2, <2>3, <2>4, <2>5, <2>6, <2>7, <2>8, <2>9, Quiet
<1>6. stale \subseteq Client /\ released \subseteq Client
  BY DEF IInv, Rest
<1>7. \/ /\ lock' = None /\ robbed' = Robbed /\ Turn(p, Otherwise(p))
         /\ stale' \subseteq Client /\ released' \subseteq Client
      \/ lock = None /\ Turn(p, Otherwise(p)) /\ UNCHANGED <<files, robbed>>
      \/ Step(p, "restoring") /\ UNCHANGED <<seen, claim>> /\ UNCHANGED <<files, robbed>>
  BY <1>2, <1>6 DEF MoveDirectory
<1> QED BY <1>3, <1>4, <1>5, <1>7

\* The record goes back to the directory it was in, or into nobody's.
LEMMA Taking_Restore ==
    ASSUME IInv, NEW p \in Process, Restore(p) PROVE IInv'
<1>1. /\ stage[p] = "restoring" /\ stage[p] \in InHand /\ Turn(p, Otherwise(p))
      /\ UNCHANGED <<stale, released, git, reported, events, history>>
  BY DEF Restore, InHand
<1>2. claim[p] \in Claim
  BY <1>1, ProcessTyped
<1>3. \/ /\ lock # None /\ lock.holder = claim[p].holder
         /\ lock' = [lock EXCEPT !.record = claim[p].record]
      \/ lock' = lock /\ ~(lock # None /\ lock.holder = claim[p].holder)
  BY DEF Restore
<1>4. ASSUME lock # None, lock.holder = claim[p].holder, lock' = [lock EXCEPT !.record = claim[p].record]
      PROVE  /\ lock' \in Directory /\ lock'.holder = lock.holder /\ lock'.marker = lock.marker
             /\ lock'.record = claim[p].record /\ lock' # None /\ lock'.record # None
  <2>1. lock \in Directory
    BY <1>4 DEF IInv, Rest
  <2>2. PICK r \in Record : r = claim[p].record
    BY <1>2 DEF Claim
  <2>3. lock' = [lock EXCEPT !.record = r]
    BY <1>4, <2>2
  <2>4. lock' \in Directory /\ lock'.holder = lock.holder /\ lock'.marker = lock.marker /\ lock'.record = r
    BY <2>1, <2>3 DEF Directory
  <2> QED BY <2>2, <2>4, NoneAssumption
<1>5. lock \in Directory \cup {None}
  BY DEF IInv, Rest
<1>6. lock' \in Directory \cup {None}
  BY <1>3, <1>4, <1>5
<1>7. Rest'
  BY <1>1, <1>6, RestKeeps
<1>8. lock' # None => lock # None /\ lock' \in Directory /\ lock'.marker = lock.marker
  BY <1>3, <1>4, <1>5
<1>9. /\ Processes' /\ Marks' /\ stage'[p] \notin InHand
      /\ \A q \in Process \ {p} : stage'[q] = stage[q] /\ claim'[q] = claim[q]
      /\ \A c \in Client : Busy(c)' => Busy(c)
  BY <1>1, <1>8, PutsDown
<1>10. robbed' = robbed /\ cut' = cut
  BY <1>1 DEF history
<1>11. Kept'
  <2> SUFFICES ASSUME lock' # None, lock'.record = None, ~cut'
               PROVE  \E q \in Process : stage'[q] \in InHand /\ claim'[q].holder = lock'.holder
    BY DEF Kept
  <2>1. lock' = lock /\ ~(lock # None /\ lock.holder = claim[p].holder)
    BY <1>3, <1>4
  <2>2. PICK q \in Process : stage[q] \in InHand /\ claim[q].holder = lock.holder
    BY <2>1, <1>10 DEF IInv, Kept
  <2>3. q # p
    BY <2>1, <2>2
  <2> QED BY <1>9, <2>1, <2>2, <2>3
<1>12. ASSUME Held PROVE Held'
  <2>1. HasIt(p)
    BY <1>1, <1>12 DEF Held
  <2>2. /\ lock # None /\ lock.holder = claim[p].holder /\ claim[p].record.nonce = lock.holder
    BY <2>1 DEF HasIt
  <2>3. /\ lock' # None /\ lock'.holder = lock.holder /\ lock'.record = claim[p].record
    BY <2>2, <1>3, <1>4
  <2>4. \A q \in Process : stage'[q] \notin InHand
    BY <1>9, <2>1 DEF HasIt
  <2>5. \A c \in Client : Busy(c)' => Holds(c)'
    BY <1>9, <1>12, <2>2, <2>3 DEF Held, Holds
  <2> QED BY <2>2, <2>3, <2>4, <2>5 DEF Held
<1>13. robbed' \/ Held'
  BY <1>10, <1>12 DEF IInv
<1> QED BY <1>7, <1>9, <1>11, <1>13 DEF IInv

-----------------------------------------------------------------------------
(* Replacing the record. *)

\* The record is replaced by one of p's, on the way to stage s of goal g.
LEMMA Replaced ==
    ASSUME IInv, NEW p \in Process, stage[p] = "replacing", goal[p] \in Updating, lock # None,
           lock' = [lock EXCEPT !.record = [nonce |-> seen[p].nonce, pending |-> seen[p].pending]],
           robbed' = (robbed \/ lock.record = None \/ lock.record.nonce # Nonce(p)),
           UNCHANGED <<stale, released, events, missed, cut>>,
           reported' \in SUBSET Mutator,
           git' \in [Client -> {"none", "stopped", "running", "signalled", "closed"}], NoMoreGit,
           NEW g \in Goal, NEW s \in {"ready", "writing"}, NEW v \in View \cup {None},
           NEW k \in Claim \cup {None},
           One(p, g, s, v, k), Sound(p, g, s, v, k), ThroughStays(p, g), ReadsThrough(s, v)
    PROVE  IInv'
<1>1. seen[p] \in View /\ seen[p].nonce = Nonce(p) /\ stage[p] \notin InHand
  BY ProcessTyped DEF InHand
<1>2. PICK r \in Record : r = [nonce |-> seen[p].nonce, pending |-> seen[p].pending]
  BY <1>1 DEF View, Record
<1>3. lock \in Directory /\ r.nonce = Nonce(p) /\ r # None
  BY <1>1, <1>2, NoneAssumption DEF IInv, Rest
<1>4. lock' = [lock EXCEPT !.record = r]
  BY <1>2
<1>5. lock' \in Directory /\ lock'.holder = lock.holder /\ lock'.record = r /\ lock'.marker = lock.marker
  BY <1>3, <1>4 DEF Directory
<1>6. lock' # None
  BY <1>5, NoneAssumption
<1>7. Rest'
  BY <1>5 DEF IInv, Rest, events
<1>8. Processes /\ Marks /\ s \in Stage /\ s \notin InHand
  BY DEF IInv, Stage, InHand
<1>9. /\ Processes' /\ stage'[p] = s
      /\ \A q \in Process \ {p} : stage'[q] = stage[q]
  BY <1>8, OneProcess
<1>10. Marks'
  <2>1. \A c \in lock'.marker : c \in Client /\ c \in lock.marker
    BY <1>3, <1>5 DEF Directory
  <2> QED BY <2>1, <1>3, <1>8, MarksStay
<1>11. Kept'
  BY <1>3, <1>5 DEF Kept
<1>12. ASSUME Held, ~robbed' PROVE Held'
  <2>1. lock.record # None /\ lock.record.nonce = Nonce(p) /\ lock.holder = Nonce(p)
    BY <1>12 DEF Held
  <2>2. Holds(Nonce(p))
    BY <2>1 DEF Holds
  <2>3. ASSUME NEW c \in Client, Busy(c)' PROVE Holds(c)'
    <3>1. \A d \in Client : GitAlive(d)' => Busy(d)
      BY DEF NoMoreGit
    <3>2. Busy(c) \/ Holds(c)
      BY <1>8, <2>2, <2>3, <3>1, BusyStays
    <3>3. Holds(c)
      BY <3>2, <1>12 DEF Held
    <3> QED BY <3>3, <1>5, <1>6 DEF Holds
  <2>4. \A q \in Process : stage[q] \notin InHand
    BY <2>1, <1>12 DEF Held, HasIt
  <2>5. \A q \in Process : stage'[q] \notin InHand
    <3> TAKE q \in Process
    <3>1. CASE q = p
      BY <3>1, <1>8, <1>9
    <3>2. CASE q # p
      BY <3>2, <1>9, <2>4
    <3> QED BY <3>1, <3>2
  <2>6. lock'.record.nonce = lock'.holder
    BY <1>3, <1>5, <2>1
  <2> QED BY <2>3, <2>5, <2>6 DEF Held
<1>13. robbed' \/ Held'
  BY <1>12 DEF IInv
<1> QED BY <1>7, <1>9, <1>10, <1>11, <1>13 DEF IInv

LEMMA Updating_Replace ==
    ASSUME IInv, NEW p \in Process, Replace(p) PROVE IInv'
<1>1. /\ stage[p] = "replacing" /\ goal[p] \in Updating /\ stage[p] \notin InHand
      /\ Fits(p, goal[p]) /\ seen[p] \in View
      /\ UNCHANGED <<stale, released, events, missed, cut>>
  BY ProcessTyped DEF Replace, InHand
<1>2. Nonce(p) \in Client
  BY ProcessFacts
<1>3. CASE lock = None /\ Fails(p) /\ UNCHANGED <<lock, reported, robbed>>
  BY <1>1, <1>3, UpdateFails DEF files, history
<1>4. CASE /\ lock # None
           /\ lock' = [lock EXCEPT !.record = [nonce |-> seen[p].nonce, pending |-> seen[p].pending]]
           /\ CASE goal[p] = "prepare" -> Turn(p, "fork") /\ UNCHANGED <<git, reported>>
                [] goal[p] = "claim" -> StartGit(p)
                [] goal[p] = "track" -> Step(p, "writing") /\ UNCHANGED <<seen, claim, git, reported>>
                [] goal[p] = "drop" -> Turn(p, "defer") /\ UNCHANGED <<git, reported>>
           /\ robbed' = (robbed \/ lock.record = None \/ lock.record.nonce # Nonce(p))
  <2>1. /\ git \in [Client -> {"none", "stopped", "running", "signalled", "closed"}]
        /\ reported \subseteq Mutator
    BY DEF IInv, Rest
  <2>2. ASSUME NEW g \in {"fork", "track", "drop", "defer"}, Turn(p, g), Fits(p, g), ThroughStays(p, g),
               git' \in [Client -> {"none", "stopped", "running", "signalled", "closed"}], NoMoreGit,
               reported' \in SUBSET Mutator
        PROVE  IInv'
    <3>1. One(p, g, "ready", None, None) /\ Sound(p, g, "ready", None, None)
      BY <2>2 DEF One, Turn, Sound, InHand
    <3>2. ReadsThrough("ready", None) /\ g \in Goal
      BY DEF ReadsThrough, Goal
    <3> QED BY <1>1, <1>4, <2>2, <3>1, <3>2, Replaced
  <2>3. ASSUME git' = git PROVE NoMoreGit
    BY <2>3, GitUnmoved
  <2>4. CASE goal[p] = "prepare"
    <3>1. Turn(p, "fork") /\ UNCHANGED <<git, reported>>
      BY <1>4, <2>4
    <3>2. Fits(p, "fork") /\ ThroughStays(p, "fork")
      BY <1>1, <2>4 DEF Fits, ClientGoal, SupervisorGoal, ThroughStays, Through
    <3> QED BY <2>1, <2>2, <2>3, <3>1, <3>2
  <2>5. CASE goal[p] = "drop"
    <3>1. Turn(p, "defer") /\ UNCHANGED <<git, reported>>
      BY <1>4, <2>5
    <3>2. Fits(p, "defer") /\ ThroughStays(p, "defer")
      BY <1>1, <2>5 DEF Fits, ClientGoal, SupervisorGoal, ThroughStays, Through
    <3> QED BY <2>1, <2>2, <2>3, <3>1, <3>2
  <2>6. CASE goal[p] = "claim"
    <3>1. StartGit(p)
      BY <1>4, <2>6
    <3>2. Fits(p, "drop") /\ Fits(p, "track") /\ ThroughStays(p, "drop") /\ ThroughStays(p, "track")
      BY <1>1, <2>6 DEF Fits, ClientGoal, SupervisorGoal, ThroughStays, Through
    <3>3. ~IsClient(p) /\ p = S(Nonce(p)) /\ Nonce(p) \in Mutator
      BY <1>1, <2>6, ProcessFacts DEF Fits, ClientGoal
    <3>4. CASE Turn(p, "drop") /\ UNCHANGED <<git, reported>>
      BY <2>1, <2>2, <2>3, <3>2, <3>4
    <3>5. CASE /\ Turn(p, "track") /\ git' = [git EXCEPT ![Nonce(p)] = "stopped"]
               /\ reported' = reported \cup {Nonce(p)}
      <4>1. /\ git' \in [Client -> {"none", "stopped", "running", "signalled", "closed"}]
            /\ \A c \in Client \ {Nonce(p)} : git'[c] = git[c]
        BY <2>1, <3>5, <1>2
      <4>2. Busy(Nonce(p))
        BY <2>6, <3>3, ProcessFacts DEF Busy, Working
      <4>3. NoMoreGit
        <5> SUFFICES ASSUME NEW c \in Client, GitAlive(c)' PROVE Busy(c)
          BY DEF NoMoreGit
        <5>1. CASE c = Nonce(p)
          BY <5>1, <4>2
        <5>2. CASE c # Nonce(p)
          <6>1. GitAlive(c)
            BY <5>2, <4>1 DEF GitAlive
          <6> QED BY <6>1 DEF Busy
        <5> QED BY <5>1, <5>2
      <4>4. reported' \in SUBSET Mutator
        BY <2>1, <3>3, <3>5
      <4> QED BY <2>2, <3>2, <3>5, <4>1, <4>3, <4>4
    <3> QED BY <3>1, <3>4, <3>5 DEF StartGit
  <2>7. CASE goal[p] = "track"
    <3>1. Step(p, "writing") /\ UNCHANGED <<seen, claim, git, reported>>
      BY <1>4, <2>7
    <3>2. /\ Marks /\ Sound(p, goal[p], stage[p], seen[p], claim[p])
          /\ goal \in [Process -> Goal] /\ seen \in [Process -> View \cup {None}]
          /\ claim \in [Process -> Claim \cup {None}]
      BY DEF IInv, Processes
    <3>3. PICK v \in View, k \in Claim \cup {None} : v = seen[p] /\ k = claim[p]
      BY <1>1, <3>2
    <3>4. One(p, "track", "writing", v, k)
      BY <2>7, <3>1, <3>2, <3>3 DEF One, Step
    <3>5. Sound(p, "track", "writing", v, k) /\ "track" \in Goal
      BY <1>1, <2>7 DEF Sound, InHand, Goal
    <3>6. ReadsThrough("writing", v) /\ ThroughStays(p, "track")
      BY <1>1, <2>7, <3>2, <3>3 DEF ReadsThrough, Marks, ThroughStays, Through
    <3>7. /\ git' \in [Client -> {"none", "stopped", "running", "signalled", "closed"}]
          /\ NoMoreGit /\ reported' \in SUBSET Mutator
      BY <2>1, <2>3, <3>1
    <3> QED BY <1>1, <1>4, <3>4, <3>5, <3>6, <3>7, Replaced
  <2> QED BY <1>1, <2>4, <2>5, <2>6, <2>7 DEF Updating
<1> QED BY <1>3, <1>4 DEF Replace

-----------------------------------------------------------------------------
(* The invariant and what follows. *)

LEMMA InitIInv == Init => IInv
<1> SUFFICES ASSUME Init PROVE IInv
  OBVIOUS
<1>1. Rest
  <2>1. /\ faults = 0 /\ lock = None /\ stale = {} /\ released = {} /\ missed = {}
        /\ past = {} /\ reported = {} /\ lost = {} /\ broken = {} /\ robbed = FALSE /\ cut = FALSE
    BY DEF Init
  <2>2. faults \in 0..MaxFaults
    BY <2>1, BoundsAssumption
  <2>3. git \in [Client -> {"none", "stopped", "running", "signalled", "closed"}]
    BY DEF Init
  <2> QED BY <2>1, <2>2, <2>3 DEF Rest
<1>2. /\ goal \in [Process -> Goal] /\ stage \in [Process -> Stage]
      /\ seen \in [Process -> View \cup {None}] /\ claim \in [Process -> Claim \cup {None}]
  <2>1. goal \in [Process -> Goal]
    BY DEF Init, Goal
  <2>2. stage \in [Process -> Stage]
    BY DEF Init, Stage
  <2>3. seen \in [Process -> View \cup {None}] /\ claim \in [Process -> Claim \cup {None}]
    BY DEF Init
  <2> QED BY <2>1, <2>2, <2>3
<1>3. \A p \in Process : /\ stage[p] = "ready"
                         /\ goal[p] = IF IsClient(p) THEN "acquire" ELSE "none"
  BY DEF Init
<1>4. \A p \in Process : Sound(p, goal[p], stage[p], seen[p], claim[p])
  <2> TAKE p \in Process
  <2>1. Fits(p, goal[p])
    BY <1>3 DEF Fits, ClientGoal, SupervisorGoal
  <2> QED BY <2>1, <1>3 DEF Sound, InHand
<1>5. lock = None
  BY DEF Init
<1>6. Marks /\ Kept
  BY <1>3, <1>5 DEF Marks, Kept
<1>7. Held
  <2>1. ASSUME NEW c \in Client PROVE ~Busy(c)
    <3>1. goal[C(c)] = "acquire" /\ goal[S(c)] = "none" /\ IsClient(C(c)) /\ ~IsClient(S(c))
      BY <1>3, ProcessFacts
    <3>2. ~GitAlive(c)
      BY DEF Init, GitAlive
    <3> QED BY <3>1, <3>2 DEF Busy, Working
  <2> QED BY <2>1, <1>3, <1>5 DEF Held, InHand
<1> QED BY <1>1, <1>2, <1>4, <1>6, <1>7 DEF IInv, Processes

LEMMA Stutters == IInv /\ UNCHANGED vars => IInv'
<1> SUFFICES ASSUME IInv, UNCHANGED vars PROVE IInv'
  OBVIOUS
<1>1. /\ UNCHANGED <<lock, stale, released, goal, stage, seen, claim, git, reported>>
      /\ UNCHANGED <<past, lost, broken, faults, robbed, missed, cut>>
  BY DEF vars, files, events, history
<1>2. Rest'
  BY <1>1 DEF IInv, Rest
<1>3. Processes'
  BY <1>1 DEF IInv, Processes
<1>4. Marks'
  BY <1>1 DEF IInv, Marks
<1>5. Kept'
  BY <1>1 DEF IInv, Kept
<1>6. Held => Held'
  <2>1. \A c \in Client : Busy(c)' = Busy(c)
    BY <1>1 DEF Busy, GitAlive, C, S
  <2>2. \A c \in Client : Holds(c)' = Holds(c)
    BY <1>1 DEF Holds
  <2>3. \A q \in Process : HasIt(q)' = HasIt(q)
    BY <1>1 DEF HasIt
  <2> QED BY <2>1, <2>2, <2>3, <1>1 DEF Held
<1> QED BY <1>1, <1>2, <1>3, <1>4, <1>5, <1>6 DEF IInv

LEMMA Inductive == IInv /\ [Next]_vars => IInv'
<1> SUFFICES ASSUME IInv, [Next]_vars PROVE IInv'
  OBVIOUS
<1>1. CASE UNCHANGED vars
  BY <1>1, Stutters
<1>2. ASSUME NEW p \in Process,
             \/ ReadRecord(p) \/ ReadMarker(p) \/ ReadChild(p) \/ Decide(p)
             \/ ClaimRecord(p) \/ MoveDirectory(p) \/ Restore(p)
             \/ ReadRaw(p) \/ Replace(p) \/ TrackGit(p) \/ ClearChild(p) \/ MarkRelease(p) \/ Die(p)
      PROVE  IInv'
  <2>1. CASE ReadRecord(p) \/ ReadMarker(p) \/ ReadChild(p) \/ Decide(p)
    BY <2>1, Reading_ReadRecord, Reading_ReadMarker, Reading_ReadChild, Reading_Decide
  <2>2. CASE ClaimRecord(p) \/ MoveDirectory(p) \/ Restore(p)
    BY <2>2, Taking_ClaimRecord, Taking_MoveDirectory, Taking_Restore
  <2>3. CASE ReadRaw(p) \/ Replace(p)
    BY <2>3, Updating_ReadRaw, Updating_Replace
  <2>4. CASE TrackGit(p) \/ ClearChild(p) \/ MarkRelease(p) \/ Die(p)
    BY <2>4, Files_TrackGit, Files_ClearChild, Files_MarkRelease, Fault_Die
  <2> QED BY <1>2, <2>1, <2>2, <2>3, <2>4
<1>3. ASSUME NEW c \in Client,
             \/ Acquire(c) \/ Use(c) \/ Fork(c) \/ Return(c)
             \/ NoticeClose(c) \/ GitCloses(c) \/ NoticeLoss(c) \/ PassDeadline(c)
      PROVE  IInv'
  <2>1. CASE Acquire(c) \/ Use(c) \/ Fork(c) \/ Return(c)
    BY <2>1, Client_Acquire, Client_Use, Client_Fork, Client_Return
  <2>2. CASE NoticeClose(c) \/ GitCloses(c) \/ NoticeLoss(c) \/ PassDeadline(c)
    BY <2>2, Supervisor_NoticeClose, Git_Steps
  <2> QED BY <1>3, <2>1, <2>2
<1> QED BY <1>1, <1>2, <1>3 DEF Next

LEMMA AlwaysIInv == Spec => []IInv
BY InitIInv, Inductive, PTL DEF Spec

\* Every variable keeps its type, whatever the processes do to each other's files.
THEOREM TypeCorrect == Spec => []TypeOK
<1>1. IInv => TypeOK
  BY DEF IInv, Rest, Processes, TypeOK
<1> QED BY <1>1, AlwaysIInv, PTL

\* claimActiveLeaseRecord and restoreActiveLeaseRecordClaim: a lease without a record is
\* one that some process will move or give its record back to, unless one died with the
\* record in hand.
THEOREM Stranding == Spec => []NeverStranded
<1>1. IInv => NeverStranded
  BY DEF IInv, Kept, NeverStranded, InHand
<1> QED BY <1>1, AlwaysIInv, PTL

\* withWorktreeOperationLease: for any number of processes, who may touch the worktree
\* has the directory, and nobody else may, unless a directory was taken from a
\* supervisor or a Git command at work.
THEOREM Exclusion == Spec => []Exclusive
<1>1. ASSUME IInv PROVE Exclusive
  <2> SUFFICES ASSUME ~robbed, NEW c \in Client, Mutates(c)
               PROVE  /\ lock # None /\ lock.holder = c
                      /\ \A d \in Client \ {c} : ~Mutates(d)
    BY DEF Exclusive
  <2>1. \A d \in Client : Mutates(d) => Busy(d)
    <3> TAKE d \in Client
    <3>1. IsClient(C(d))
      BY ProcessFacts
    <3> QED BY <3>1 DEF Mutates, Busy, Working, GitAlive
  <2>2. \A d \in Client : Mutates(d) => Holds(d)
    BY <1>1, <2>1 DEF IInv, Held
  <2> QED BY <2>2 DEF Holds
<1> QED BY <1>1, AlwaysIInv, PTL

-----------------------------------------------------------------------------
(***************************************************************************)
(* A release takes effect.  A client keeps its directory until it has come *)
(* to the end of its own release (Owned), because nobody sets out to take  *)
(* the directory of a client that has neither died nor asked for it        *)
(* (Spoken).  So it ends by taking the directory away itself or by leaving *)
(* its marker there; and what it leaves pending, a supervisor has been     *)
(* forked for (Unpending).                                                 *)
(***************************************************************************)

\* Nothing is expected of the client any more; it has the lease; it has had a supervisor.
Finished == {"done", "dead"}
Owning == {"hold", "prepare", "fork", "wait", "drop", "defer", "release"}
Forking == {"wait", "drop", "defer"}

\* p, at goal g and stage s with view v, speaks only of clients that are finished, or
\* takes its own lease away.
Speaks(p, g, s, v) ==
    /\ s # "ready" /\ v.marker => goal[C(v.nonce)] \in Finished
    /\ s \in {"claiming", "moving"} =>
         goal[C(v.nonce)] \in Finished \/ (p = C(v.nonce) /\ g = "release")

Spoken ==
    /\ lock # None => \A c \in lock.marker : goal[C(c)] \in Finished
    /\ \A c \in released : goal[C(c)] \in Finished
    /\ \A p \in Process : Speaks(p, goal[p], stage[p], seen[p])

Forked == \A c \in Client : goal[S(c)] = "none" => goal[C(c)] \notin Forking

\* A client that has not come to fork a supervisor has nothing pending.
Unstarted(r) == goal[S(r.nonce)] = "none" /\ goal[C(r.nonce)] \notin {"fork", "dead"} => r.pending = "none"

Unpending ==
    /\ lock # None /\ lock.record # None => Unstarted(lock.record)
    /\ \A p \in Process : stage[p] \in InHand => Unstarted(claim[p].record)

\* A release is of the client's own lease and never gives the record back.
Releases(p, g, s, v) == g = "release" => s # "restoring" /\ (s # "ready" => v.nonce = Nonce(p))

Owned ==
    \A c \in Client :
        /\ goal[C(c)] \in Owning => Holds(c)
        /\ Releases(C(c), goal[C(c)], stage[C(c)], seen[C(c)])
        /\ goal[C(c)] = "done" /\ c \notin missed /\ Holds(c) => c \in lock.marker

RInv == Spoken /\ Forked /\ Unpending /\ (robbed \/ Owned)

\* How the goal of a process may change.
Follows(p, g) ==
    /\ g = "none" => goal[p] = "none"
    /\ IsClient(p) => /\ goal[p] \in Finished => g \in Finished
                      /\ g \in Forking => goal[p] \in Forking
                      /\ goal[p] \in {"fork", "dead"} => g \in {"fork", "dead"}

\* What happens to the leases of others, and to the lease of p.
Keeps(p, g) ==
    /\ \A c \in Client : Holds(c) /\ goal[C(c)] \in Owning /\ (p = C(c) => g \in Owning) => Holds(c)'
    /\ \A c \in Client : goal[C(c)] = "done" /\ p # C(c) /\ Holds(c)' =>
           Holds(c) /\ (c \in lock.marker => c \in lock'.marker)
    /\ IsClient(p) /\ g \in Owning => goal[p] \in Owning \/ Holds(Nonce(p))'
    /\ IsClient(p) /\ g = "done" /\ Nonce(p) \notin missed' /\ Holds(Nonce(p))' => Nonce(p) \in lock'.marker

StaysUnstarted(r) ==
    goal'[S(r.nonce)] = "none" /\ goal'[C(r.nonce)] \notin {"fork", "dead"} => r.pending = "none"

\* A record that p may write.
Writes(p, g, r) ==
    /\ r \in Record
    /\ \/ Unstarted(r)
       \/ r.nonce = Nonce(p) /\ (g = "fork" \/ goal[S(Nonce(p))] # "none")

LEMMA OneSteps ==
    ASSUME Processes, NEW p \in Process, NEW g, NEW s, NEW v, NEW k, One(p, g, s, v, k)
    PROVE  /\ goal'[p] = g /\ stage'[p] = s /\ seen'[p] = v /\ claim'[p] = k
           /\ \A q \in Process \ {p} : /\ goal'[q] = goal[q] /\ stage'[q] = stage[q]
                                       /\ seen'[q] = seen[q] /\ claim'[q] = claim[q]
BY DEF One, Processes

LEMMA ReleaseSteps ==
    ASSUME IInv, RInv, NEW p \in Process, NEW g \in Goal, NEW s \in Stage, NEW v, NEW k,
           One(p, g, s, v, k), Follows(p, g), Speaks(p, g, s, v), s # "ready" => v \in View,
           missed \subseteq missed', robbed => robbed',
           lock' # None => \A c \in lock'.marker :
               c \in Client /\ ((p = C(c) /\ g \in Finished) \/ (lock # None /\ c \in lock.marker)),
           \A c \in released' : c \in Client /\ (c \in released \/ goal[C(c)] \in Finished \/ (p = C(c) /\ g \in Finished)),
           lock' # None /\ lock'.record # None => Writes(p, g, lock'.record),
           s \in InHand => k.record \in Record /\ Unstarted(k.record),
           ~robbed' /\ Held /\ Owned => Keeps(p, g) /\ Releases(p, g, s, v)
    PROVE  RInv'
<1>1. /\ goal'[p] = g /\ stage'[p] = s /\ seen'[p] = v /\ claim'[p] = k
      /\ \A q \in Process \ {p} : /\ goal'[q] = goal[q] /\ stage'[q] = stage[q]
                                  /\ seen'[q] = seen[q] /\ claim'[q] = claim[q]
  BY OneSteps DEF IInv
<1>2. \A c \in Client : goal[C(c)] \in Finished => goal'[C(c)] \in Finished
  <2> TAKE c \in Client
  <2>1. C(c) \in Process /\ IsClient(C(c))
    BY ProcessFacts
  <2>2. CASE p = C(c)
    BY <2>1, <2>2, <1>1 DEF Follows
  <2>3. CASE p # C(c)
    BY <2>1, <2>3, <1>1
  <2> QED BY <2>2, <2>3
<1>3. Spoken'
  <2>1. lock' # None => \A c \in lock'.marker : goal'[C(c)] \in Finished
    <3> SUFFICES ASSUME lock' # None, NEW c \in lock'.marker PROVE goal'[C(c)] \in Finished
      OBVIOUS
    <3>1. CASE p = C(c) /\ g \in Finished
      BY <3>1, <1>1
    <3>2. CASE lock # None /\ c \in lock.marker
      <4>1. goal[C(c)] \in Finished /\ c \in Client
        BY <3>2 DEF RInv, Spoken
      <4> QED BY <4>1, <1>2
    <3> QED BY <3>1, <3>2
  <2>2. \A c \in released' : goal'[C(c)] \in Finished
    <3> TAKE c \in released'
    <3>1. CASE p = C(c) /\ g \in Finished
      BY <3>1, <1>1
    <3>2. CASE c \in released \/ goal[C(c)] \in Finished
      <4>1. goal[C(c)] \in Finished /\ c \in Client
        BY <3>2 DEF RInv, Spoken
      <4> QED BY <4>1, <1>2
    <3> QED BY <3>1, <3>2
  <2>3. ASSUME NEW q \in Process
        PROVE  /\ stage'[q] # "ready" /\ seen'[q].marker => goal'[C(seen'[q].nonce)] \in Finished
               /\ stage'[q] \in {"claiming", "moving"} =>
                    goal'[C(seen'[q].nonce)] \in Finished \/ (q = C(seen'[q].nonce) /\ goal'[q] = "release")
    <3>1. Speaks(q, goal'[q], stage'[q], seen'[q]) /\ (stage'[q] # "ready" => seen'[q] \in View)
      <4>1. CASE q = p
        BY <4>1, <1>1
      <4>2. CASE q # p
        BY <4>2, <1>1, ProcessTyped DEF RInv, Spoken
      <4> QED BY <4>1, <4>2
    <3>2. stage'[q] # "ready" => seen'[q].nonce \in Client
      BY <3>1 DEF View
    <3> QED BY <3>1, <3>2, <1>2 DEF Speaks
  <2> QED BY <2>1, <2>2, <2>3 DEF Spoken, Speaks, C
<1>4. ASSUME NEW c \in Client PROVE goal'[S(c)] = "none" => goal[S(c)] = "none"
  <2>1. S(c) \in Process
    BY ProcessFacts
  <2>2. CASE p = S(c)
    BY <2>2, <1>1 DEF Follows
  <2>3. CASE p # S(c)
    BY <2>1, <2>3, <1>1
  <2> QED BY <2>2, <2>3
<1>5. Forked'
  <2> SUFFICES ASSUME NEW c \in Client, goal'[S(c)] = "none" PROVE goal'[C(c)] \notin Forking
    BY DEF Forked, C, S
  <2>1. goal[C(c)] \notin Forking /\ C(c) \in Process /\ IsClient(C(c))
    BY <1>4, ProcessFacts DEF RInv, Forked
  <2>2. CASE p = C(c)
    BY <2>1, <2>2, <1>1 DEF Follows
  <2>3. CASE p # C(c)
    BY <2>1, <2>3, <1>1
  <2> QED BY <2>2, <2>3
<1>6. ASSUME NEW r \in Record, Unstarted(r) PROVE StaysUnstarted(r)
  <2> SUFFICES ASSUME goal'[S(r.nonce)] = "none", goal'[C(r.nonce)] \notin {"fork", "dead"}
               PROVE  r.pending = "none"
    BY DEF StaysUnstarted
  <2>1. r.nonce \in Client
    BY DEF Record
  <2>2. goal[S(r.nonce)] = "none" /\ C(r.nonce) \in Process /\ IsClient(C(r.nonce))
    BY <2>1, <1>4, ProcessFacts
  <2>3. goal[C(r.nonce)] \notin {"fork", "dead"}
    <3>1. CASE p = C(r.nonce)
      BY <2>2, <3>1, <1>1 DEF Follows
    <3>2. CASE p # C(r.nonce)
      BY <2>2, <3>2, <1>1
    <3> QED BY <3>1, <3>2
  <2> QED BY <1>6, <2>2, <2>3 DEF Unstarted
<1>7. Unpending'
  <2>1. ASSUME lock' # None, lock'.record # None PROVE StaysUnstarted(lock'.record)
    <3>1. PICK r : r = lock'.record
      OBVIOUS
    <3>2. Writes(p, g, r)
      BY <2>1, <3>1
    <3>3. CASE Unstarted(r)
      BY <3>1, <3>2, <3>3, <1>6 DEF Writes
    <3>4. CASE r.nonce = Nonce(p) /\ (g = "fork" \/ goal[S(Nonce(p))] # "none")
      <4>1. Nonce(p) \in Client
        BY ProcessFacts
      <4>2. CASE goal[S(Nonce(p))] # "none"
        BY <4>1, <4>2, <3>1, <3>4, <1>4 DEF StaysUnstarted
      <4>3. CASE g = "fork" /\ IsClient(p)
        <5>1. p = C(Nonce(p))
          BY <4>3, ProcessFacts
        <5>2. goal'[C(r.nonce)] = "fork"
          BY <5>1, <4>3, <3>4, <1>1
        <5> QED BY <5>2, <3>1 DEF StaysUnstarted
      <4>4. CASE g = "fork" /\ ~IsClient(p)
        <5>1. p = S(Nonce(p))
          BY <4>4, ProcessFacts
        <5>2. goal'[S(r.nonce)] = "fork"
          BY <5>1, <4>4, <3>4, <1>1
        <5> QED BY <5>2, <3>1 DEF StaysUnstarted
      <4> QED BY <3>4, <4>2, <4>3, <4>4
    <3> QED BY <3>2, <3>3, <3>4 DEF Writes
  <2>2. ASSUME NEW q \in Process, stage'[q] \in InHand PROVE StaysUnstarted(claim'[q].record)
    <3>1. PICK r : r = claim'[q].record
      OBVIOUS
    <3>2. r \in Record /\ Unstarted(r)
      <4>1. CASE q = p
        BY <4>1, <3>1, <2>2, <1>1
      <4>2. CASE q # p
        <5>1. stage[q] \in InHand /\ claim'[q] = claim[q]
          BY <4>2, <2>2, <1>1
        <5> QED BY <5>1, <3>1, ProcessTyped DEF RInv, Unpending, Claim
      <4> QED BY <4>1, <4>2
    <3>3. StaysUnstarted(r)
      BY <3>2, <1>6
    <3> QED BY <3>1, <3>3
  <2> QED BY <2>1, <2>2 DEF Unpending, Unstarted, StaysUnstarted, C, S
<1>8. ASSUME ~robbed' PROVE Owned'
  <2>1. Held /\ Owned
    BY <1>8 DEF IInv, RInv
  <2>2. Keeps(p, g) /\ Releases(p, g, s, v)
    BY <2>1, <1>8
  <2>3. ASSUME NEW c \in Client
        PROVE  /\ goal'[C(c)] \in Owning => Holds(c)'
               /\ Releases(C(c), goal'[C(c)], stage'[C(c)], seen'[C(c)])
               /\ goal'[C(c)] = "done" /\ c \notin missed' /\ Holds(c)' => c \in lock'.marker
    <3>1. C(c) \in Process /\ IsClient(C(c)) /\ Nonce(C(c)) = c
      BY ProcessFacts
    <3>2. CASE p = C(c)
      <4>1. goal'[C(c)] = g /\ stage'[C(c)] = s /\ seen'[C(c)] = v
        BY <3>2, <1>1
      <4>2. g \in Owning => Holds(c)'
        BY <2>1, <2>2, <3>1, <3>2 DEF Keeps, Owned
      <4>3. Releases(C(c), g, s, v)
        BY <2>2, <3>2
      <4>4. g = "done" /\ c \notin missed' /\ Holds(c)' => c \in lock'.marker
        BY <2>2, <3>1, <3>2 DEF Keeps
      <4> QED BY <4>1, <4>2, <4>3, <4>4
    <3>3. CASE p # C(c)
      <4>1. goal'[C(c)] = goal[C(c)] /\ stage'[C(c)] = stage[C(c)] /\ seen'[C(c)] = seen[C(c)]
        BY <3>1, <3>3, <1>1
      <4>2. goal[C(c)] \in Owning => Holds(c)'
        BY <2>1, <2>2, <3>3 DEF Keeps, Owned
      <4>3. goal[C(c)] = "done" /\ c \notin missed' /\ Holds(c)' => c \in lock'.marker
        BY <2>1, <2>2, <3>3 DEF Keeps, Owned
      <4>4. Releases(C(c), goal[C(c)], stage[C(c)], seen[C(c)])
        BY <2>1 DEF Owned
      <4> QED BY <4>1, <4>2, <4>3, <4>4
    <3> QED BY <3>2, <3>3
  <2> QED BY <2>3 DEF Owned, Releases, Holds, C
<1> QED BY <1>3, <1>5, <1>7, <1>8 DEF RInv

\* The step makes a client the owner of nothing it did not own, and finishes none whose
\* directory stays unmarked.
Ends(p, g) ==
    IsClient(p) => /\ g \in Owning => goal[p] \in Owning
                   /\ g = "done" /\ Nonce(p) \notin missed' /\ Holds(Nonce(p)) => Nonce(p) \in lock.marker

\* A step that leaves the directory alone.
LEMMA ReleaseQuiet ==
    ASSUME IInv, RInv, NEW p \in Process, NEW g \in Goal, NEW s \in Stage, NEW v, NEW k,
           One(p, g, s, v, k), Follows(p, g), Speaks(p, g, s, v), s # "ready" => v \in View,
           lock' = lock, released' = released, missed \subseteq missed', robbed' = robbed,
           s \in InHand => stage[p] \in InHand /\ k = claim[p],
           ~robbed /\ Held /\ Owned => Ends(p, g) /\ Releases(p, g, s, v)
    PROVE  RInv'
<1>1. /\ lock # None => lock \in Directory
      /\ released \subseteq Client
  BY DEF IInv, Rest
<1>2. lock' # None => \A c \in lock'.marker :
          c \in Client /\ ((p = C(c) /\ g \in Finished) \/ (lock # None /\ c \in lock.marker))
  BY <1>1 DEF Directory
<1>3. \A c \in released' : c \in Client /\ (c \in released \/ goal[C(c)] \in Finished \/ (p = C(c) /\ g \in Finished))
  BY <1>1
<1>4. lock' # None /\ lock'.record # None => Writes(p, g, lock'.record)
  BY <1>1 DEF Directory, RInv, Unpending, Writes
<1>5. s \in InHand => k.record \in Record /\ Unstarted(k.record)
  BY ProcessTyped DEF RInv, Unpending, Claim
<1>6. ~robbed' /\ Held /\ Owned => Keeps(p, g) /\ Releases(p, g, s, v)
  BY ProcessFacts DEF Keeps, Ends, Holds
<1> QED BY <1>2, <1>3, <1>4, <1>5, <1>6, ReleaseSteps

LEMMA ReleaseTurns ==
    ASSUME IInv, RInv, NEW p \in Process, NEW g \in Goal, Turn(p, g), Follows(p, g),
           lock' = lock, released' = released, missed \subseteq missed', robbed' = robbed,
           ~robbed /\ Held /\ Owned => Ends(p, g)
    PROVE  RInv'
<1>1. One(p, g, "ready", None, None) /\ "ready" \in Stage
  BY DEF One, Turn, Stage
<1>2. Speaks(p, g, "ready", None) /\ Releases(p, g, "ready", None) /\ "ready" \notin InHand
  BY DEF Speaks, Releases, InHand
<1> QED BY <1>1, <1>2, ReleaseQuiet

LEMMA ReleaseViews ==
    ASSUME IInv, RInv, NEW p \in Process, NEW s \in Stage, Step(p, s), claim' = claim,
           NEW v \in View, seen' = [seen EXCEPT ![p] = v], Speaks(p, goal[p], s, v),
           lock' = lock, released' = released, missed' = missed, robbed' = robbed, s \notin InHand,
           ~robbed /\ Held /\ Owned => Releases(p, goal[p], s, v)
    PROVE  RInv'
<1>1. goal \in [Process -> Goal] /\ claim \in [Process -> Claim \cup {None}]
  BY DEF IInv, Processes
<1>2. PICK g \in Goal : g = goal[p]
  BY <1>1
<1>3. One(p, g, s, v, claim[p])
  BY <1>1, <1>2 DEF One, Step
<1>4. Follows(p, g)
  BY <1>2 DEF Follows
<1>5. Owned => Ends(p, g)
  BY <1>2, ProcessFacts DEF Owned, Ends
<1> QED BY <1>2, <1>3, <1>4, <1>5, ReleaseQuiet

\* The owner of a lease reads its own record.
LEMMA OwnRecord ==
    ASSUME IInv, Held, Owned, NEW p \in Process, goal[p] = "release", HasRecord
    PROVE  lock.record.nonce = Nonce(p)
<1>1. p = C(Nonce(p)) /\ Nonce(p) \in Client
  BY ProcessTyped, ProcessFacts DEF Fits, SupervisorGoal
<1>2. Holds(Nonce(p))
  BY <1>1 DEF Owned, Owning
<1> QED BY <1>2 DEF Held, Holds, HasRecord

LEMMA OtherwiseFollows ==
    ASSUME IInv, NEW p \in Process, goal[p] \in Reading
    PROVE  /\ Otherwise(p) \in Goal /\ Follows(p, Otherwise(p))
           /\ IsClient(p) /\ Otherwise(p) \in Owning => goal[p] = "defer"
           /\ IsClient(p) /\ Otherwise(p) \in Finished => goal[p] = "release" /\ Otherwise(p) = "done"
<1>1. Fits(p, goal[p])
  BY ProcessTyped
<1>2. Otherwise(p) \in Goal
  BY OtherwiseFits
<1>3. CASE goal[p] = "acquire"
  <2>1. Otherwise(p) = "acquire"
    BY <1>3 DEF Otherwise
  <2> QED BY <1>2, <1>3, <2>1 DEF Follows, Owning, Finished, Forking
<1>4. CASE goal[p] = "release"
  <2>1. Otherwise(p) = "done"
    BY <1>4 DEF Otherwise
  <2> QED BY <1>2, <1>4, <2>1 DEF Follows, Owning, Finished, Forking
<1>5. CASE goal[p] \in {"clear", "deferClear"}
  <2>1. Otherwise(p) = "drop" /\ ~IsClient(p)
    BY <1>1, <1>5 DEF Otherwise, Fits, ClientGoal
  <2> QED BY <1>2, <1>5, <2>1 DEF Follows
<1>6. CASE goal[p] = "defer"
  <2>1. Otherwise(p) = IF IsClient(p) THEN "release" ELSE "exited"
    BY <1>6 DEF Otherwise
  <2> QED BY <1>2, <1>6, <2>1 DEF Follows, Owning, Finished, Forking
<1> QED BY <1>3, <1>4, <1>5, <1>6 DEF Reading

\* A process that was reading goes on without the directory.
LEMMA ReleaseOtherwise ==
    ASSUME IInv, RInv, NEW p \in Process, goal[p] \in Reading, Turn(p, Otherwise(p)),
           lock' = lock, released' = released, missed \subseteq missed', robbed' = robbed,
           ~robbed /\ Held /\ Owned /\ goal[p] = "release" /\ Holds(Nonce(p)) => Nonce(p) \in missed'
    PROVE  RInv'
<1>1. PICK g \in Goal : g = Otherwise(p)
  BY OtherwiseFollows
<1>2. ~robbed /\ Held /\ Owned => Ends(p, g)
  BY <1>1, OtherwiseFollows DEF Ends, Owning, Finished
<1> QED BY <1>1, <1>2, OtherwiseFollows, ReleaseTurns

LEMMA Release_ReadRecord ==
    ASSUME IInv, RInv, NEW p \in Process, ReadRecord(p) PROVE RInv'
<1>1. /\ goal[p] \in Reading /\ lock' = lock /\ released' = released /\ robbed' = robbed
  BY DEF ReadRecord, Reads, Reading, files
<1>2. CASE /\ HasRecord /\ Step(p, "marker") /\ UNCHANGED <<claim, missed>>
           /\ seen' = [seen EXCEPT ![p] = [nonce |-> lock.record.nonce, pending |-> lock.record.pending,
                                           marker |-> FALSE, child |-> FALSE]]
  <2>1. lock.record \in Record
    BY <1>2 DEF IInv, Rest, HasRecord, Directory
  <2>2. PICK v \in View : v = [nonce |-> lock.record.nonce, pending |-> lock.record.pending,
                               marker |-> FALSE, child |-> FALSE]
    BY <2>1 DEF Record, View
  <2>3. Speaks(p, goal[p], "marker", v) /\ "marker" \in Stage \ InHand
    BY <2>2 DEF Speaks, Stage, InHand
  <2>4. Held /\ Owned => Releases(p, goal[p], "marker", v)
    BY <1>2, <2>2, OwnRecord DEF Releases
  <2> QED BY <1>1, <1>2, <2>2, <2>3, <2>4, ReleaseViews
<1>3. CASE NotFound(p)
  <2>1. missed \subseteq missed' /\ (goal[p] = "release" => Nonce(p) \in missed')
    BY <1>3 DEF NotFound
  <2> QED BY <1>1, <1>3, <2>1, ReleaseOtherwise DEF NotFound
<1> QED BY <1>2, <1>3 DEF ReadRecord

LEMMA Release_ReadMarker ==
    ASSUME IInv, RInv, NEW p \in Process, ReadMarker(p) PROVE RInv'
<1> DEFINE b == lock # None /\ seen[p].nonce \in lock.marker
           v == [seen[p] EXCEPT !.marker = b]
<1>1. stage[p] = "marker" /\ Step(p, "child") /\ claim' = claim /\ seen' = [seen EXCEPT ![p] = v]
      /\ lock' = lock /\ released' = released /\ missed' = missed /\ robbed' = robbed
  BY DEF ReadMarker, files, history
<1>2. seen[p] \in View /\ "child" \in Stage \ InHand
  BY <1>1, ProcessTyped DEF Stage, InHand
<1>3. v \in View /\ v.marker = b /\ v.nonce = seen[p].nonce
  BY <1>2 DEF View
<1>4. b => goal[C(seen[p].nonce)] \in Finished
  BY DEF RInv, Spoken
<1>5. Speaks(p, goal[p], "child", v)
  BY <1>3, <1>4 DEF Speaks
<1>6. Owned => Releases(p, goal[p], "child", v)
  <2> SUFFICES ASSUME Owned, goal[p] = "release" PROVE v.nonce = Nonce(p)
    BY DEF Releases
  <2>1. p = C(Nonce(p)) /\ Nonce(p) \in Client
    BY ProcessTyped, ProcessFacts DEF Fits, SupervisorGoal
  <2> QED BY <2>1, <1>1, <1>3 DEF Owned, Releases
<1> HIDE DEF v, b
<1> QED BY <1>1, <1>2, <1>3, <1>5, <1>6, ReleaseViews

LEMMA Release_ReadChild ==
    ASSUME IInv, RInv, NEW p \in Process, ReadChild(p) PROVE RInv'
<1> DEFINE b == lock # None /\ seen[p].nonce \in lock.child
           v == [seen[p] EXCEPT !.child = b]
<1>1. stage[p] = "child" /\ Step(p, "deciding") /\ claim' = claim /\ seen' = [seen EXCEPT ![p] = v]
      /\ lock' = lock /\ released' = released /\ missed' = missed /\ robbed' = robbed
  BY DEF ReadChild, files, history
<1>2. seen[p] \in View /\ "deciding" \in Stage \ InHand
  BY <1>1, ProcessTyped DEF Stage, InHand
<1>3. v \in View /\ v.marker = seen[p].marker /\ v.nonce = seen[p].nonce
  BY <1>2 DEF View
<1>4. Speaks(p, goal[p], "deciding", v)
  BY <1>1, <1>3 DEF Speaks, RInv, Spoken
<1>5. Owned => Releases(p, goal[p], "deciding", v)
  <2> SUFFICES ASSUME Owned, goal[p] = "release" PROVE v.nonce = Nonce(p)
    BY DEF Releases
  <2>1. p = C(Nonce(p)) /\ Nonce(p) \in Client
    BY ProcessTyped, ProcessFacts DEF Fits, SupervisorGoal
  <2> QED BY <2>1, <1>1, <1>3 DEF Owned, Releases
<1> HIDE DEF v
<1> QED BY <1>1, <1>2, <1>3, <1>4, <1>5, ReleaseViews

\* Only of a client that is finished, or of its own, does a process take the directory.
LEMMA WantsSpoken ==
    ASSUME IInv, RInv, NEW p \in Process, stage[p] = "deciding", Wants(p) = "claiming"
    PROVE  goal[C(seen[p].nonce)] \in Finished \/ (p = C(seen[p].nonce) /\ goal[p] = "release")
<1>1. goal[p] \in Reading /\ seen[p] \in View /\ Fits(p, goal[p])
  BY ProcessTyped
<1>2. seen[p].marker => goal[C(seen[p].nonce)] \in Finished
  BY DEF RInv, Spoken, Speaks
<1>3. CASE goal[p] = "acquire"
  <2>1. Stale(seen[p])
    BY <1>3 DEF Wants
  <2> QED BY <2>1, <1>2 DEF Stale, ClientAlive, Finished
<1>4. CASE goal[p] = "release"
  <2>1. seen[p].nonce = Nonce(p)
    BY <1>4 DEF Wants
  <2>2. p = C(Nonce(p))
    BY <1>1, <1>4, ProcessFacts DEF Fits, SupervisorGoal
  <2> QED BY <1>4, <2>1, <2>2
<1>5. CASE goal[p] = "clear"
  BY <1>5 DEF Wants
<1>6. CASE goal[p] \in {"deferClear", "defer"}
  <2>1. seen[p].marker
    BY <1>6 DEF Wants
  <2> QED BY <2>1, <1>2
<1> QED BY <1>1, <1>3, <1>4, <1>5, <1>6 DEF Reading

LEMMA Release_Decide ==
    ASSUME IInv, RInv, NEW p \in Process, Decide(p) PROVE RInv'
<1>1. /\ stage[p] = "deciding" /\ lock' = lock /\ released' = released /\ missed' = missed /\ robbed' = robbed
      /\ goal[p] \in Reading /\ seen[p] \in View
  BY ProcessTyped DEF Decide, files, history
<1>2. Owned /\ goal[p] = "release" => seen[p].nonce = Nonce(p)
  <2>1. goal[p] = "release" => p = C(Nonce(p)) /\ Nonce(p) \in Client
    BY ProcessTyped, ProcessFacts DEF Fits, SupervisorGoal
  <2> QED BY <2>1, <1>1 DEF Owned, Releases
<1>3. CASE Wants(p) = "ready" /\ Turn(p, Otherwise(p))
  <2>1. Owned => goal[p] # "release"
    BY <1>2, <1>3 DEF Wants
  <2> QED BY <1>1, <1>3, <2>1, ReleaseOtherwise
<1>4. CASE Wants(p) # "ready" /\ Step(p, Wants(p)) /\ UNCHANGED <<seen, claim>>
  <2>1. PICK s \in {"claiming", "writing"} : s = Wants(p)
    BY <1>1, <1>4, WantsFits
  <2>2. PICK v \in View : v = seen[p]
    BY <1>1
  <2>3. s \in Stage /\ s \notin InHand /\ Step(p, s) /\ claim' = claim
    BY <1>4, <2>1 DEF Stage, InHand
  <2>4. seen' = [seen EXCEPT ![p] = v]
    BY <1>4, <2>2 DEF IInv, Processes
  <2>5. Speaks(p, goal[p], s, v)
    BY <1>1, <2>1, <2>2, WantsSpoken DEF Speaks, RInv, Spoken
  <2>6. Owned => Releases(p, goal[p], s, v)
    BY <1>2, <2>1, <2>2 DEF Releases
  <2> QED BY <1>1, <2>3, <2>4, <2>5, <2>6, ReleaseViews
<1> QED BY <1>3, <1>4 DEF Decide

LEMMA ReleaseFails ==
    ASSUME IInv, RInv, NEW p \in Process, goal[p] \in Updating, Fails(p),
           lock' = lock, released' = released, missed' = missed, robbed' = robbed
    PROVE  RInv'
<1>1. Fits(p, goal[p])
  BY ProcessTyped
<1>2. PICK g \in {"release", "exited", "run"} :
        /\ Turn(p, g)
        /\ g = "release" => IsClient(p) /\ goal[p] \in {"prepare", "drop"}
        /\ g # "release" => ~IsClient(p)
  <2>1. CASE goal[p] = "prepare"
    BY <1>1, <2>1 DEF Fails, Fits, SupervisorGoal
  <2>2. CASE goal[p] = "claim"
    BY <1>1, <2>2 DEF Fails, Fits, ClientGoal
  <2>3. CASE goal[p] = "track"
    BY <1>1, <2>3 DEF Fails, Fits, ClientGoal
  <2>4. CASE goal[p] = "drop"
    BY <2>4 DEF Fails
  <2> QED BY <2>1, <2>2, <2>3, <2>4 DEF Updating
<1>3. g \in Goal /\ Follows(p, g) /\ Ends(p, g)
  BY <1>2 DEF Goal, Follows, Ends, Owning, Finished, Forking
<1> QED BY <1>2, <1>3, ReleaseTurns

LEMMA Release_ReadRaw ==
    ASSUME IInv, RInv, NEW p \in Process, ReadRaw(p) PROVE RInv'
<1>1. /\ goal[p] \in Updating
      /\ lock' = lock /\ released' = released /\ missed' = missed /\ robbed' = robbed
  BY DEF ReadRaw, Updates, Updating, files, history
<1>2. CASE Fails(p)
  BY <1>1, <1>2, ReleaseFails
<1>3. CASE /\ HasRecord /\ lock.record.nonce = Nonce(p) /\ Step(p, "replacing") /\ UNCHANGED <<claim, git>>
           /\ seen' = [seen EXCEPT ![p] = [nonce |-> Nonce(p), pending |-> Pending(p, lock.record.pending),
                                           marker |-> FALSE, child |-> FALSE]]
  <2>1. lock.record \in Record /\ Nonce(p) \in Client
    BY <1>3, ProcessFacts DEF IInv, Rest, HasRecord, Directory
  <2>2. Pending(p, lock.record.pending) \in {"none", "unclaimed", "claimed"}
    <3>1. lock.record.pending \in {"none", "unclaimed", "claimed"}
      BY <2>1 DEF Record
    <3> QED BY <1>1, <3>1 DEF Pending, Updating
  <2>3. PICK v \in View : v = [nonce |-> Nonce(p), pending |-> Pending(p, lock.record.pending),
                               marker |-> FALSE, child |-> FALSE]
    BY <2>1, <2>2 DEF View
  <2>4. /\ Speaks(p, goal[p], "replacing", v) /\ Releases(p, goal[p], "replacing", v)
        /\ "replacing" \in Stage \ InHand
    BY <2>3 DEF Speaks, Releases, Stage, InHand
  <2> QED BY <1>1, <1>3, <2>3, <2>4, ReleaseViews
<1> QED BY <1>2, <1>3 DEF ReadRaw

\* A companion file comes, or that of a child goes.
LEMMA ReleaseCompanion ==
    ASSUME IInv, RInv, NEW p \in Process, NEW g \in Goal, Turn(p, g), Follows(p, g),
           NEW m \in SUBSET Client, NEW k \in SUBSET Client,
           lock' = IF lock # None THEN [lock EXCEPT !.marker = m, !.child = k] ELSE lock,
           lock # None => /\ lock.marker \subseteq m
                          /\ \A c \in m : c \in lock.marker \/ (p = C(c) /\ g \in Finished),
           released' = released, missed' = missed, robbed' = robbed,
           IsClient(p) => /\ g \in Owning => goal[p] \in Owning
                          /\ g = "done" /\ lock # None => Nonce(p) \in m
    PROVE  RInv'
<1>1. One(p, g, "ready", None, None) /\ "ready" \in Stage
  BY DEF One, Turn, Stage
<1>2. Speaks(p, g, "ready", None) /\ Releases(p, g, "ready", None) /\ "ready" \notin InHand
  BY DEF Speaks, Releases, InHand
<1>3. CASE lock = None
  <2>1. lock' = lock
    BY <1>3
  <2>2. Ends(p, g)
    BY <1>3 DEF Ends, Holds
  <2> QED BY <2>1, <2>2, ReleaseTurns
<1>4. CASE lock # None
  <2>1. lock \in Directory /\ released \subseteq Client
    BY <1>4 DEF IInv, Rest
  <2>2. lock' \in Directory /\ lock'.holder = lock.holder /\ lock'.record = lock.record /\ lock'.marker = m
    BY <2>1, <1>4 DEF Directory
  <2>3. lock' # None
    BY <2>2, NoneAssumption
  <2>4. \A c \in lock'.marker :
          c \in Client /\ ((p = C(c) /\ g \in Finished) \/ (lock # None /\ c \in lock.marker))
    BY <1>4, <2>2
  <2>5. lock'.record # None => Writes(p, g, lock'.record)
    BY <1>4, <2>1, <2>2 DEF Directory, RInv, Unpending, Writes
  <2>6. Keeps(p, g)
    BY <1>4, <2>2, <2>3, ProcessFacts DEF Keeps, Holds
  <2> QED BY <1>1, <1>2, <2>1, <2>4, <2>5, <2>6, ReleaseSteps
<1> QED BY <1>3, <1>4

LEMMA Release_ClearChild ==
    ASSUME IInv, RInv, NEW p \in Process, ClearChild(p) PROVE RInv'
<1>1. /\ goal[p] = "clear" /\ Turn(p, "deferClear")
      /\ released' = released /\ missed' = missed /\ robbed' = robbed
  BY DEF ClearChild, At, history
<1>2. ~IsClient(p)
  BY <1>1, ProcessTyped DEF Fits, ClientGoal
<1>3. "deferClear" \in Goal /\ Follows(p, "deferClear")
  BY <1>2 DEF Goal, Follows
<1>4. PICK m \in SUBSET Client, k \in SUBSET Client :
        /\ lock' = IF lock # None THEN [lock EXCEPT !.marker = m, !.child = k] ELSE lock
        /\ lock # None => m = lock.marker
  <2>1. CASE lock = None
    BY <2>1 DEF ClearChild
  <2>2. CASE lock # None
    <3>1. lock \in Directory
      BY <2>2 DEF IInv, Rest
    <3>2. PICK m \in SUBSET Client, k \in SUBSET Client : m = lock.marker /\ k = lock.child \ {Nonce(p)}
      BY <3>1 DEF Directory
    <3>3. lock' = [lock EXCEPT !.marker = m, !.child = k]
      BY <2>2, <3>1, <3>2 DEF ClearChild, Directory
    <3> QED BY <2>2, <3>2, <3>3
  <2> QED BY <2>1, <2>2
<1> QED BY <1>1, <1>2, <1>3, <1>4, ReleaseCompanion

\* The marker goes into the client's own directory.
LEMMA Release_MarkRelease ==
    ASSUME IInv, RInv, NEW p \in Process, MarkRelease(p) PROVE RInv'
<1>1. /\ goal[p] = "release" /\ Turn(p, "done") /\ released' = released /\ missed' = missed /\ robbed' = robbed
  BY DEF MarkRelease, At, history
<1>2. p = C(Nonce(p)) /\ Nonce(p) \in Client
  BY <1>1, ProcessTyped, ProcessFacts DEF Fits, SupervisorGoal
<1>3. "done" \in Goal /\ Follows(p, "done") /\ "done" \in Finished /\ "done" \notin Owning
  BY <1>1 DEF Goal, Follows, Finished, Forking, Owning
<1>4. PICK m \in SUBSET Client, k \in SUBSET Client :
        /\ lock' = IF lock # None THEN [lock EXCEPT !.marker = m, !.child = k] ELSE lock
        /\ lock # None => m = lock.marker \cup {Nonce(p)}
  <2>1. CASE lock = None
    BY <2>1 DEF MarkRelease
  <2>2. CASE lock # None
    <3>1. lock \in Directory
      BY <2>2 DEF IInv, Rest
    <3>2. PICK m \in SUBSET Client, k \in SUBSET Client : m = lock.marker \cup {Nonce(p)} /\ k = lock.child
      BY <3>1, <1>2 DEF Directory
    <3>3. lock' = [lock EXCEPT !.marker = m, !.child = k]
      BY <2>2, <3>1, <3>2 DEF MarkRelease, Directory
    <3> QED BY <2>2, <3>2, <3>3
  <2> QED BY <2>1, <2>2
<1> QED BY <1>1, <1>2, <1>3, <1>4, ReleaseCompanion

LEMMA Release_TrackGit ==
    ASSUME IInv, RInv, NEW p \in Process, TrackGit(p) PROVE RInv'
<1>1. /\ goal[p] = "track" /\ goal[p] \in Updating
      /\ released' = released /\ missed' = missed /\ robbed' = robbed
  BY DEF TrackGit, At, Updating, history
<1>2. ~IsClient(p) /\ Nonce(p) \in Client
  BY <1>1, ProcessTyped, ProcessFacts DEF Fits, ClientGoal
<1>3. CASE lock = None /\ Fails(p) /\ UNCHANGED lock
  BY <1>1, <1>3, ReleaseFails
<1>4. CASE /\ lock # None /\ lock' = [lock EXCEPT !.child = @ \cup {Nonce(p)}]
           /\ \E g \in {"clear", "exited", "run"} : Turn(p, g)
  <2>1. lock \in Directory
    BY <1>4 DEF IInv, Rest
  <2>2. PICK m \in SUBSET Client, k \in SUBSET Client : m = lock.marker /\ k = lock.child \cup {Nonce(p)}
    BY <2>1, <1>2 DEF Directory
  <2>3. lock' = IF lock # None THEN [lock EXCEPT !.marker = m, !.child = k] ELSE lock
    BY <1>4, <2>1, <2>2 DEF Directory
  <2>4. PICK g \in {"clear", "exited", "run"} : Turn(p, g)
    BY <1>4
  <2>5. g \in Goal /\ Follows(p, g)
    BY <1>2 DEF Goal, Follows
  <2> QED BY <1>1, <1>2, <2>2, <2>3, <2>4, <2>5, ReleaseCompanion
<1>5. \/ lock = None /\ Fails(p) /\ UNCHANGED lock
      \/ /\ lock # None /\ lock' = [lock EXCEPT !.child = @ \cup {Nonce(p)}]
         /\ \E g \in {"clear", "exited", "run"} : Turn(p, g)
  BY DEF TrackGit
<1> QED BY <1>3, <1>4, <1>5

\* The record is rewritten by the client that forks or dropped, or by its supervisor.
LEMMA Release_Replace ==
    ASSUME IInv, RInv, NEW p \in Process, Replace(p) PROVE RInv'
<1>1. /\ stage[p] = "replacing" /\ goal[p] \in Updating /\ seen[p] \in View /\ seen[p].nonce = Nonce(p)
      /\ released' = released /\ missed' = missed /\ Fits(p, goal[p])
  BY ProcessTyped DEF Replace
<1>2. Nonce(p) \in Client /\ p = IF IsClient(p) THEN C(Nonce(p)) ELSE S(Nonce(p))
  BY ProcessFacts
<1>3. CASE lock = None /\ Fails(p) /\ UNCHANGED <<lock, robbed>>
  BY <1>1, <1>3, ReleaseFails
<1>4. CASE /\ lock # None
           /\ lock' = [lock EXCEPT !.record = [nonce |-> seen[p].nonce, pending |-> seen[p].pending]]
           /\ robbed => robbed'
           /\ CASE goal[p] = "prepare" -> Turn(p, "fork")
                [] goal[p] = "claim" -> Turn(p, "drop") \/ Turn(p, "track")
                [] goal[p] = "track" -> Step(p, "writing") /\ UNCHANGED <<seen, claim>>
                [] goal[p] = "drop" -> Turn(p, "defer")
  <2>1. lock \in Directory /\ released \subseteq Client
    BY <1>4 DEF IInv, Rest
  <2>2. PICK r \in Record : r = [nonce |-> seen[p].nonce, pending |-> seen[p].pending]
    BY <1>1 DEF View, Record
  <2>3. /\ lock' \in Directory /\ lock'.holder = lock.holder /\ lock'.record = r /\ lock'.marker = lock.marker
        /\ r.nonce = Nonce(p)
    BY <1>1, <1>4, <2>1, <2>2 DEF Directory
  <2>4. lock' # None
    BY <2>3, NoneAssumption
  <2>5. ASSUME NEW g \in Goal, NEW s \in Stage, NEW v, NEW k, One(p, g, s, v, k), Follows(p, g),
               s \in {"ready", "writing"}, s = "writing" => v = seen[p] /\ g = goal[p],
               g # "release", Owned => Ends(p, g), g = "fork" \/ goal[S(Nonce(p))] # "none"
        PROVE  RInv'
    <3>1. s \notin InHand /\ Releases(p, g, s, v)
      BY <2>5 DEF InHand, Releases
    <3>2. Speaks(p, g, s, v) /\ (s # "ready" => v \in View)
      BY <2>5, <1>1 DEF Speaks, RInv, Spoken
    <3>3. Writes(p, g, r)
      BY <2>3, <2>5 DEF Writes
    <3>4. Owned => Keeps(p, g)
      BY <1>4, <2>3, <2>4, <2>5, ProcessFacts DEF Keeps, Holds, Ends
    <3>5. \A c \in lock'.marker :
            c \in Client /\ ((p = C(c) /\ g \in Finished) \/ (lock # None /\ c \in lock.marker))
      BY <1>4, <2>1, <2>3 DEF Directory
    <3>6. \A c \in released' : c \in Client /\ c \in released
      BY <1>1, <2>1
    <3> QED BY <1>1, <1>4, <2>3, <2>5, <3>1, <3>2, <3>3, <3>4, <3>5, <3>6, ReleaseSteps
  <2>6. ASSUME NEW g \in Goal, Turn(p, g), Follows(p, g), g # "release", Ends(p, g),
               g = "fork" \/ goal[S(Nonce(p))] # "none"
        PROVE  RInv'
    <3>1. One(p, g, "ready", None, None) /\ "ready" \in Stage
      BY <2>6 DEF One, Turn, Stage
    <3> QED BY <2>6, <3>1, <2>5
  <2>7. ~IsClient(p) /\ goal[p] # "none" => goal[S(Nonce(p))] # "none"
    BY <1>2
  <2>8. CASE goal[p] = "prepare"
    <3>1. Turn(p, "fork")
      BY <1>4, <2>8
    <3>2. "fork" \in Goal /\ Follows(p, "fork") /\ Ends(p, "fork")
      BY <2>8 DEF Goal, Follows, Ends, Owning, Finished, Forking
    <3> QED BY <3>1, <3>2, <2>6
  <2>9. CASE goal[p] = "claim"
    <3>1. ~IsClient(p)
      BY <1>1, <2>9 DEF Fits, ClientGoal
    <3>2. PICK g \in {"drop", "track"} : Turn(p, g)
      BY <1>4, <2>9
    <3>3. g \in Goal /\ Follows(p, g) /\ Ends(p, g)
      BY <3>1 DEF Goal, Follows, Ends
    <3> QED BY <3>1, <3>2, <3>3, <2>6, <2>7, <2>9
  <2>10. CASE goal[p] = "track"
    <3>1. ~IsClient(p)
      BY <1>1, <2>10 DEF Fits, ClientGoal
    <3>2. Step(p, "writing") /\ UNCHANGED <<seen, claim>>
      BY <1>4, <2>10
    <3>3. One(p, "track", "writing", seen[p], claim[p]) /\ "writing" \in Stage /\ "track" \in Goal
      BY <2>10, <3>2 DEF One, Step, Stage, Goal, IInv, Processes
    <3>4. Follows(p, "track") /\ Ends(p, "track")
      BY <3>1 DEF Follows, Ends
    <3> QED BY <3>1, <3>3, <3>4, <2>5, <2>7, <2>10
  <2>11. CASE goal[p] = "drop"
    <3>1. Turn(p, "defer")
      BY <1>4, <2>11
    <3>2. "defer" \in Goal /\ Follows(p, "defer") /\ Ends(p, "defer")
      BY <2>11 DEF Goal, Follows, Ends, Owning, Finished, Forking
    <3>3. goal[S(Nonce(p))] # "none"
      BY <1>2, <2>7, <2>11 DEF RInv, Forked, Forking
    <3> QED BY <3>1, <3>2, <3>3, <2>6
  <2> QED BY <1>1, <2>8, <2>9, <2>10, <2>11 DEF Updating
<1>5. CASE /\ lock # None
           /\ lock' = [lock EXCEPT !.record = [nonce |-> seen[p].nonce, pending |-> seen[p].pending]]
           /\ CASE goal[p] = "prepare" -> Turn(p, "fork") /\ UNCHANGED <<git, reported>>
                [] goal[p] = "claim" -> StartGit(p)
                [] goal[p] = "track" -> Step(p, "writing") /\ UNCHANGED <<seen, claim, git, reported>>
                [] goal[p] = "drop" -> Turn(p, "defer") /\ UNCHANGED <<git, reported>>
           /\ robbed' = (robbed \/ lock.record = None \/ lock.record.nonce # Nonce(p))
  <2>1. StartGit(p) => Turn(p, "drop") \/ Turn(p, "track")
    BY DEF StartGit
  <2> QED BY <1>1, <1>4, <1>5, <2>1 DEF Updating
<1> QED BY <1>3, <1>5 DEF Replace

\* Who releases claims its own record.
LEMMA Release_ClaimRecord ==
    ASSUME IInv, RInv, NEW p \in Process, ClaimRecord(p) PROVE RInv'
<1>1. /\ stage[p] = "claiming" /\ goal[p] \in Reading /\ seen[p] \in View /\ released' = released
  BY ProcessTyped DEF ClaimRecord
<1>2. CASE ~HasRecord /\ NotFound(p) /\ UNCHANGED <<lock, robbed>>
  <2>1. missed \subseteq missed' /\ (goal[p] = "release" => Nonce(p) \in missed')
    BY <1>2 DEF NotFound
  <2> QED BY <1>1, <1>2, <2>1, ReleaseOtherwise DEF NotFound
<1>3. CASE /\ HasRecord
           /\ claim' = [claim EXCEPT ![p] = [holder |-> lock.holder, record |-> lock.record]]
           /\ lock' = [lock EXCEPT !.record = None]
           /\ Step(p, IF ClaimsRead(p) THEN "moving" ELSE "restoring")
           /\ robbed' = IF ClaimsRead(p) THEN Robbed ELSE robbed
           /\ UNCHANGED <<seen, missed>>
  <2>1. lock \in Directory /\ lock.record \in Record /\ lock # None /\ lock.record # None /\ released \subseteq Client
    BY <1>3 DEF HasRecord, IInv, Rest, Directory
  <2>2. PICK k : k = [holder |-> lock.holder, record |-> lock.record]
    OBVIOUS
  <2>3. k.record \in Record /\ Unstarted(k.record)
    BY <2>1, <2>2 DEF RInv, Unpending
  <2>4. PICK s \in {"moving", "restoring"} : s = IF ClaimsRead(p) THEN "moving" ELSE "restoring"
    OBVIOUS
  <2>5. /\ lock' \in Directory /\ lock'.holder = lock.holder /\ lock'.record = None
        /\ lock'.marker = lock.marker
    BY <2>1, <1>3 DEF Directory
  <2>6. lock' # None
    BY <2>5, NoneAssumption
  <2>7. robbed => robbed'
    BY <1>3 DEF Robbed
  <2>8. PICK g \in Goal, v \in View : g = goal[p] /\ v = seen[p]
    BY <1>1, ProcessTyped
  <2>9. One(p, g, s, v, k) /\ s \in Stage
    BY <1>3, <2>2, <2>4, <2>8 DEF One, Step, Stage, IInv, Processes
  <2>10. Speaks(p, g, s, v)
    BY <1>1, <2>4, <2>8 DEF Speaks, RInv, Spoken
  <2>11. ASSUME Held, Owned PROVE Keeps(p, g) /\ Releases(p, g, s, v)
    <3>1. Keeps(p, g)
      BY <1>1, <2>1, <2>5, <2>6, <2>8 DEF Keeps, Holds, Reading
    <3>2. Releases(p, g, s, v)
      <4> SUFFICES ASSUME g = "release" PROVE s # "restoring" /\ v.nonce = Nonce(p)
        BY DEF Releases
      <4>1. lock.record.nonce = Nonce(p)
        BY <2>8, <2>11, <1>3, OwnRecord
      <4>2. p = C(Nonce(p)) /\ Nonce(p) \in Client
        BY <2>8, ProcessTyped, ProcessFacts DEF Fits, SupervisorGoal
      <4>3. seen[p].nonce = Nonce(p)
        BY <4>2, <1>1, <2>8, <2>11 DEF Owned, Releases
      <4> QED BY <4>1, <4>3, <2>4, <2>8 DEF ClaimsRead
    <3> QED BY <3>1, <3>2
  <2>12. Follows(p, g)
    BY <2>8 DEF Follows
  <2>13. \A c \in lock'.marker : c \in Client /\ lock # None /\ c \in lock.marker
    BY <2>1, <2>5 DEF Directory
  <2>14. \A c \in released' : c \in Client /\ c \in released
    BY <1>1, <2>1
  <2>15. missed \subseteq missed'
    BY <1>3
  <2> QED BY <2>3, <2>5, <2>7, <2>9, <2>10, <2>11, <2>12, <2>13, <2>14, <2>15, ReleaseSteps
<1> QED BY <1>2, <1>3 DEF ClaimRecord

\* Whose directory is taken is finished, or has just come to the end of its release.
LEMMA Release_MoveDirectory ==
    ASSUME IInv, RInv, NEW p \in Process, MoveDirectory(p) PROVE RInv'
<1> DEFINE n == seen[p].nonce
<1>1. /\ stage[p] = "moving" /\ stage[p] \in InHand /\ goal[p] \in Reading /\ seen[p] \in View
      /\ claim[p] \in Claim /\ claim[p].record.nonce = n /\ missed' = missed
  BY ProcessTyped DEF MoveDirectory, InHand
<1>2. n \in Client /\ C(n) \in Process /\ IsClient(C(n)) /\ Nonce(C(n)) = n
  BY <1>1, ProcessFacts DEF View
<1>3. goal[C(n)] \in Finished \/ (p = C(n) /\ goal[p] = "release")
  BY <1>1 DEF RInv, Spoken, Speaks
<1>4. released \subseteq Client
  BY DEF IInv, Rest
<1>5. PICK g \in Goal : /\ g = Otherwise(p) /\ Follows(p, g)
                        /\ IsClient(p) /\ g \in Owning => goal[p] = "defer"
                        /\ goal[p] = "release" => g = "done"
  BY <1>1, OtherwiseFollows DEF Otherwise
<1>6. CASE /\ lock # None /\ lock' = None /\ robbed' = Robbed /\ Turn(p, Otherwise(p))
           /\ released' \subseteq released \cup (IF goal[p] = "acquire" THEN {} ELSE {n})
  <2>1. One(p, g, "ready", None, None) /\ "ready" \in Stage
    BY <1>5, <1>6 DEF One, Turn, Stage
  <2>2. Speaks(p, g, "ready", None) /\ Releases(p, g, "ready", None) /\ "ready" \notin InHand
    BY DEF Speaks, Releases, InHand
  <2>3. robbed => robbed'
    BY <1>6 DEF Robbed
  <2>4. \A c \in released' : c \in Client /\ (c \in released \/ goal[C(c)] \in Finished \/ (p = C(c) /\ g \in Finished))
    BY <1>2, <1>3, <1>4, <1>5, <1>6 DEF Finished
  <2>5. ASSUME Held, Owned PROVE Keeps(p, g)
    <3>1. lock.holder = n
      BY <1>1, <2>5 DEF Held, HasIt
    <3>2. ASSUME NEW c \in Client, Holds(c), goal[C(c)] \in Owning, p = C(c) => g \in Owning PROVE FALSE
      <4>1. c = n
        BY <3>1, <3>2 DEF Holds
      <4>2. p = C(n) /\ goal[p] = "release"
        BY <1>3, <3>2, <4>1 DEF Finished, Owning
      <4> QED BY <4>1, <4>2, <1>5, <3>2 DEF Owning
    <3>3. \A c \in Client : ~Holds(c)'
      BY <1>6 DEF Holds
    <3>4. IsClient(p) /\ g \in Owning => goal[p] \in Owning
      BY <1>5 DEF Owning
    <3> QED BY <3>2, <3>3, <3>4, ProcessFacts DEF Keeps
  <2> QED BY <1>1, <1>5, <1>6, <2>1, <2>2, <2>3, <2>4, <2>5, ReleaseSteps
<1>7. CASE lock = None /\ Turn(p, Otherwise(p)) /\ UNCHANGED <<files, robbed>>
  <2>1. lock' = lock /\ released' = released /\ ~Holds(Nonce(p))
    BY <1>7 DEF files, Holds
  <2> QED BY <1>1, <1>7, <2>1, ReleaseOtherwise
<1>8. CASE /\ Step(p, "restoring") /\ UNCHANGED <<seen, claim>> /\ UNCHANGED <<files, robbed>>
           /\ n \in (IF goal[p] = "acquire" THEN stale ELSE released)
  <2>1. PICK h \in Goal : h = goal[p]
    BY <1>1, ProcessTyped
  <2>2. One(p, h, "restoring", seen[p], claim[p]) /\ "restoring" \in Stage
    BY <1>8, <2>1 DEF One, Step, Stage, IInv, Processes
  <2>3. Speaks(p, h, "restoring", seen[p]) /\ Follows(p, h)
    BY <1>1, <2>1 DEF Speaks, RInv, Spoken, Follows
  <2>4. ASSUME Owned PROVE Ends(p, h) /\ Releases(p, h, "restoring", seen[p])
    <3>1. Ends(p, h)
      BY <1>1, <2>1 DEF Ends, Reading
    <3>2. h # "release"
      <4> SUFFICES ASSUME h = "release" PROVE FALSE
        OBVIOUS
      <4>1. p = C(Nonce(p)) /\ Nonce(p) \in Client
        BY <2>1, ProcessTyped, ProcessFacts DEF Fits, SupervisorGoal
      <4>2. n = Nonce(p)
        BY <4>1, <1>1, <2>1, <2>4 DEF Owned, Releases
      <4>3. goal[C(n)] \in Finished
        BY <1>8, <2>1 DEF RInv, Spoken
      <4> QED BY <4>1, <4>2, <4>3, <2>1 DEF Finished
    <3> QED BY <3>1, <3>2 DEF Releases
  <2>5. lock' = lock /\ released' = released /\ robbed' = robbed
    BY <1>8 DEF files
  <2> QED BY <1>1, <2>2, <2>3, <2>4, <2>5, ReleaseQuiet
<1>9. \/ /\ lock # None /\ lock' = None /\ robbed' = Robbed /\ Turn(p, Otherwise(p))
         /\ released' \subseteq released \cup (IF goal[p] = "acquire" THEN {} ELSE {n})
      \/ lock = None /\ Turn(p, Otherwise(p)) /\ UNCHANGED <<files, robbed>>
      \/ /\ Step(p, "restoring") /\ UNCHANGED <<seen, claim>> /\ UNCHANGED <<files, robbed>>
         /\ n \in (IF goal[p] = "acquire" THEN stale ELSE released)
  BY DEF MoveDirectory
<1> HIDE DEF n
<1> QED BY <1>6, <1>7, <1>8, <1>9

\* Nobody gives a record back on the way to its own release.
LEMMA Release_Restore ==
    ASSUME IInv, RInv, NEW p \in Process, Restore(p) PROVE RInv'
<1>1. /\ stage[p] = "restoring" /\ stage[p] \in InHand /\ goal[p] \in Reading /\ claim[p] \in Claim
      /\ released' = released /\ missed' = missed /\ robbed' = robbed /\ Turn(p, Otherwise(p))
      /\ lock' = IF lock # None /\ lock.holder = claim[p].holder
                 THEN [lock EXCEPT !.record = claim[p].record] ELSE lock
  BY ProcessTyped DEF Restore, history, InHand
<1>2. Owned => goal[p] # "release"
  <2> SUFFICES ASSUME Owned, goal[p] = "release" PROVE FALSE
    OBVIOUS
  <2>1. p = C(Nonce(p)) /\ Nonce(p) \in Client
    BY ProcessTyped, ProcessFacts DEF Fits, SupervisorGoal
  <2> QED BY <2>1, <1>1 DEF Owned, Releases
<1>3. CASE lock' = lock
  BY <1>1, <1>2, <1>3, ReleaseOtherwise
<1>4. CASE lock # None /\ lock' = [lock EXCEPT !.record = claim[p].record]
  <2>1. lock \in Directory /\ released \subseteq Client /\ claim[p].record \in Record
    BY <1>1, <1>4 DEF IInv, Rest, Claim
  <2>2. /\ lock' \in Directory /\ lock'.holder = lock.holder /\ lock'.record = claim[p].record
        /\ lock'.marker = lock.marker
    BY <1>4, <2>1 DEF Directory
  <2>3. lock' # None
    BY <2>2, NoneAssumption
  <2>4. PICK g \in Goal : g = Otherwise(p) /\ Follows(p, g)
    BY <1>1, OtherwiseFollows
  <2>5. One(p, g, "ready", None, None) /\ "ready" \in Stage
    BY <1>1, <2>4 DEF One, Turn, Stage
  <2>6. Speaks(p, g, "ready", None) /\ Releases(p, g, "ready", None) /\ "ready" \notin InHand
    BY DEF Speaks, Releases, InHand
  <2>7. Writes(p, g, lock'.record)
    BY <1>1, <2>1, <2>2 DEF Writes, RInv, Unpending
  <2>8. ASSUME Owned PROVE Keeps(p, g)
    <3>1. IsClient(p) => g # "done" /\ (g \in Owning => goal[p] \in Owning)
      BY <1>1, <1>2, <2>4, <2>8, OtherwiseFollows DEF Finished, Owning
    <3> QED BY <3>1, <1>4, <2>2, <2>3 DEF Keeps, Holds
  <2>9. \A c \in lock'.marker : c \in Client /\ lock # None /\ c \in lock.marker
    BY <1>4, <2>1, <2>2 DEF Directory
  <2> QED BY <1>1, <2>1, <2>4, <2>5, <2>6, <2>7, <2>8, <2>9, ReleaseSteps
<1> QED BY <1>1, <1>3, <1>4

LEMMA Release_Acquire ==
    ASSUME IInv, RInv, NEW c \in Client, Acquire(c) PROVE RInv'
<1> DEFINE r == [nonce |-> c, pending |-> "none"]
<1>1. /\ goal[C(c)] = "acquire" /\ lock = None /\ Turn(C(c), "hold")
      /\ lock' = [holder |-> c, record |-> r, marker |-> {}, child |-> {}]
      /\ released' = released /\ missed' = missed /\ robbed' = robbed
  BY DEF Acquire, At, history
<1>2. C(c) \in Process /\ Nonce(C(c)) = c /\ IsClient(C(c))
  BY ProcessFacts
<1>3. /\ lock' \in Directory /\ r \in Record /\ r.pending = "none"
      /\ lock'.holder = c /\ lock'.record = r /\ lock'.marker = {}
  BY <1>1 DEF Directory, Record
<1> HIDE DEF r
<1>4. lock' # None /\ released \subseteq Client
  BY <1>3, NoneAssumption DEF IInv, Rest
<1>5. One(C(c), "hold", "ready", None, None) /\ "hold" \in Goal /\ "ready" \in Stage \ InHand
  BY <1>1 DEF Turn, One, Goal, Stage, InHand
<1>6. /\ Follows(C(c), "hold") /\ Speaks(C(c), "hold", "ready", None)
      /\ Releases(C(c), "hold", "ready", None)
  BY <1>1 DEF Follows, Finished, Forking, Speaks, Releases
<1>7. Writes(C(c), "hold", lock'.record)
  BY <1>3 DEF Writes, Unstarted
<1>8. Keeps(C(c), "hold")
  <2>1. ASSUME NEW d \in Client, Holds(d)' PROVE d = c
    BY <1>3, <2>1 DEF Holds
  <2>2. Holds(c)'
    BY <1>3, <1>4 DEF Holds
  <2>3. \A d \in Client : ~Holds(d)
    BY <1>1 DEF Holds
  <2> QED BY <1>2, <2>1, <2>2, <2>3 DEF Keeps
<1>9. \A d \in lock'.marker : FALSE
  BY <1>3
<1>10. \A d \in released' : d \in Client /\ d \in released
  BY <1>1, <1>4
<1> QED BY <1>1, <1>2, <1>5, <1>6, <1>7, <1>8, <1>9, <1>10, ReleaseSteps

LEMMA Release_Use ==
    ASSUME IInv, RInv, NEW c \in Client, Use(c) PROVE RInv'
<1>1. /\ goal[C(c)] = "hold" /\ lock' = lock /\ released' = released /\ missed' = missed /\ robbed' = robbed
  BY DEF Use, files, history
<1>2. PICK g \in {"release", "prepare"} : Turn(C(c), g)
  BY DEF Use
<1>3. C(c) \in Process /\ g \in Goal /\ Follows(C(c), g) /\ Ends(C(c), g)
  BY <1>1, ProcessFacts DEF Goal, Follows, Ends, Owning, Finished, Forking
<1> QED BY <1>1, <1>2, <1>3, ReleaseTurns

\* Only a client that has forked comes back from waiting.
LEMMA Release_Return ==
    ASSUME IInv, RInv, NEW c \in Client, Return(c) PROVE RInv'
<1>1. /\ goal[C(c)] = "wait" /\ lock' = lock /\ released' = released /\ missed' = missed /\ robbed' = robbed
  BY DEF Return, files, history
<1>2. PICK g \in {"release", "drop"} : Turn(C(c), g)
  BY DEF Return
<1>3. C(c) \in Process /\ g \in Goal /\ Follows(C(c), g) /\ Ends(C(c), g)
  BY <1>1, ProcessFacts DEF Goal, Follows, Ends, Owning, Finished, Forking
<1> QED BY <1>1, <1>2, <1>3, ReleaseTurns

LEMMA Release_NoticeClose ==
    ASSUME IInv, RInv, NEW c \in Client, NoticeClose(c) PROVE RInv'
<1>1. /\ Turn(S(c), "clear") /\ lock' = lock /\ released' = released /\ missed' = missed /\ robbed' = robbed
  BY DEF NoticeClose, files, history
<1>2. S(c) \in Process /\ "clear" \in Goal /\ Follows(S(c), "clear") /\ Ends(S(c), "clear")
  BY ProcessFacts DEF Goal, Follows, Ends
<1> QED BY <1>1, <1>2, ReleaseTurns

LEMMA Release_Die ==
    ASSUME IInv, RInv, NEW p \in Process, Die(p) PROVE RInv'
<1>1. /\ Turn(p, "dead") /\ lock' = lock /\ released' = released /\ missed' = missed /\ robbed' = robbed
  BY DEF Die, files
<1>2. "dead" \in Goal /\ Follows(p, "dead") /\ Ends(p, "dead")
  BY DEF Goal, Follows, Ends, Owning, Finished, Forking
<1> QED BY <1>1, <1>2, ReleaseTurns

\* The fork gives the client a supervisor, and takes nothing from it.
LEMMA Release_Fork ==
    ASSUME IInv, RInv, NEW c \in Client, Fork(c) PROVE RInv'
<1>1. /\ goal[C(c)] = "fork" /\ goal[S(c)] = "none" /\ stage[S(c)] = "ready"
      /\ goal' = [goal EXCEPT ![C(c)] = "wait", ![S(c)] = "claim"]
      /\ UNCHANGED <<lock, released, stage, seen, claim, missed, robbed>>
  BY DEF Fork, At, files, history
<1>2. C(c) \in Process /\ S(c) \in Process /\ C(c) # S(c) /\ IsClient(C(c)) /\ ~IsClient(S(c))
  BY ProcessFacts
<1>3. goal \in [Process -> Goal] /\ released \subseteq Client /\ (lock # None => lock \in Directory)
  BY DEF IInv, Processes, Rest
<1>4. /\ goal'[C(c)] = "wait" /\ goal'[S(c)] = "claim"
      /\ \A q \in Process \ {C(c), S(c)} : goal'[q] = goal[q]
  BY <1>1, <1>2, <1>3
<1>5. ASSUME NEW d \in Client
      PROVE  /\ d # c => goal'[C(d)] = goal[C(d)] /\ goal'[S(d)] = goal[S(d)]
             /\ goal[C(d)] \in Finished => goal'[C(d)] \in Finished
  <2>1. d # c => C(d) \in Process \ {C(c), S(c)} /\ S(d) \in Process \ {C(c), S(c)}
    BY ProcessFacts
  <2>2. goal[C(c)] \notin Finished
    BY <1>1 DEF Finished
  <2> QED BY <1>4, <2>1, <2>2
<1>6. ASSUME NEW q \in Process PROVE Speaks(q, goal[q], stage[q], seen[q]) /\
         (stage[q] # "ready" => seen[q].nonce \in Client) /\ (goal[q] = "release" => goal'[q] = "release")
  <2>1. Speaks(q, goal[q], stage[q], seen[q]) /\ (stage[q] # "ready" => seen[q].nonce \in Client)
    BY ProcessTyped DEF RInv, Spoken, View
  <2>2. goal[q] = "release" => q \in Process \ {C(c), S(c)}
    BY <1>1
  <2> QED BY <2>1, <2>2, <1>4
<1>7. Spoken'
  <2>1. lock # None => \A d \in lock.marker : goal'[C(d)] \in Finished
    BY <1>3, <1>5 DEF RInv, Spoken, Directory
  <2>2. \A d \in released : goal'[C(d)] \in Finished
    BY <1>3, <1>5 DEF RInv, Spoken
  <2>3. ASSUME NEW q \in Process
        PROVE  /\ stage[q] # "ready" /\ seen[q].marker => goal'[C(seen[q].nonce)] \in Finished
               /\ stage[q] \in {"claiming", "moving"} =>
                    goal'[C(seen[q].nonce)] \in Finished \/ (q = C(seen[q].nonce) /\ goal'[q] = "release")
    BY <1>5, <1>6 DEF Speaks
  <2> QED BY <2>1, <2>2, <2>3, <1>1 DEF Spoken, Speaks, C
<1>8. Forked'
  <2>1. ASSUME NEW d \in Client, goal'[S(d)] = "none" PROVE goal'[C(d)] \notin Forking
    BY <2>1, <1>4, <1>5 DEF RInv, Forked
  <2> QED BY <2>1 DEF Forked, C, S
<1>9. ASSUME NEW r \in Record, Unstarted(r) PROVE StaysUnstarted(r)
  BY <1>9, <1>4, <1>5 DEF Unstarted, StaysUnstarted, Record
<1>10. Unpending'
  <2>1. lock # None /\ lock.record # None => StaysUnstarted(lock.record)
    BY <1>3, <1>9 DEF RInv, Unpending, Directory
  <2>2. \A q \in Process : stage[q] \in InHand => StaysUnstarted(claim[q].record)
    BY <1>9, ProcessTyped DEF RInv, Unpending, Claim
  <2> QED BY <2>1, <2>2, <1>1 DEF Unpending, Unstarted, StaysUnstarted, C, S
<1>11. ASSUME Owned PROVE Owned'
  <2>1. ASSUME NEW d \in Client
        PROVE  /\ goal'[C(d)] \in Owning => Holds(d)
               /\ Releases(C(d), goal'[C(d)], stage[C(d)], seen[C(d)])
               /\ goal'[C(d)] = "done" /\ d \notin missed /\ Holds(d) => d \in lock.marker
    <3>1. CASE d = c
      BY <3>1, <1>1, <1>4, <1>11 DEF Owned, Owning, Releases
    <3>2. CASE d # c
      BY <3>2, <1>5, <1>11 DEF Owned
    <3> QED BY <3>1, <3>2
  <2> QED BY <2>1, <1>1 DEF Owned, Releases, Holds, C
<1> QED BY <1>1, <1>7, <1>8, <1>10, <1>11 DEF RInv

\* Git, the clock and idle steps change nothing that the invariant speaks of.
LEMMA ReleaseIdle ==
    ASSUME RInv, UNCHANGED <<lock, released, goal, stage, seen, claim, missed, robbed>>
    PROVE  RInv'
<1>1. Spoken'
  BY DEF RInv, Spoken, Speaks, C
<1>2. Forked'
  BY DEF RInv, Forked, C, S
<1>3. Unpending'
  BY DEF RInv, Unpending, Unstarted, C, S
<1>4. Owned => Owned'
  BY DEF Owned, Releases, Holds, C
<1> QED BY <1>1, <1>2, <1>3, <1>4 DEF RInv

LEMMA ReleaseInductive == IInv /\ RInv /\ [Next]_vars => RInv'
<1> SUFFICES ASSUME IInv, RInv, [Next]_vars PROVE RInv'
  OBVIOUS
<1>1. CASE UNCHANGED vars
  BY <1>1, ReleaseIdle DEF vars, files, history
<1>2. ASSUME NEW p \in Process,
             \/ ReadRecord(p) \/ ReadMarker(p) \/ ReadChild(p) \/ Decide(p)
             \/ ClaimRecord(p) \/ MoveDirectory(p) \/ Restore(p)
             \/ ReadRaw(p) \/ Replace(p) \/ TrackGit(p) \/ ClearChild(p) \/ MarkRelease(p) \/ Die(p)
      PROVE  RInv'
  <2>1. CASE ReadRecord(p) \/ ReadMarker(p) \/ ReadChild(p) \/ Decide(p)
    BY <2>1, Release_ReadRecord, Release_ReadMarker, Release_ReadChild, Release_Decide
  <2>2. CASE ClaimRecord(p) \/ MoveDirectory(p) \/ Restore(p)
    BY <2>2, Release_ClaimRecord, Release_MoveDirectory, Release_Restore
  <2>3. CASE ReadRaw(p) \/ Replace(p)
    BY <2>3, Release_ReadRaw, Release_Replace
  <2>4. CASE TrackGit(p) \/ ClearChild(p) \/ MarkRelease(p) \/ Die(p)
    BY <2>4, Release_TrackGit, Release_ClearChild, Release_MarkRelease, Release_Die
  <2> QED BY <1>2, <2>1, <2>2, <2>3, <2>4
<1>3. ASSUME NEW c \in Client,
             \/ Acquire(c) \/ Use(c) \/ Fork(c) \/ Return(c)
             \/ NoticeClose(c) \/ GitCloses(c) \/ NoticeLoss(c) \/ PassDeadline(c)
      PROVE  RInv'
  <2>1. CASE Acquire(c) \/ Use(c) \/ Fork(c) \/ Return(c)
    BY <2>1, Release_Acquire, Release_Use, Release_Fork, Release_Return
  <2>2. CASE NoticeClose(c)
    BY <2>2, Release_NoticeClose
  <2>3. CASE GitCloses(c) \/ NoticeLoss(c) \/ PassDeadline(c)
    BY <2>3, ReleaseIdle DEF GitCloses, NoticeLoss, PassDeadline, files, history
  <2> QED BY <1>3, <2>1, <2>2, <2>3
<1> QED BY <1>1, <1>2, <1>3 DEF Next

LEMMA ReleaseInitial == Init => RInv
<1> SUFFICES ASSUME Init PROVE RInv
  OBVIOUS
<1>1. \A p \in Process : stage[p] = "ready" /\ goal[p] = IF IsClient(p) THEN "acquire" ELSE "none"
  BY DEF Init
<1>2. lock = None /\ released = {}
  BY DEF Init
<1>3. \A c \in Client : goal[C(c)] = "acquire"
  BY <1>1, ProcessFacts
<1>4. Spoken
  BY <1>1, <1>2 DEF Spoken, Speaks
<1>5. Forked /\ Unpending
  BY <1>1, <1>2, <1>3 DEF Forked, Forking, Unpending, InHand
<1>6. Owned
  BY <1>3 DEF Owned, Owning, Releases
<1> QED BY <1>4, <1>5, <1>6 DEF RInv

\* releaseOwnedLease: a lease whose client has come to the end of its release without
\* missing its record never needs that client to die: it is gone, or stale for everyone
\* once its supervisor and its Git command have ended.
THEOREM ReleaseEffective == Spec => []ReleaseTakesEffect
<1>1. ASSUME IInv, RInv PROVE ReleaseTakesEffect
  <2> SUFFICES ASSUME ~robbed, NEW c \in Client \ missed, goal[C(c)] = "done",
                      ~SupervisorAlive(c), ~GitAlive(c), goal[S(c)] # "none" => c \in past,
                      HasRecord, lock.record.nonce = c
               PROVE  Stale(Contents)
    BY DEF ReleaseTakesEffect
  <2>1. Held /\ Owned
    BY <1>1 DEF IInv, RInv
  <2>2. Contents.nonce = c /\ Contents.pending = lock.record.pending /\ Contents.marker = (c \in lock.marker)
    BY DEF Contents
  <2>3. c \in lock.marker
    BY <2>1 DEF Owned, Held, Holds, HasRecord
  <2>4. c \notin past => lock.record.pending # "unclaimed"
    BY <1>1 DEF RInv, Unpending, Unstarted, HasRecord
  <2> QED BY <2>2, <2>3, <2>4 DEF Stale, LiveMutation
<1>2. IInv /\ RInv /\ [Next]_vars => (IInv /\ RInv)'
  BY Inductive, ReleaseInductive
<1>3. Init => IInv /\ RInv
  BY InitIInv, ReleaseInitial
<1> QED BY <1>1, <1>2, <1>3, PTL DEF Spec
=============================================================================
