------------------------------ MODULE FeedsProofs ------------------------------
(***************************************************************************)
(* What brings aircraft and their routes into the program, for every number *)
(* of flights, users, places and feeds: the samples of the routes           *)
(* (RouteObserver), the gate of routes (RouteGate), the polling of the      *)
(* regions (SharedPolling) and the rotation of the feeds                    *)
(* (ProviderRotation).  The assumptions of the instances are hypotheses     *)
(* here.                                                                    *)
(***************************************************************************)
EXTENDS RouteObserver, Integers, FiniteSets, FiniteSetTheorems, FunctionTheorems, SequenceTheorems,
        WellFoundedInduction, TLAPS

CONSTANTS
  MaxInflight, MaxConcurrent, FetchCycles, ResolvedTtl, ConflictTtl, NegativeTtl,
  Users, Homes, Delay, Priority, Restless, Slot, CycleLength, Hot, Discovery, HotHold, Continuity,
  Public, OpenSky, Aircraft, Confirmations, Threshold, MaxCooldown, MaxImpaired

VARIABLES
  cache, inflight, running, due, held,
  home, paused, snap, since, cycle, todo, spent, sighted, waited, excused, view,
  feed, sky, health, cursor, skyAsked, guard, poll, heard, streak

Gate == INSTANCE RouteGate
Polling == INSTANCE SharedPolling
Rotation == INSTANCE ProviderRotation

-----------------------------------------------------------------------------
(* The samples of the routes: the inductive invariant.                      *)

Sample == [flight : Flights, age : Nat]
ObserverTypes ==
  /\ queue \in Seq(Sample) /\ keys \subseteq Flights
  /\ work \in [Workers -> Flights \cup {Idle}] /\ alive \subseteq Workers

\* No two workers write one callsign, and a worker that has ended writes none.
OneWriter == \A v, w \in Workers : work[v] = work[w] /\ work[v] # Idle => v = w
DeadIsIdle == \A w \in Workers \ alive : work[w] = Idle

OnItsWay == ObserverTypes /\ OneWriter /\ DeadIsIdle /\ KeyIsOnItsWay

Waiting == {queue[i].flight : i \in DOMAIN queue}

-----------------------------------------------------------------------------
(* The steps.                                                               *)

LEMMA OnItsWayInit ==
    ASSUME Init
    PROVE  OnItsWay
<1>1. queue = <<>> /\ DOMAIN queue = {} /\ keys = {} /\ work = [w \in Workers |-> Idle]
      /\ alive = {}
  BY DEF Init
<1>2. Writing = {}
  BY <1>1 DEF Writing
<1>. QED
  BY <1>1, <1>2 DEF OnItsWay, ObserverTypes, OneWriter, DeadIsIdle, KeyIsOnItsWay

\* A sample is offered by a queue and workers that hold the callsigns known.
LEMMA Offered ==
    ASSUME queue \in Seq(Sample), NEW f \in Flights, NEW known \in SUBSET Flights, Offer(f, known),
           f \notin known, NEW W,
           known = Waiting \cup W, Waiting \cap W = {},
           \A i, j \in DOMAIN queue : queue[i].flight = queue[j].flight => i = j
    PROVE  /\ queue' \in Seq(Sample) /\ keys' \subseteq Flights
           /\ keys' = {queue'[i].flight : i \in DOMAIN (queue')} \cup W
           /\ \A i, j \in DOMAIN (queue') : queue'[i].flight = queue'[j].flight => i = j
           /\ \A i \in DOMAIN (queue') : queue'[i].flight \notin W
<1>1. CASE ~(Len(queue) < Limit)
  BY <1>1 DEF Offer, Waiting
<1>2. CASE Len(queue) < Limit
  <2>. DEFINE s == [flight |-> f, age |-> 0]
  <2>1. s \in Sample /\ s.flight = f
    BY DEF Sample
  <2>2. queue' = Append(queue, s) /\ keys' = known \cup {f}
    BY <1>2 DEF Offer
  <2>. HIDE DEF s
  <2>3. /\ queue' \in Seq(Sample) /\ Len(queue') = Len(queue) + 1 /\ Len(queue) \in Nat
        /\ DOMAIN queue = 1..Len(queue) /\ DOMAIN (queue') = 1..Len(queue')
        /\ \A i \in 1..Len(queue) : queue'[i] = queue[i]
        /\ queue'[Len(queue) + 1] = s
    BY <2>1, <2>2
  <2>4. \A i \in DOMAIN (queue') : i \in DOMAIN queue \/ i = Len(queue) + 1
    BY <2>3
  <2>5. \A i \in DOMAIN queue : i \in DOMAIN (queue') /\ queue'[i] = queue[i] /\ i # Len(queue) + 1
    BY <2>3
  <2>6. Len(queue) + 1 \in DOMAIN (queue') /\ queue'[Len(queue) + 1].flight = f
    BY <2>1, <2>3
  <2>7. {queue'[i].flight : i \in DOMAIN (queue')} = Waiting \cup {f}
    BY <2>4, <2>5, <2>6 DEF Waiting
  <2>8. \A i \in DOMAIN queue : queue[i].flight # f /\ queue[i].flight \notin W
    BY DEF Waiting
  <2>9. \A i, j \in DOMAIN (queue') : queue'[i].flight = queue'[j].flight => i = j
    BY <2>4, <2>5, <2>6, <2>8
  <2>10. \A i \in DOMAIN (queue') : queue'[i].flight \notin W
    BY <2>4, <2>5, <2>6, <2>8
  <2>. QED  BY <2>2, <2>3, <2>7, <2>9, <2>10
<1>. QED  BY <1>1, <1>2

LEMMA ObserveStep ==
    ASSUME OnItsWay, NEW f \in Flights, Observe(f)
    PROVE  OnItsWay'
<1>. USE DEF OnItsWay, ObserverTypes
<1>. DEFINE known == IF alive = Workers THEN keys ELSE keys \ Writing
            W == IF alive = Workers THEN Writing ELSE {}
<1>1. /\ alive' = Workers
      /\ work' = IF alive = Workers THEN work ELSE [w \in Workers |-> Idle]
      /\ IF f \in keys THEN queue' = queue /\ keys' = known ELSE Offer(f, known)
  BY DEF Observe
<1>2. Writing' = W
  BY <1>1 DEF Writing
<1>3. work' \in [Workers -> Flights \cup {Idle}] /\ OneWriter' /\ DeadIsIdle'
  BY <1>1 DEF OneWriter, DeadIsIdle
<1>4. /\ keys = Waiting \cup Writing /\ Waiting \cap Writing = {}
      /\ \A i, j \in DOMAIN queue : queue[i].flight = queue[j].flight => i = j
  BY DEF KeyIsOnItsWay, Waiting
<1>5. known \in SUBSET Flights /\ known = Waiting \cup W /\ Waiting \cap W = {}
  BY <1>4
<1>. HIDE DEF known, W
<1>6. /\ queue' \in Seq(Sample) /\ keys' \subseteq Flights
      /\ keys' = {queue'[i].flight : i \in DOMAIN (queue')} \cup W
      /\ \A i, j \in DOMAIN (queue') : queue'[i].flight = queue'[j].flight => i = j
      /\ \A i \in DOMAIN (queue') : queue'[i].flight \notin W
  <2>1. CASE f \in keys
    BY <1>1, <1>4, <1>5, <2>1 DEF Waiting
  <2>2. CASE f \notin keys
    <3>1. Offer(f, known) /\ f \notin known
      BY <1>1, <2>2 DEF known
    <3>. QED  BY <1>4, <1>5, <3>1, Offered
  <2>. QED  BY <2>1, <2>2
<1>7. KeyIsOnItsWay'
  BY <1>2, <1>6 DEF KeyIsOnItsWay
<1>. QED  BY <1>1, <1>3, <1>6, <1>7

LEMMA TakeStep ==
    ASSUME ObserverAssumption, OnItsWay, NEW w \in Workers, Take(w)
    PROVE  OnItsWay'
<1>. USE DEF OnItsWay, ObserverTypes
<1>. DEFINE first == Head(queue).flight
<1>1. /\ w \in alive /\ work[w] = Idle /\ queue # <<>> /\ queue' = Tail(queue) /\ alive' = alive
      /\ \/ work' = [work EXCEPT ![w] = first] /\ keys' = keys
         \/ work' = work /\ keys' = keys \ {first}
  BY DEF Take
<1>2. /\ Len(queue) \in Nat \ {0} /\ DOMAIN queue = 1..Len(queue)
      /\ Head(queue) = queue[1] /\ Head(queue) \in Sample
      /\ queue' \in Seq(Sample) /\ Len(queue') = Len(queue) - 1
      /\ DOMAIN (queue') = 1..Len(queue')
      /\ \A i \in DOMAIN (queue') : queue'[i] = queue[i + 1]
  BY <1>1
<1>3. first \in Flights /\ first = queue[1].flight /\ 1 \in DOMAIN queue
  BY <1>2 DEF Sample
<1>. HIDE DEF first
<1>4. \A i \in DOMAIN (queue') :
        i + 1 \in DOMAIN queue /\ i \in Nat /\ i + 1 # 1 /\ queue'[i] = queue[i + 1]
  BY <1>2
<1>5. \A i \in DOMAIN queue : i = 1 \/ \E j \in DOMAIN (queue') : i = j + 1
  <2>. SUFFICES ASSUME NEW i \in DOMAIN queue, i # 1
                PROVE  i - 1 \in DOMAIN (queue') /\ i = (i - 1) + 1
    OBVIOUS
  <2>. QED  BY <1>2
<1>6. \A i, j \in DOMAIN (queue') : queue'[i].flight = queue'[j].flight => i = j
  <2>. SUFFICES ASSUME NEW i \in DOMAIN (queue'), NEW j \in DOMAIN (queue'),
                       queue'[i].flight = queue'[j].flight
                PROVE  i = j
    OBVIOUS
  <2>1. i + 1 = j + 1
    BY <1>4 DEF KeyIsOnItsWay
  <2>. QED  BY <1>4, <2>1
<1>. DEFINE Rest == {queue'[i].flight : i \in DOMAIN (queue')}
<1>7. first \notin Rest
  BY <1>3, <1>4 DEF KeyIsOnItsWay
<1>8. Waiting = Rest \cup {first}
  BY <1>3, <1>4, <1>5 DEF Waiting
<1>9. /\ keys = Waiting \cup Writing /\ Waiting \cap Writing = {}
  BY DEF KeyIsOnItsWay, Waiting
<1>10. \/ Writing' = Writing \cup {first} /\ keys' = keys
       \/ Writing' = Writing /\ keys' = keys \ {first}
  BY <1>1, <1>3 DEF Writing, ObserverAssumption
<1>11. keys' = Rest \cup Writing' /\ Rest \cap Writing' = {}
  BY <1>7, <1>8, <1>9, <1>10
<1>12. KeyIsOnItsWay'
  BY <1>6, <1>11 DEF KeyIsOnItsWay
<1>13. first \notin Writing
  BY <1>8, <1>9
<1>14. OneWriter'
  BY <1>1, <1>13 DEF OneWriter, Writing
<1>15. DeadIsIdle' /\ work' \in [Workers -> Flights \cup {Idle}] /\ keys' \subseteq Flights
  BY <1>1, <1>3 DEF DeadIsIdle
<1>. QED  BY <1>1, <1>2, <1>12, <1>14, <1>15

\* A worker that writes, or not, writes nothing any more and forgets its callsign.
LEMMA Idles ==
    ASSUME ObserverAssumption, OnItsWay, NEW w \in Workers, queue' = queue,
           work' = [work EXCEPT ![w] = Idle], keys' = keys \ {work[w]},
           alive' \in {alive, alive \ {w}}
    PROVE  OnItsWay'
<1>. USE DEF OnItsWay, ObserverTypes
<1>1. Writing' = Writing \ {work[w]}
  BY DEF Writing, OneWriter
<1>2. KeyIsOnItsWay'
  <2>1. CASE work[w] = Idle
    <3>1. work[w] \notin keys
      BY <2>1 DEF ObserverAssumption
    <3>. QED  BY <1>1, <2>1, <3>1 DEF KeyIsOnItsWay, Writing
  <2>2. CASE work[w] # Idle
    <3>1. work[w] \in Writing
      BY <2>2 DEF Writing
    <3>. QED  BY <1>1, <3>1 DEF KeyIsOnItsWay
  <2>. QED  BY <2>1, <2>2
<1>. QED  BY <1>2 DEF OneWriter, DeadIsIdle

LEMMA TickStep ==
    ASSUME MaxAge \in Nat, OnItsWay, Tick
    PROVE  OnItsWay'
<1>. USE DEF OnItsWay, ObserverTypes
<1>. DEFINE older(i) == [queue[i] EXCEPT !.age = IF @ > MaxAge THEN @ ELSE @ + 1]
<1>1. queue' = [i \in DOMAIN queue |-> older(i)] /\ UNCHANGED <<keys, work, alive>>
  BY DEF Tick
<1>2. Len(queue) \in Nat /\ DOMAIN queue = 1..Len(queue)
      /\ \A i \in DOMAIN queue : queue[i] \in Sample
  OBVIOUS
<1>3. \A i \in DOMAIN queue : older(i) \in Sample /\ older(i).flight = queue[i].flight
  BY <1>2 DEF Sample
<1>. HIDE DEF older
<1>4. queue' \in Seq(Sample)
  BY <1>1, <1>2, <1>3
<1>5. DOMAIN (queue') = DOMAIN queue
      /\ \A i \in DOMAIN queue : queue'[i].flight = queue[i].flight
  BY <1>1, <1>3
<1>. QED
  BY <1>1, <1>4, <1>5 DEF KeyIsOnItsWay, OneWriter, DeadIsIdle, Writing

LEMMA OnItsWayNext ==
    ASSUME ObserverAssumption, OnItsWay, [Next]_vars
    PROVE  OnItsWay'
<1>1. ASSUME NEW w \in Workers, Finish(w) \/ Die(w)
      PROVE  OnItsWay'
  BY <1>1, Idles DEF Finish, Forget, Die
<1>2. CASE UNCHANGED vars
  BY <1>2 DEF vars, OnItsWay, ObserverTypes, KeyIsOnItsWay, OneWriter, DeadIsIdle, Writing
<1>. QED
  BY <1>1, <1>2, ObserveStep, TakeStep, TickStep DEF Next, ObserverAssumption

-----------------------------------------------------------------------------
(* The theorem.                                                             *)

(* A callsign is kept out of the queue exactly as long as a sample of it is *)
(* on its way, and it is on its way once (queued_keys, discarded in each of *)
(* the paths): whatever is dropped, fails or is cancelled, with any number  *)
(* of workers that are cancelled and created anew.                          *)
THEOREM KeysAreHonest ==
    ObserverAssumption => (Spec => []KeyIsOnItsWay)
<1>. SUFFICES ASSUME ObserverAssumption
              PROVE  Spec => []KeyIsOnItsWay
  OBVIOUS
<1>1. Init => OnItsWay
  BY OnItsWayInit
<1>2. OnItsWay /\ [Next]_vars => OnItsWay'
  BY OnItsWayNext
<1>3. OnItsWay => KeyIsOnItsWay
  BY DEF OnItsWay
<1>. QED  BY <1>1, <1>2, <1>3, PTL DEF Spec

-----------------------------------------------------------------------------
(* The gate of routes: the inductive invariant.                             *)

States == {"unknown", "unavailable", "resolved", "conflict"}
Answer == [state : States, destination : Gate!Airports \cup {Gate!Nothing}, left : Nat]
GateTypes ==
  /\ cache \in [Flights -> Answer] /\ inflight \in Seq(Flights)
  /\ running \in [DOMAIN running -> Nat] /\ due \subseteq Flights /\ held \in [Flights -> Nat]

\* A callsign is looked up once at a time; what runs is in the queue, is not
\* over time, and was made before what waits: the semaphore is fair.
Lookups ==
  /\ Len(inflight) <= MaxInflight
  /\ \A i, k \in DOMAIN inflight : inflight[i] = inflight[k] => i = k
  /\ \A f \in DOMAIN running : Gate!Queued(f) /\ running[f] <= FetchCycles
  /\ \A k \in DOMAIN inflight : inflight[k] \in DOMAIN running =>
       \A i \in 1..(k - 1) : inflight[i] \in DOMAIN running

\* The lookups that were made before that of f, and those of them that do not
\* run yet or have run for less than t cycles.
Ahead(f) == {g \in Flights : \E k \in DOMAIN inflight :
                               inflight[k] = f /\ \E i \in 1..(k - 1) : inflight[i] = g}
Slower(f, t) == {g \in Ahead(f) : g \in DOMAIN running => running[g] < t}

\* f was held in b cycles at most, the one it is still due in not counted.
HeldFor(f, b) == held[f] <= b + (IF f \in due THEN 0 ELSE 1)

\* After j lookups of the full length MaxConcurrent lookups each were served
\* before f, and t cycles later those that are not slower.
HeldInLine(f) ==
  \E j \in Nat :
    \/ /\ HeldFor(f, j * FetchCycles)
       /\ Cardinality(Ahead(f)) + j * MaxConcurrent <= MaxInflight - 1
    \/ \E t \in 1..FetchCycles :
         /\ HeldFor(f, j * FetchCycles + t)
         /\ Cardinality(Slower(f, t)) + (j + 1) * MaxConcurrent <= MaxInflight - 1

Rounds == (MaxInflight - 1) \div MaxConcurrent
HeldWhy ==
  /\ \A f \in Flights : Gate!Queued(f) /\ f \notin DOMAIN running => HeldInLine(f)
  /\ \A f \in DOMAIN running : HeldFor(f, FetchCycles * Rounds + running[f])
  /\ \A f \in Flights : ~Gate!Queued(f) =>
       /\ held[f] > 0 => cache[f].left >= IF f \in due THEN 1 ELSE 2
       /\ held[f] <= FetchCycles * Rounds + FetchCycles + 1

HeldShortly == GateTypes /\ Lookups /\ HeldWhy

-----------------------------------------------------------------------------
LEMMA RoundsBound ==
    ASSUME Gate!RouteAssumption
    PROVE  /\ Rounds \in Nat /\ FetchCycles * Rounds \in Nat
           /\ FetchCycles * ((MaxInflight + MaxConcurrent - 1) \div MaxConcurrent)
                = FetchCycles * Rounds + FetchCycles
           /\ \A j \in Nat : j * MaxConcurrent <= MaxInflight - 1 =>
                j <= Rounds /\ j * FetchCycles <= FetchCycles * Rounds
<1>. DEFINE N == MaxInflight
            C == MaxConcurrent
            F == FetchCycles
<1>1. N \in Nat \ {0} /\ C \in Nat \ {0} /\ F \in Nat \ {0}
  BY DEF Gate!RouteAssumption
<1>2. Rounds \in Nat
  BY <1>1 DEF Rounds
<1>3. (N - 1) = C * Rounds + ((N - 1) % C) /\ (N - 1) % C \in 0..(C - 1)
  BY <1>1 DEF Rounds
<1>4. (N + C - 1) \div C = Rounds + 1
  BY <1>1 DEF Rounds
<1>5. \A j \in Nat : j * C <= N - 1 => j <= Rounds
  BY <1>1 DEF Rounds
<1>6. \A j \in Nat : j <= Rounds => j * F <= F * Rounds
  BY <1>1, <1>2
<1>7. F * (Rounds + 1) = F * Rounds + F /\ F * Rounds \in Nat
  BY <1>1, <1>2
<1>. QED  BY <1>2, <1>4, <1>5, <1>6, <1>7

LEMMA GateCardinality == \A S : Gate!Cardinality(S) = Cardinality(S)
BY DEF Gate!Cardinality, Cardinality

\* Sources leave an answer that is kept for two cycles at least.
LEMMA Chosen ==
    ASSUME Gate!RouteAssumption,
           NEW a \in Gate!Airports \cup {Gate!Nothing}, NEW b \in Gate!Airports \cup {Gate!Nothing}
    PROVE  Gate!Choose(a, b) \in Answer /\ Gate!Choose(a, b).left >= 2
<1>. DEFINE answers == {a, b} \ {Gate!Nothing}
            strong == answers \cap Gate!Terminal
<1>1. IsFiniteSet(answers) /\ IsFiniteSet(strong)
  <2>1. IsFiniteSet({a, b})
    <3>1. {a, b} = {a} \cup {b}
      OBVIOUS
    <3>2. IsFiniteSet({a})
      BY FS_Singleton
    <3>. QED  BY <3>1, <3>2, FS_AddElement
  <2>. QED  BY <2>1, FS_Subset
<1>2. answers \subseteq Gate!Airports /\ strong \subseteq Gate!Airports
  OBVIOUS
<1>3. Cardinality(answers) = 1 => (CHOOSE x \in answers : TRUE) \in Gate!Airports
  BY <1>1, <1>2, FS_Singleton
<1>4. Cardinality(strong) = 1 => (CHOOSE x \in strong : TRUE) \in Gate!Airports
  BY <1>1, <1>2, FS_Singleton
<1>5. /\ \A s \in States, d \in Gate!Airports \cup {Gate!Nothing}, n \in Nat :
           Gate!Keep(s, d, n) \in Answer /\ Gate!Keep(s, d, n).left = n
      /\ {ResolvedTtl, ConflictTtl, NegativeTtl} \subseteq {n \in Nat : n >= 2}
      /\ {"unknown", "unavailable", "resolved", "conflict"} \subseteq States
  BY DEF Gate!Keep, Answer, States, Gate!RouteAssumption
<1>. DEFINE Good(x) == x \in Answer /\ x.left >= 2
<1>7. /\ Good(Gate!Keep("unavailable", Gate!Nothing, NegativeTtl))
      /\ Good(Gate!Keep("conflict", Gate!Nothing, ConflictTtl))
      /\ Cardinality(answers) = 1 =>
           Good(Gate!Keep("resolved", CHOOSE x \in answers : TRUE, ResolvedTtl))
      /\ Cardinality(strong) = 1 =>
           Good(Gate!Keep("resolved", CHOOSE x \in strong : TRUE, ResolvedTtl))
  <2>1. /\ Cardinality(answers) = 1 =>
             Gate!Keep("resolved", CHOOSE x \in answers : TRUE, ResolvedTtl) \in Answer
             /\ Gate!Keep("resolved", CHOOSE x \in answers : TRUE, ResolvedTtl).left = ResolvedTtl
        /\ Cardinality(strong) = 1 =>
             Gate!Keep("resolved", CHOOSE x \in strong : TRUE, ResolvedTtl) \in Answer
             /\ Gate!Keep("resolved", CHOOSE x \in strong : TRUE, ResolvedTtl).left = ResolvedTtl
    <3>. HIDE DEF answers, strong
    <3>. QED  BY <1>3, <1>4, <1>5
  <2>2. /\ Good(Gate!Keep("unavailable", Gate!Nothing, NegativeTtl))
        /\ Good(Gate!Keep("conflict", Gate!Nothing, ConflictTtl))
    BY <1>5
  <2>. HIDE DEF answers, strong
  <2>. QED  BY <1>5, <2>1, <2>2
<1>. HIDE DEF Good
<1>8. Good(Gate!Choose(a, b))
  BY <1>7, GateCardinality DEF Gate!Choose
<1>. QED  BY <1>8 DEF Good

\* What stands first in a sequence is no more than its places.
LEMMA FewInFront ==
    ASSUME NEW s \in Seq(Flights), NEW n \in 0..Len(s)
    PROVE  /\ IsFiniteSet({s[i] : i \in 1..n})
           /\ Cardinality({s[i] : i \in 1..n}) <= n
<1>. DEFINE T == {s[i] : i \in 1..n}
            p == [i \in 1..n |-> s[i]]
<1>1. p \in Surjection(1..n, T)
  BY DEF Surjection
<1>2. IsFiniteSet(1..n) /\ Cardinality(1..n) = n
  BY FS_Interval
<1>. HIDE DEF p, T
<1>3. IsFiniteSet(T) /\ Cardinality(T) <= Cardinality(1..n)
  BY <1>1, <1>2, FS_Surjection
<1>. QED  BY <1>2, <1>3 DEF T

LEMMA AheadFinite ==
    ASSUME GateTypes, NEW f \in Flights
    PROVE  /\ IsFiniteSet(Ahead(f)) /\ Cardinality(Ahead(f)) \in Nat
           /\ \A S \in SUBSET Ahead(f) :
                IsFiniteSet(S) /\ Cardinality(S) \in Nat /\ Cardinality(S) <= Cardinality(Ahead(f))
<1>. DEFINE T == {inflight[i] : i \in 1..Len(inflight)}
<1>1. Len(inflight) \in Nat /\ DOMAIN inflight = 1..Len(inflight)
  BY DEF GateTypes
<1>2. IsFiniteSet(T)
  <2>1. Len(inflight) \in 0..Len(inflight) /\ inflight \in Seq(Flights)
    BY <1>1 DEF GateTypes
  <2>. QED  BY <2>1, FewInFront
<1>3. Ahead(f) \subseteq T
  BY <1>1 DEF Ahead
<1>. HIDE DEF T
<1>4. IsFiniteSet(Ahead(f))
  BY <1>2, <1>3, FS_Subset
<1>. QED  BY <1>4, FS_Subset, FS_CardinalityType

LEMMA GateConstants ==
    ASSUME Gate!RouteAssumption
    PROVE  MaxInflight \in Nat \ {0} /\ MaxConcurrent \in Nat \ {0} /\ FetchCycles \in Nat \ {0}
BY DEF Gate!RouteAssumption

\* A flight that waits for its turn has been held for the rounds before it.
LEMMA HeldOneRoundLess ==
    ASSUME Gate!RouteAssumption, GateTypes, NEW f \in Flights, HeldInLine(f)
    PROVE  HeldFor(f, FetchCycles * Rounds)
<1>1. MaxInflight \in Nat \ {0} /\ MaxConcurrent \in Nat \ {0} /\ FetchCycles \in Nat \ {0}
      /\ held[f] \in Nat
  BY GateConstants DEF GateTypes
<1>2. PICK j \in Nat :
        \/ /\ HeldFor(f, j * FetchCycles)
           /\ Cardinality(Ahead(f)) + j * MaxConcurrent <= MaxInflight - 1
        \/ \E t \in 1..FetchCycles :
             /\ HeldFor(f, j * FetchCycles + t)
             /\ Cardinality(Slower(f, t)) + (j + 1) * MaxConcurrent <= MaxInflight - 1
  BY DEF HeldInLine
<1>3. Cardinality(Ahead(f)) \in Nat /\ \A t : Cardinality(Slower(f, t)) \in Nat
  BY AheadFinite DEF Slower
<1>4. \A i \in Nat : i * MaxConcurrent \in Nat /\ i * FetchCycles \in Nat
  BY <1>1
<1>5. FetchCycles * Rounds \in Nat
  BY RoundsBound
<1>6. CASE HeldFor(f, j * FetchCycles)
           /\ Cardinality(Ahead(f)) + j * MaxConcurrent <= MaxInflight - 1
  <2>1. j * MaxConcurrent <= MaxInflight - 1
    BY <1>1, <1>3, <1>4, <1>6
  <2>2. j * FetchCycles <= FetchCycles * Rounds
    BY <2>1, RoundsBound
  <2>. QED  BY <1>1, <1>4, <1>5, <1>6, <2>2 DEF HeldFor
<1>7. ASSUME NEW t \in 1..FetchCycles, HeldFor(f, j * FetchCycles + t),
             Cardinality(Slower(f, t)) + (j + 1) * MaxConcurrent <= MaxInflight - 1
      PROVE  HeldFor(f, FetchCycles * Rounds)
  <2>1. (j + 1) * MaxConcurrent <= MaxInflight - 1 /\ j + 1 \in Nat
    BY <1>1, <1>3, <1>4, <1>7
  <2>2. (j + 1) * FetchCycles <= FetchCycles * Rounds
    BY <2>1, RoundsBound
  <2>3. (j + 1) * FetchCycles = j * FetchCycles + FetchCycles
    BY <1>1
  <2>. QED  BY <1>1, <1>4, <1>5, <1>7, <2>2, <2>3 DEF HeldFor
<1>. QED  BY <1>2, <1>6, <1>7

LEMMA HeldShortlyBounded ==
    ASSUME Gate!RouteAssumption, HeldShortly
    PROVE  Gate!HoldBounded
<1>. SUFFICES ASSUME NEW f \in Flights
              PROVE  held[f] <= FetchCycles * Rounds + FetchCycles + 1
  BY RoundsBound DEF Gate!HoldBounded
<1>1. FetchCycles \in Nat /\ FetchCycles * Rounds \in Nat /\ held[f] \in Nat
      /\ (f \in DOMAIN running => running[f] \in Nat /\ running[f] <= FetchCycles)
  BY GateConstants, RoundsBound DEF HeldShortly, GateTypes, Lookups
<1>2. CASE f \in DOMAIN running
  BY <1>1, <1>2 DEF HeldShortly, HeldWhy, HeldFor
<1>3. CASE f \notin DOMAIN running /\ Gate!Queued(f)
  BY <1>1, <1>3, HeldOneRoundLess DEF HeldShortly, HeldWhy, HeldFor
<1>4. CASE ~Gate!Queued(f)
  BY <1>4 DEF HeldShortly, HeldWhy
<1>. QED  BY <1>2, <1>3, <1>4

LEMMA GateInit ==
    ASSUME Gate!RouteAssumption, Gate!Init
    PROVE  HeldShortly
<1>. USE DEF Gate!Init
<1>1. Gate!Unknown \in Answer
  BY DEF Gate!Unknown, Answer, States
<1>2. GateTypes
  <2>1. <<>> \in Seq(Flights) /\ DOMAIN <<>> = {}
    OBVIOUS
  <2>2. running \in [DOMAIN running -> Nat]
    BY <2>1
  <2>. QED  BY <1>1, <2>1, <2>2 DEF GateTypes
<1>3. DOMAIN inflight = {} /\ DOMAIN running = {} /\ Len(inflight) = 0
  OBVIOUS
<1>4. Lookups
  BY <1>3, GateConstants DEF Lookups
<1>5. \A f \in Flights : ~Gate!Queued(f) /\ held[f] = 0
  BY <1>3 DEF Gate!Queued
<1>6. HeldWhy
  BY <1>3, <1>5, GateConstants, RoundsBound DEF HeldWhy
<1>. QED  BY <1>2, <1>4, <1>6 DEF HeldShortly

\* A step that leaves the place of f in the line, or betters it.
LEMMA StaysInLine ==
    ASSUME Gate!RouteAssumption, GateTypes, NEW f \in Flights, HeldInLine(f),
           \A b \in Nat : HeldFor(f, b) => HeldFor(f, b)',
           Ahead(f)' \subseteq Ahead(f),
           \A t \in 1..FetchCycles : Slower(f, t)' \subseteq Slower(f, t)
    PROVE  HeldInLine(f)'
<1>1. MaxInflight \in Nat /\ MaxConcurrent \in Nat /\ FetchCycles \in Nat
  BY GateConstants
<1>2. PICK j \in Nat :
        \/ /\ HeldFor(f, j * FetchCycles)
           /\ Cardinality(Ahead(f)) + j * MaxConcurrent <= MaxInflight - 1
        \/ \E t \in 1..FetchCycles :
             /\ HeldFor(f, j * FetchCycles + t)
             /\ Cardinality(Slower(f, t)) + (j + 1) * MaxConcurrent <= MaxInflight - 1
  BY DEF HeldInLine
<1>3. j * MaxConcurrent \in Nat /\ (j + 1) * MaxConcurrent \in Nat /\ j * FetchCycles \in Nat
  BY <1>1
<1>4. CASE HeldFor(f, j * FetchCycles)
           /\ Cardinality(Ahead(f)) + j * MaxConcurrent <= MaxInflight - 1
  <2>1. Cardinality(Ahead(f)') \in Nat /\ Cardinality(Ahead(f)) \in Nat
        /\ Cardinality(Ahead(f)') <= Cardinality(Ahead(f))
    BY AheadFinite
  <2>2. Cardinality(Ahead(f)') + j * MaxConcurrent <= MaxInflight - 1
    BY <1>1, <1>3, <1>4, <2>1
  <2>. QED  BY <1>3, <1>4, <2>2 DEF HeldInLine
<1>5. ASSUME NEW t \in 1..FetchCycles, HeldFor(f, j * FetchCycles + t),
             Cardinality(Slower(f, t)) + (j + 1) * MaxConcurrent <= MaxInflight - 1
      PROVE  HeldInLine(f)'
  <2>1. Cardinality(Slower(f, t)') \in Nat /\ Cardinality(Slower(f, t)) \in Nat
        /\ Cardinality(Slower(f, t)') <= Cardinality(Slower(f, t))
    <3>1. Slower(f, t) \in SUBSET Ahead(f)
      BY DEF Slower
    <3>2. IsFiniteSet(Slower(f, t)) /\ Slower(f, t)' \in SUBSET Slower(f, t)
      BY <3>1, AheadFinite
    <3>. QED  BY <3>2, FS_Subset, FS_CardinalityType
  <2>2. Cardinality(Slower(f, t)') + (j + 1) * MaxConcurrent <= MaxInflight - 1
    BY <1>1, <1>3, <1>5, <2>1
  <2>3. j * FetchCycles + t \in Nat
    BY <1>1, <1>3
  <2>4. HeldFor(f, j * FetchCycles + t)'
    BY <1>5, <2>3
  <2>. QED  BY <2>2, <2>4 DEF HeldInLine
<1>. QED  BY <1>2, <1>4, <1>5

LEMMA Evaluated ==
    ASSUME Gate!RouteAssumption, GateTypes, NEW f \in Flights,
           NEW here \in BOOLEAN, NEW sent \in BOOLEAN, Gate!Evaluate(f, here, sent)
    PROVE  /\ f \in due /\ due' = due \ {f} /\ UNCHANGED <<cache, running>>
           /\ held' \in [Flights -> Nat] /\ \A g \in Flights \ {f} : held'[g] = held[g]
           /\ held'[f] = 0 \/ (held'[f] = held[f] + 1 /\ cache[f].left = 0)
           /\ \/ inflight' = inflight /\ (Gate!Queued(f) \/ held'[f] = 0)
              \/ /\ inflight' = Append(inflight, f) /\ cache[f].left = 0
                 /\ ~Gate!Queued(f) /\ Len(inflight) < MaxInflight
<1>. DEFINE l == Gate!Lookup(f)
<1>1. /\ f \in due /\ due' = due \ {f} /\ UNCHANGED <<cache, running>>
      /\ inflight' = IF ~here /\ l = "starts" THEN Append(inflight, f) ELSE inflight
      /\ \E decision \in Gate!Decided(f, here, sent) :
           held' = [held EXCEPT ![f] = IF decision = "held" THEN @ + 1 ELSE 0]
  BY DEF Gate!Evaluate
<1>2. "held" \in Gate!Decided(f, here, sent) => ~here /\ l \in {"pending", "starts"}
  BY DEF Gate!Decided, Gate!Decisions
<1>3. cache[f].left \in Nat /\ held \in [Flights -> Nat]
  BY DEF GateTypes, Answer
<1>4. /\ l = "pending" => Gate!Queued(f) /\ cache[f].left = 0
      /\ l = "starts" => ~Gate!Queued(f) /\ cache[f].left = 0 /\ ~(Len(inflight) >= MaxInflight)
  BY <1>3 DEF Gate!Lookup
<1>. HIDE DEF l
<1>5. /\ held' \in [Flights -> Nat] /\ \A g \in Flights \ {f} : held'[g] = held[g]
      /\ held'[f] = 0 \/ (held'[f] = held[f] + 1 /\ ~here /\ l \in {"pending", "starts"})
  <2>1. PICK decision \in Gate!Decided(f, here, sent) :
               held' = [held EXCEPT ![f] = IF decision = "held" THEN @ + 1 ELSE 0]
    BY <1>1
  <2>2. CASE decision = "held"
    BY <1>2, <1>3, <2>1, <2>2
  <2>3. CASE decision # "held"
    BY <1>3, <2>1, <2>3
  <2>. QED  BY <2>2, <2>3
<1>6. Len(inflight) \in Nat /\ MaxInflight \in Nat
  BY GateConstants DEF GateTypes
<1>7. CASE ~here /\ l = "starts"
  BY <1>1, <1>4, <1>5, <1>6, <1>7
<1>8. CASE ~(~here /\ l = "starts")
  <2>1. inflight' = inflight
    BY <1>1, <1>8
  <2>2. Gate!Queued(f) \/ held'[f] = 0
    BY <1>4, <1>5, <1>8
  <2>. QED  BY <1>1, <1>4, <1>5, <2>1, <2>2
<1>. QED  BY <1>7, <1>8

LEMMA EvaluateGate ==
    ASSUME Gate!RouteAssumption, HeldShortly, NEW f \in Flights,
           NEW here \in BOOLEAN, NEW sent \in BOOLEAN, Gate!Evaluate(f, here, sent)
    PROVE  HeldShortly'
<1>1. /\ f \in due /\ due' = due \ {f} /\ cache' = cache /\ running' = running
      /\ held' \in [Flights -> Nat] /\ \A g \in Flights \ {f} : held'[g] = held[g]
      /\ held'[f] = 0 \/ (held'[f] = held[f] + 1 /\ cache[f].left = 0)
      /\ \/ inflight' = inflight /\ (Gate!Queued(f) \/ held'[f] = 0)
         \/ /\ inflight' = Append(inflight, f) /\ cache[f].left = 0
            /\ ~Gate!Queued(f) /\ Len(inflight) < MaxInflight
  BY Evaluated DEF HeldShortly
<1>2. /\ held \in [Flights -> Nat] /\ inflight \in Seq(Flights) /\ Len(inflight) \in Nat
      /\ DOMAIN inflight = 1..Len(inflight) /\ DOMAIN held = Flights
      /\ DOMAIN running \subseteq Flights
  BY DEF HeldShortly, GateTypes, Lookups, Gate!Queued
<1>3. /\ MaxInflight \in Nat \ {0} /\ MaxConcurrent \in Nat \ {0} /\ FetchCycles \in Nat \ {0}
      /\ FetchCycles * Rounds \in Nat
  BY GateConstants, RoundsBound
<1>4. \A g \in Flights, b \in Nat : HeldFor(g, b) => HeldFor(g, b)'
  BY <1>1, <1>2 DEF HeldFor
<1>5. CASE inflight' = inflight
  <2>1. GateTypes'
    BY <1>1, <1>5 DEF HeldShortly, GateTypes
  <2>2. Lookups'
    BY <1>1, <1>5 DEF HeldShortly, Lookups, Gate!Queued
  <2>3. \A g : (Gate!Queued(g))' = Gate!Queued(g) /\ Ahead(g)' = Ahead(g)
               /\ \A t : Slower(g, t)' = Slower(g, t)
    BY <1>1, <1>5 DEF Gate!Queued, Ahead, Slower
  <2>4. ASSUME NEW g \in Flights, (Gate!Queued(g))', g \notin DOMAIN running'
        PROVE  HeldInLine(g)'
    <3>1. HeldInLine(g)
      BY <1>1, <2>3, <2>4 DEF HeldShortly, HeldWhy
    <3>. QED  BY <1>4, <2>3, <3>1, StaysInLine DEF HeldShortly
  <2>5. \A g \in DOMAIN running' : HeldFor(g, FetchCycles * Rounds + running[g])'
    <3>1. \A g \in DOMAIN running : g \in Flights /\ FetchCycles * Rounds + running[g] \in Nat
      BY <1>2, <1>3 DEF HeldShortly, GateTypes
    <3>. QED  BY <1>1, <1>4, <3>1 DEF HeldShortly, HeldWhy
  <2>6. ASSUME NEW g \in Flights, ~(Gate!Queued(g))'
        PROVE  /\ held'[g] > 0 => cache'[g].left >= IF g \in due' THEN 1 ELSE 2
               /\ held'[g] <= FetchCycles * Rounds + FetchCycles + 1
    <3>1. CASE g = f
      <4>1. ~Gate!Queued(f)
        BY <2>3, <2>6, <3>1
      <4>2. Append(inflight, f) # inflight
        <5>1. Len(Append(inflight, f)) = Len(inflight) + 1
          BY <1>2, AppendProperties
        <5>2. \A n \in Nat : n + 1 # n
          OBVIOUS
        <5>. QED  BY <1>2, <5>1, <5>2, Zenon
      <4>3. held'[g] = 0
        BY <1>1, <1>5, <3>1, <4>1, <4>2
      <4>. QED  BY <1>3, <4>3
    <3>2. CASE g # f
      BY <1>1, <2>3, <2>6, <3>2 DEF HeldShortly, HeldWhy
    <3>. QED  BY <3>1, <3>2
  <2>. QED  BY <1>1, <2>1, <2>2, <2>4, <2>5, <2>6 DEF HeldShortly, HeldWhy
<1>6. CASE /\ inflight' = Append(inflight, f) /\ cache[f].left = 0
           /\ ~Gate!Queued(f) /\ Len(inflight) < MaxInflight
  <2>1. /\ inflight' \in Seq(Flights) /\ Len(inflight') = Len(inflight) + 1
        /\ DOMAIN (inflight') = 1..(Len(inflight) + 1)
        /\ \A i \in DOMAIN inflight : inflight'[i] = inflight[i] /\ inflight[i] # f
        /\ inflight'[Len(inflight) + 1] = f
    BY <1>2, <1>6 DEF Gate!Queued
  <2>2. GateTypes'
    BY <1>1, <2>1 DEF HeldShortly, GateTypes
  <2>3. \A g : (Gate!Queued(g))' <=> Gate!Queued(g) \/ g = f
    <3>1. /\ Len(inflight) + 1 \in DOMAIN (inflight')
          /\ \A i \in DOMAIN (inflight') : i \in DOMAIN inflight \/ i = Len(inflight) + 1
          /\ DOMAIN inflight \subseteq DOMAIN (inflight')
      BY <1>2, <2>1
    <3>. QED  BY <2>1, <3>1 DEF Gate!Queued
  <2>4. /\ \A i \in DOMAIN (inflight') : i \in DOMAIN inflight \/ i = Len(inflight) + 1
        /\ DOMAIN inflight \subseteq DOMAIN (inflight')
    BY <1>2, <2>1
  <2>5. f \notin DOMAIN running
    BY <1>6 DEF HeldShortly, Lookups
  <2>6. \A i \in DOMAIN inflight : i \in Nat /\ 1..(i - 1) \subseteq DOMAIN inflight
                                   /\ i # Len(inflight) + 1
    BY <1>2
  <2>7. Lookups'
    <3>1. Len(inflight') <= MaxInflight
      BY <1>2, <1>3, <1>6, <2>1
    <3>2. \A i, k \in DOMAIN (inflight') : inflight'[i] = inflight'[k] => i = k
      BY <2>1, <2>4 DEF HeldShortly, Lookups
    <3>3. \A g \in DOMAIN (running') : (Gate!Queued(g))' /\ running'[g] <= FetchCycles
      BY <1>1, <2>3 DEF HeldShortly, Lookups
    <3>4. \A k \in DOMAIN (inflight') : inflight'[k] \in DOMAIN (running') =>
            \A i \in 1..(k - 1) : inflight'[i] \in DOMAIN (running')
      <4>. SUFFICES ASSUME NEW k \in DOMAIN (inflight'), inflight'[k] \in DOMAIN running,
                           NEW i \in 1..(k - 1)
                    PROVE  inflight'[i] \in DOMAIN running
        BY <1>1
      <4>1. k \in DOMAIN inflight /\ inflight'[k] = inflight[k]
        BY <2>1, <2>4, <2>5
      <4>. QED  BY <2>1, <2>6, <4>1 DEF HeldShortly, Lookups
    <3>. QED  BY <3>1, <3>2, <3>3, <3>4 DEF Lookups
  <2>8. ASSUME NEW g \in Flights \ {f}
        PROVE  Ahead(g)' = Ahead(g) /\ \A t : Slower(g, t)' = Slower(g, t)
    <3>1. Ahead(g)' = {x \in Flights : \E k \in DOMAIN inflight :
                         inflight'[k] = g /\ \E i \in 1..(k - 1) : inflight'[i] = x}
      BY <2>1, <2>4, <2>8 DEF Ahead
    <3>2. Ahead(g)' = Ahead(g)
      BY <2>1, <2>6, <3>1 DEF Ahead
    <3>. QED  BY <1>1, <3>2 DEF Slower
  <2>9. HeldInLine(f)'
    <3>1. held[f] = 0
      <4>1. held[f] > 0 => cache[f].left >= 1
        BY <1>1, <1>6 DEF HeldShortly, HeldWhy
      <4>. QED  BY <1>2, <1>6, <4>1
    <3>2. HeldFor(f, 0)'
      BY <1>1, <3>1 DEF HeldFor
    <3>3. Ahead(f)' \subseteq {inflight[i] : i \in 1..Len(inflight)}
      <4>. SUFFICES ASSUME NEW k \in DOMAIN (inflight'), inflight'[k] = f, NEW i \in 1..(k - 1)
                    PROVE  i \in 1..Len(inflight) /\ inflight'[i] = inflight[i]
        BY DEF Ahead
      <4>1. k = Len(inflight) + 1
        BY <2>1, <2>4
      <4>. QED  BY <1>2, <2>1, <4>1
    <3>4. Len(inflight) \in 0..Len(inflight)
      BY <1>2
    <3>5. Cardinality(Ahead(f)') \in Nat /\ Cardinality(Ahead(f)') <= Len(inflight)
      <4>. DEFINE T == {inflight[i] : i \in 1..Len(inflight)}
      <4>1. IsFiniteSet(T) /\ Cardinality(T) <= Len(inflight)
        BY <1>2, <3>4, FewInFront
      <4>2. Ahead(f)' \in SUBSET T
        BY <3>3
      <4>. HIDE DEF T
      <4>3. IsFiniteSet(Ahead(f)') /\ Cardinality(Ahead(f)') <= Cardinality(T)
        BY <4>1, <4>2, FS_Subset
      <4>4. Cardinality(T) \in Nat /\ Cardinality(Ahead(f)') \in Nat
        BY <4>1, <4>3, FS_CardinalityType
      <4>. QED  BY <1>2, <4>1, <4>3, <4>4
    <3>6. 0 * FetchCycles = 0 /\ 0 * MaxConcurrent = 0
          /\ Cardinality(Ahead(f)') + 0 <= MaxInflight - 1
      BY <1>2, <1>3, <1>6, <3>5
    <3>7. HeldFor(f, 0 * FetchCycles)'
          /\ Cardinality(Ahead(f)') + 0 * MaxConcurrent <= MaxInflight - 1
      BY <3>2, <3>6
    <3>. QED  BY <3>7 DEF HeldInLine
  <2>10. ASSUME NEW g \in Flights, (Gate!Queued(g))', g \notin DOMAIN running'
         PROVE  HeldInLine(g)'
    <3>1. CASE g = f
      BY <2>9, <3>1
    <3>2. CASE g # f
      <4>1. HeldInLine(g)
        BY <1>1, <2>3, <2>10, <3>2 DEF HeldShortly, HeldWhy
      <4>2. Ahead(g)' = Ahead(g) /\ \A t : Slower(g, t)' = Slower(g, t)
        BY <2>8, <3>2
      <4>. QED  BY <1>4, <4>1, <4>2, StaysInLine DEF HeldShortly
    <3>. QED  BY <3>1, <3>2
  <2>11. \A g \in DOMAIN running' : HeldFor(g, FetchCycles * Rounds + running[g])'
    <3>1. \A g \in DOMAIN running : g \in Flights /\ FetchCycles * Rounds + running[g] \in Nat
      BY <1>2, <1>3 DEF HeldShortly, GateTypes
    <3>. QED  BY <1>1, <1>4, <3>1 DEF HeldShortly, HeldWhy
  <2>12. ASSUME NEW g \in Flights, ~(Gate!Queued(g))'
         PROVE  /\ held'[g] > 0 => cache'[g].left >= IF g \in due' THEN 1 ELSE 2
                /\ held'[g] <= FetchCycles * Rounds + FetchCycles + 1
    BY <1>1, <2>3, <2>12 DEF HeldShortly, HeldWhy
  <2>. QED  BY <1>1, <2>2, <2>7, <2>10, <2>11, <2>12 DEF HeldShortly, HeldWhy
<1>. QED  BY <1>1, <1>5, <1>6

\* The first of the lookups that wait.
LEMMA FirstWaiting ==
    ASSUME GateTypes, Gate!Waiting # {}
    PROVE  LET i == CHOOSE i \in Gate!Waiting : \A j \in Gate!Waiting : i <= j
           IN i \in Gate!Waiting /\ \A j \in Gate!Waiting : i <= j
<1>. DEFINE R == OpToRel(<, Nat)
<1>1. Gate!Waiting \subseteq Nat
  BY DEF Gate!Waiting, GateTypes
<1>2. IsWellFoundedOn(R, Nat) /\ \A i, j \in Nat : <<j, i>> \in R <=> j < i
  BY NatLessThanWellFounded DEF OpToRel
<1>. HIDE DEF R
<1>3. PICK i \in Gate!Waiting : \A j \in Gate!Waiting : ~(<<j, i>> \in R)
  BY <1>1, <1>2, WFMin
<1>4. \A j \in Gate!Waiting : ~(j < i)
  BY <1>1, <1>2, <1>3, Zenon
<1>5. \A j \in Gate!Waiting : i <= j
  BY <1>1, <1>4
<1>. QED  BY <1>5

LEMMA FetchStartGate ==
    ASSUME Gate!RouteAssumption, HeldShortly, Gate!FetchStart
    PROVE  HeldShortly'
<1>. DEFINE i == CHOOSE i \in Gate!Waiting : \A j \in Gate!Waiting : i <= j
            x == inflight[i]
<1>1. /\ Gate!Waiting # {} /\ UNCHANGED <<cache, inflight, due, held>>
      /\ running' = [f \in DOMAIN running \cup {x} |-> IF f = x THEN 0 ELSE running[f]]
  BY DEF Gate!FetchStart
<1>2. i \in Gate!Waiting /\ \A j \in Gate!Waiting : i <= j
  BY <1>1, FirstWaiting DEF HeldShortly
<1>. HIDE DEF i
<1>3. /\ i \in DOMAIN inflight /\ x \notin DOMAIN running
      /\ \A j \in DOMAIN inflight : inflight[j] \notin DOMAIN running => i <= j
  BY <1>2 DEF Gate!Waiting
<1>4. /\ inflight \in Seq(Flights) /\ Len(inflight) \in Nat /\ DOMAIN inflight = 1..Len(inflight)
      /\ x \in Flights /\ held \in [Flights -> Nat] /\ running \in [DOMAIN running -> Nat]
      /\ DOMAIN running \subseteq Flights
  BY <1>3 DEF HeldShortly, GateTypes, Lookups, Gate!Queued
<1>5. Gate!Queued(x)
  BY <1>3 DEF Gate!Queued
<1>. HIDE DEF x
<1>6. /\ DOMAIN (running') = DOMAIN running \cup {x} /\ running'[x] = 0
      /\ \A f \in DOMAIN running : running'[f] = running[f]
      /\ running' \in [DOMAIN (running') -> Nat]
  BY <1>1, <1>3, <1>4
<1>7. FetchCycles \in Nat \ {0} /\ FetchCycles * Rounds \in Nat
  BY GateConstants, RoundsBound
<1>8. GateTypes'
  BY <1>1, <1>6 DEF HeldShortly, GateTypes
<1>9. \A f : (Gate!Queued(f))' = Gate!Queued(f) /\ Ahead(f)' = Ahead(f)
             /\ \A b : HeldFor(f, b)' = HeldFor(f, b)
  BY <1>1 DEF Gate!Queued, Ahead, HeldFor
<1>10. Lookups'
  <2>1. \A f \in DOMAIN (running') : (Gate!Queued(f))' /\ running'[f] <= FetchCycles
    BY <1>5, <1>6, <1>7, <1>9 DEF HeldShortly, Lookups
  <2>2. ASSUME NEW k \in DOMAIN inflight, inflight[k] \in DOMAIN (running'), NEW j \in 1..(k - 1)
        PROVE  inflight[j] \in DOMAIN (running')
    <3>1. CASE inflight[k] \in DOMAIN running
      BY <1>6, <2>2, <3>1 DEF HeldShortly, Lookups
    <3>2. CASE inflight[k] = x
      <4>1. k = i
        BY <1>3, <2>2, <3>2 DEF HeldShortly, Lookups, x
      <4>2. j \in DOMAIN inflight /\ ~(i <= j)
        BY <1>4, <2>2, <4>1
      <4>. QED  BY <1>3, <1>6, <4>2
    <3>. QED  BY <1>6, <2>2, <3>1, <3>2
  <2>. QED  BY <1>1, <2>1, <2>2 DEF HeldShortly, Lookups
<1>11. ASSUME NEW f \in Flights, (Gate!Queued(f))', f \notin DOMAIN running'
       PROVE  HeldInLine(f)'
  <2>1. HeldInLine(f)
    BY <1>6, <1>9, <1>11 DEF HeldShortly, HeldWhy
  <2>2. \A t \in 1..FetchCycles : Slower(f, t)' \subseteq Slower(f, t)
    BY <1>6, <1>9 DEF Slower
  <2>. QED  BY <1>9, <2>1, <2>2, StaysInLine DEF HeldShortly
<1>12. ASSUME NEW f \in DOMAIN running'
       PROVE  HeldFor(f, FetchCycles * Rounds + running[f])'
  <2>1. CASE f = x
    <3>1. HeldInLine(x)
      BY <1>3, <1>4, <1>5 DEF HeldShortly, HeldWhy, x
    <3>2. HeldFor(x, FetchCycles * Rounds)
      BY <1>4, <3>1, HeldOneRoundLess DEF HeldShortly
    <3>3. FetchCycles * Rounds + 0 = FetchCycles * Rounds
      BY <1>7
    <3>. QED  BY <1>1, <1>6, <2>1, <3>2, <3>3 DEF HeldFor
  <2>2. CASE f \in DOMAIN running
    <3>1. HeldFor(f, FetchCycles * Rounds + running[f]) /\ running'[f] = running[f]
      BY <1>6, <2>2 DEF HeldShortly, HeldWhy
    <3>. QED  BY <1>1, <3>1 DEF HeldFor
  <2>. QED  BY <1>6, <2>1, <2>2
<1>13. \A f \in Flights : ~(Gate!Queued(f))' =>
         /\ held'[f] > 0 => cache'[f].left >= IF f \in due' THEN 1 ELSE 2
         /\ held'[f] <= FetchCycles * Rounds + FetchCycles + 1
  BY <1>1, <1>9 DEF HeldShortly, HeldWhy
<1>. QED  BY <1>8, <1>10, <1>11, <1>12, <1>13 DEF HeldShortly, HeldWhy

\* The line without one of its lookups, in its order.
LEMMA Removed ==
    ASSUME GateTypes, Lookups, NEW f \in Flights, Gate!Queued(f), inflight' = Gate!Without(f)
    PROVE  /\ inflight' \in Seq(Flights) /\ Len(inflight') = Len(inflight) - 1
           /\ \A g : (Gate!Queued(g))' <=> Gate!Queued(g) /\ g # f
           /\ \E p \in [DOMAIN (inflight') -> DOMAIN inflight] :
                /\ \A i \in DOMAIN (inflight') : inflight'[i] = inflight[p[i]]
                /\ \A i, k \in DOMAIN (inflight') : i < k => p[i] < p[k]
<1>. DEFINE place == CHOOSE i \in DOMAIN inflight : inflight[i] = f
            n == Len(inflight) - 1
            p == [i \in 1..n |-> IF i < place THEN i ELSE i + 1]
<1>1. place \in DOMAIN inflight /\ inflight[place] = f
  BY DEF Gate!Queued
<1>2. \A i \in DOMAIN inflight : inflight[i] = f => i = place
  BY <1>1 DEF Lookups
<1>3. inflight' = [i \in 1..n |-> inflight[IF i < place THEN i ELSE i + 1]]
  BY DEF Gate!Without
<1>. HIDE DEF place
<1>4. /\ DOMAIN inflight = 1..Len(inflight) /\ Len(inflight) \in Nat
      /\ \A i \in DOMAIN inflight : inflight[i] \in Flights
  BY DEF GateTypes
<1>5. n \in Nat /\ place \in 1..(n + 1) /\ Len(inflight) = n + 1
  BY <1>1, <1>4
<1>. HIDE DEF n
<1>6. /\ p \in [1..n -> DOMAIN inflight]
      /\ \A i, k \in 1..n : i < k => p[i] < p[k]
      /\ \A i \in 1..n : p[i] # place
      /\ \A k \in DOMAIN inflight : k # place => \E i \in 1..n : p[i] = k
  <2>1. /\ p \in [1..n -> DOMAIN inflight]
        /\ \A i, k \in 1..n : i < k => p[i] < p[k]
        /\ \A i \in 1..n : p[i] # place
    BY <1>4, <1>5
  <2>2. ASSUME NEW k \in DOMAIN inflight, k # place
        PROVE  \E i \in 1..n : p[i] = k
    <3>1. CASE k < place
      <4>1. k \in 1..n /\ p[k] = k
        BY <1>4, <1>5, <3>1
      <4>. QED  BY <4>1
    <3>2. CASE ~(k < place)
      <4>1. k - 1 \in 1..n /\ p[k - 1] = k
        BY <1>4, <1>5, <2>2, <3>2
      <4>. QED  BY <4>1
    <3>. QED  BY <3>1, <3>2
  <2>. QED  BY <2>1, <2>2
<1>7. \A i \in 1..n : inflight'[i] = inflight[p[i]]
  BY <1>3
<1>8. DOMAIN (inflight') = 1..n
  BY <1>3
<1>9. inflight' \in Seq(Flights) /\ Len(inflight') = n
  <2>1. inflight' \in [1..n -> Flights]
    BY <1>3, <1>4, <1>6, <1>7
  <2>. QED  BY <1>5, <2>1
<1>. HIDE DEF p
<1>10. ASSUME NEW g
       PROVE  (Gate!Queued(g))' <=> Gate!Queued(g) /\ g # f
  <2>1. ASSUME NEW i \in 1..n, inflight'[i] = g
        PROVE  Gate!Queued(g) /\ g # f
    BY <1>2, <1>6, <1>7, <2>1 DEF Gate!Queued
  <2>2. ASSUME NEW k \in DOMAIN inflight, inflight[k] = g, g # f
        PROVE  \E i \in 1..n : inflight'[i] = g
    BY <1>1, <1>6, <1>7, <2>2
  <2>. QED  BY <1>8, <2>1, <2>2 DEF Gate!Queued
<1>11. /\ p \in [DOMAIN (inflight') -> DOMAIN inflight]
       /\ \A i \in DOMAIN (inflight') : inflight'[i] = inflight[p[i]]
       /\ \A i, k \in DOMAIN (inflight') : i < k => p[i] < p[k]
  BY <1>6, <1>7, <1>8
<1>12. Len(inflight') = Len(inflight) - 1
  BY <1>4, <1>5, <1>9
<1>. QED  BY <1>9, <1>10, <1>11, <1>12

LEMMA FetchEndGate ==
    ASSUME Gate!RouteAssumption, HeldShortly, NEW f \in Flights, Gate!FetchEnd(f)
    PROVE  HeldShortly'
<1>1. PICK a \in Gate!Airports \cup {Gate!Nothing}, b \in Gate!Airports \cup {Gate!Nothing} :
        cache' = [cache EXCEPT ![f] = Gate!Choose(a, b)]
  BY DEF Gate!FetchEnd
<1>. DEFINE answer == Gate!Choose(a, b)
<1>2. answer \in Answer /\ answer.left >= 2
  BY Chosen
<1>. HIDE DEF answer
<1>3. /\ f \in DOMAIN running /\ inflight' = Gate!Without(f) /\ UNCHANGED <<due, held>>
      /\ running' = [g \in DOMAIN running \ {f} |-> running[g]]
  BY DEF Gate!FetchEnd
<1>4. /\ cache \in [Flights -> Answer] /\ held \in [Flights -> Nat]
      /\ running \in [DOMAIN running -> Nat] /\ Gate!Queued(f)
      /\ DOMAIN running \subseteq Flights /\ Len(inflight) \in Nat
      /\ running[f] \in Nat /\ running[f] <= FetchCycles
  BY <1>3 DEF HeldShortly, GateTypes, Lookups, Gate!Queued
<1>5. /\ inflight' \in Seq(Flights) /\ Len(inflight') = Len(inflight) - 1
      /\ \A g : (Gate!Queued(g))' <=> Gate!Queued(g) /\ g # f
  BY <1>3, <1>4, Removed DEF HeldShortly
<1>6. PICK p \in [DOMAIN (inflight') -> DOMAIN inflight] :
                /\ \A i \in DOMAIN (inflight') : inflight'[i] = inflight[p[i]]
                /\ \A i, k \in DOMAIN (inflight') : i < k => p[i] < p[k]
  BY <1>3, <1>4, Removed DEF HeldShortly
<1>7. /\ DOMAIN (running') = DOMAIN running \ {f}
      /\ \A g \in DOMAIN (running') : running'[g] = running[g]
      /\ running' \in [DOMAIN (running') -> Nat]
  BY <1>3, <1>4
<1>8. /\ cache' \in [Flights -> Answer] /\ cache'[f].left >= 2
      /\ \A g \in Flights \ {f} : cache'[g] = cache[g]
  BY <1>1, <1>2, <1>4 DEF answer
<1>9. GateTypes'
  BY <1>3, <1>5, <1>7, <1>8 DEF HeldShortly, GateTypes
<1>10. /\ MaxInflight \in Nat \ {0} /\ FetchCycles \in Nat \ {0} /\ FetchCycles * Rounds \in Nat
  BY GateConstants, RoundsBound
<1>11. /\ DOMAIN inflight = 1..Len(inflight) /\ DOMAIN (inflight') = 1..Len(inflight')
       /\ Len(inflight') \in Nat
  BY <1>4, <1>5 DEF HeldShortly, GateTypes
<1>12. \A k \in DOMAIN (inflight') : \A i \in 1..(k - 1) :
         i \in DOMAIN (inflight') /\ p[i] \in 1..(p[k] - 1) /\ p[k] \in DOMAIN inflight
  <2>. SUFFICES ASSUME NEW k \in DOMAIN (inflight'), NEW i \in 1..(k - 1)
                PROVE  i \in DOMAIN (inflight') /\ p[i] \in 1..(p[k] - 1) /\ p[k] \in DOMAIN inflight
    OBVIOUS
  <2>1. i \in DOMAIN (inflight') /\ i < k
    BY <1>11
  <2>2. p[i] \in DOMAIN inflight /\ p[k] \in DOMAIN inflight /\ p[i] < p[k]
    BY <1>6, <2>1
  <2>. QED  BY <1>4, <1>11, <2>1, <2>2
<1>13. Lookups'
  <2>1. Len(inflight') <= MaxInflight
    BY <1>4, <1>5, <1>10 DEF HeldShortly, Lookups
  <2>2. ASSUME NEW i \in DOMAIN (inflight'), NEW k \in DOMAIN (inflight'),
               inflight'[i] = inflight'[k]
        PROVE  i = k
    <3>1. p[i] = p[k]
      BY <1>6, <2>2 DEF HeldShortly, Lookups
    <3>2. ~(p[i] < p[k]) /\ ~(p[k] < p[i])
      BY <1>6, <1>11, <3>1
    <3>3. ~(i < k) /\ ~(k < i)
      BY <1>6, <3>2
    <3>. QED  BY <1>11, <3>3
  <2>3. \A g \in DOMAIN (running') : (Gate!Queued(g))' /\ running'[g] <= FetchCycles
    BY <1>5, <1>7 DEF HeldShortly, Lookups
  <2>4. ASSUME NEW k \in DOMAIN (inflight'), inflight'[k] \in DOMAIN (running'),
               NEW i \in 1..(k - 1)
        PROVE  inflight'[i] \in DOMAIN (running')
    <3>1. i \in DOMAIN (inflight') /\ p[i] \in 1..(p[k] - 1) /\ p[k] \in DOMAIN inflight
      BY <1>12
    <3>2. inflight[p[k]] \in DOMAIN running
      BY <1>6, <1>7, <2>4
    <3>3. inflight[p[i]] \in DOMAIN running
      BY <3>1, <3>2 DEF HeldShortly, Lookups
    <3>4. \A x : x = inflight'[i] => (Gate!Queued(x))'
      BY <3>1 DEF Gate!Queued
    <3>5. inflight'[i] # f
      BY <1>5, <3>4
    <3>. QED  BY <1>6, <1>7, <3>1, <3>3, <3>5
  <2>. QED  BY <2>1, <2>2, <2>3, <2>4 DEF Lookups
<1>14. ASSUME NEW g \in Flights
       PROVE  Ahead(g)' \subseteq Ahead(g) /\ \A t : Slower(g, t)' \subseteq Slower(g, t)
  <2>1. ASSUME NEW x \in Flights, NEW k \in DOMAIN (inflight'), inflight'[k] = g,
               NEW i \in 1..(k - 1), inflight'[i] = x
        PROVE  x \in Ahead(g) /\ x # f
    <3>1. i \in DOMAIN (inflight') /\ p[i] \in 1..(p[k] - 1) /\ p[k] \in DOMAIN inflight
      BY <1>12
    <3>2. inflight[p[k]] = g /\ inflight[p[i]] = x
      BY <1>6, <2>1, <3>1
    <3>3. (Gate!Queued(x))'
      BY <2>1, <3>1 DEF Gate!Queued
    <3>. QED  BY <1>5, <3>1, <3>2, <3>3 DEF Ahead
  <2>2. \A x \in Ahead(g)' : x \in Ahead(g) /\ x # f
    BY <2>1 DEF Ahead
  <2>. QED  BY <1>7, <2>2 DEF Slower
<1>15. \A g : \A n : HeldFor(g, n)' = HeldFor(g, n)
  BY <1>3 DEF HeldFor
<1>16. ASSUME NEW g \in Flights, (Gate!Queued(g))', g \notin DOMAIN running'
       PROVE  HeldInLine(g)'
  <2>1. HeldInLine(g)
    BY <1>5, <1>7, <1>16 DEF HeldShortly, HeldWhy
  <2>. QED  BY <1>14, <1>15, <2>1, StaysInLine DEF HeldShortly
<1>17. ASSUME NEW g \in DOMAIN running'
       PROVE  HeldFor(g, FetchCycles * Rounds + running[g])'
  <2>1. HeldFor(g, FetchCycles * Rounds + running[g]) /\ running'[g] = running[g]
    BY <1>7 DEF HeldShortly, HeldWhy
  <2>. QED  BY <1>3, <2>1 DEF HeldFor
<1>18. ASSUME NEW g \in Flights, ~(Gate!Queued(g))'
       PROVE  /\ held'[g] > 0 => cache'[g].left >= IF g \in due' THEN 1 ELSE 2
              /\ held'[g] <= FetchCycles * Rounds + FetchCycles + 1
  <2>1. CASE g = f
    <3>1. held[f] <= FetchCycles * Rounds + running[f] + 1
      BY <1>3, <1>4, <1>10 DEF HeldShortly, HeldWhy, HeldFor
    <3>2. cache'[f].left \in Nat
      BY <1>8 DEF Answer
    <3>. QED  BY <1>3, <1>4, <1>8, <1>10, <2>1, <3>1, <3>2
  <2>2. CASE g # f
    BY <1>3, <1>5, <1>8, <1>18, <2>2 DEF HeldShortly, HeldWhy
  <2>. QED  BY <2>1, <2>2
<1>. QED  BY <1>9, <1>13, <1>16, <1>17, <1>18 DEF HeldShortly, HeldWhy

\* While a lookup waits, MaxConcurrent lookups run, all of them before it.
LEMMA RunningAhead ==
    ASSUME Gate!RouteAssumption, GateTypes, Lookups, NEW f \in Flights, Gate!Queued(f),
           f \notin DOMAIN running, Gate!Slots => Gate!Waiting = {}
    PROVE  /\ DOMAIN running \subseteq Ahead(f)
           /\ Cardinality(Ahead(f) \ DOMAIN running) + MaxConcurrent <= Cardinality(Ahead(f))
<1>1. PICK m \in DOMAIN inflight : inflight[m] = f
  BY DEF Gate!Queued
<1>2. m \in Gate!Waiting
  BY <1>1 DEF Gate!Waiting
<1>3. ~(Cardinality(DOMAIN running) < MaxConcurrent)
  <2>1. Gate!Waiting # {}
    BY <1>2
  <2>2. ~Gate!Slots
    BY <2>1
  <2>. QED  BY <2>2, GateCardinality DEF Gate!Slots
<1>4. ASSUME NEW g \in DOMAIN running
      PROVE  g \in Ahead(f)
  <2>1. PICK k \in DOMAIN inflight : inflight[k] = g
    BY <1>4 DEF Lookups, Gate!Queued
  <2>2. DOMAIN inflight = 1..Len(inflight) /\ Len(inflight) \in Nat /\ g \in Flights
    BY <2>1 DEF GateTypes
  <2>3. m \notin 1..(k - 1)
    BY <1>1, <1>4, <2>1 DEF Lookups
  <2>4. k # m
    BY <1>1, <1>4, <2>1
  <2>5. k \in 1..(m - 1)
    BY <1>1, <2>1, <2>2, <2>3, <2>4
  <2>. QED  BY <1>1, <2>1, <2>2, <2>5 DEF Ahead
<1>5. DOMAIN running \subseteq Ahead(f) /\ Ahead(f) \cap DOMAIN running = DOMAIN running
  BY <1>4
<1>6. /\ IsFiniteSet(Ahead(f)) /\ Cardinality(Ahead(f)) \in Nat
      /\ Cardinality(DOMAIN running) \in Nat
  BY <1>5, AheadFinite
<1>7. Cardinality(Ahead(f) \ DOMAIN running)
        = Cardinality(Ahead(f)) - Cardinality(Ahead(f) \cap DOMAIN running)
  BY <1>6, FS_Difference
<1>8. MaxConcurrent \in Nat
  BY GateConstants
<1>9. Cardinality(Ahead(f) \ DOMAIN running) = Cardinality(Ahead(f)) - Cardinality(DOMAIN running)
  BY <1>5, <1>7
<1>10. Cardinality(Ahead(f) \ DOMAIN running) + MaxConcurrent <= Cardinality(Ahead(f))
  <2>. DEFINE x == Cardinality(Ahead(f) \ DOMAIN running)
              y == Cardinality(Ahead(f))
              z == Cardinality(DOMAIN running)
  <2>1. x = y - z /\ y \in Nat /\ z \in Nat /\ ~(z < MaxConcurrent)
    BY <1>3, <1>6, <1>9
  <2>. HIDE DEF x, y, z
  <2>2. x + MaxConcurrent <= y
    BY <1>8, <2>1
  <2>. QED  BY <2>2 DEF x, y
<1>. QED  BY <1>5, <1>10

\* A cycle in line counts towards the round of those that run.
LEMMA TickInLine ==
    ASSUME Gate!RouteAssumption, HeldShortly, Gate!Tick, NEW f \in Flights,
           Gate!Queued(f), f \notin DOMAIN running
    PROVE  HeldInLine(f)'
<1>1. /\ due = {} /\ due' = Flights /\ UNCHANGED <<inflight, held>>
      /\ \A g \in DOMAIN running : running[g] < FetchCycles
      /\ Gate!Slots => Gate!Waiting = {}
      /\ running' = [g \in DOMAIN running |-> running[g] + 1]
  BY DEF Gate!Tick
<1>2. /\ MaxInflight \in Nat /\ MaxConcurrent \in Nat /\ FetchCycles \in Nat \ {0}
      /\ held[f] \in Nat
  BY GateConstants DEF HeldShortly, GateTypes
<1>3. /\ DOMAIN running \subseteq Ahead(f)
      /\ Cardinality(Ahead(f) \ DOMAIN running) + MaxConcurrent <= Cardinality(Ahead(f))
  BY <1>1, RunningAhead DEF HeldShortly
<1>4. \A b \in Nat : HeldFor(f, b) => HeldFor(f, b + 1)'
  BY <1>1, <1>2 DEF HeldFor
<1>5. /\ DOMAIN (running') = DOMAIN running
      /\ \A g \in DOMAIN running : running'[g] = running[g] + 1 /\ running[g] \in Nat
  BY <1>1 DEF HeldShortly, GateTypes
<1>6. Ahead(f)' = Ahead(f)
  BY <1>1 DEF Ahead
<1>7. Slower(f, 1)' = Ahead(f) \ DOMAIN running
  BY <1>5, <1>6 DEF Slower
<1>8. \A t \in 1..FetchCycles : Slower(f, t + 1)' = Slower(f, t)
  BY <1>5, <1>6 DEF Slower
<1>9. Slower(f, FetchCycles) = Ahead(f)
  BY <1>1 DEF Slower
<1>10. /\ Cardinality(Ahead(f)) \in Nat /\ Cardinality(Ahead(f) \ DOMAIN running) \in Nat
       /\ \A t : Cardinality(Slower(f, t)) \in Nat
  BY AheadFinite DEF HeldShortly, Slower
<1>11. \A i \in Nat : /\ i * MaxConcurrent \in Nat /\ i * FetchCycles \in Nat
                      /\ (i + 1) * MaxConcurrent = i * MaxConcurrent + MaxConcurrent
                      /\ (i + 1) * FetchCycles = i * FetchCycles + FetchCycles
  BY <1>2
<1>12. PICK j \in Nat :
        \/ /\ HeldFor(f, j * FetchCycles)
           /\ Cardinality(Ahead(f)) + j * MaxConcurrent <= MaxInflight - 1
        \/ \E t \in 1..FetchCycles :
             /\ HeldFor(f, j * FetchCycles + t)
             /\ Cardinality(Slower(f, t)) + (j + 1) * MaxConcurrent <= MaxInflight - 1
  BY DEF HeldShortly, HeldWhy, HeldInLine
<1>13. ASSUME NEW i \in Nat, HeldFor(f, i * FetchCycles),
              Cardinality(Ahead(f)) + i * MaxConcurrent <= MaxInflight - 1
       PROVE  HeldInLine(f)'
  <2>1. HeldFor(f, i * FetchCycles + 1)'
    BY <1>4, <1>11, <1>13
  <2>2. Cardinality(Slower(f, 1)') + (i + 1) * MaxConcurrent <= MaxInflight - 1
    <3>. DEFINE x == Cardinality(Ahead(f) \ DOMAIN running)
                y == Cardinality(Ahead(f))
                a == i * MaxConcurrent
    <3>1. /\ x \in Nat /\ y \in Nat /\ a \in Nat /\ x + MaxConcurrent <= y
          /\ y + a <= MaxInflight - 1 /\ (i + 1) * MaxConcurrent = a + MaxConcurrent
      BY <1>3, <1>10, <1>11, <1>13
    <3>. HIDE DEF x, y, a
    <3>2. x + (a + MaxConcurrent) <= MaxInflight - 1
      BY <1>2, <3>1
    <3>. QED  BY <1>7, <3>1, <3>2 DEF x
  <2>3. 1 \in 1..FetchCycles
    BY <1>2
  <2>. QED  BY <2>1, <2>2, <2>3 DEF HeldInLine
<1>14. ASSUME NEW t \in 1..FetchCycles, HeldFor(f, j * FetchCycles + t),
              Cardinality(Slower(f, t)) + (j + 1) * MaxConcurrent <= MaxInflight - 1
       PROVE  HeldInLine(f)'
  <2>1. CASE t = FetchCycles
    <3>1. j + 1 \in Nat /\ HeldFor(f, (j + 1) * FetchCycles)
          /\ Cardinality(Ahead(f)) + (j + 1) * MaxConcurrent <= MaxInflight - 1
      BY <1>9, <1>11, <1>14, <2>1
    <3>. QED  BY <1>13, <3>1
  <2>2. CASE t # FetchCycles
    <3>1. t + 1 \in 1..FetchCycles /\ j * FetchCycles + t \in Nat
          /\ j * FetchCycles + (t + 1) = (j * FetchCycles + t) + 1
      BY <1>2, <1>11, <2>2
    <3>2. HeldFor(f, j * FetchCycles + (t + 1))'
      BY <1>4, <1>14, <3>1
    <3>3. Cardinality(Slower(f, t + 1)') + (j + 1) * MaxConcurrent <= MaxInflight - 1
      BY <1>8, <1>14
    <3>. QED  BY <3>1, <3>2, <3>3 DEF HeldInLine
  <2>. QED  BY <2>1, <2>2
<1>. QED  BY <1>12, <1>13, <1>14

LEMMA TickGate ==
    ASSUME Gate!RouteAssumption, HeldShortly, Gate!Tick
    PROVE  HeldShortly'
<1>1. /\ due = {} /\ due' = Flights /\ UNCHANGED <<inflight, held>>
      /\ \A g \in DOMAIN running : running[g] < FetchCycles
      /\ running' = [g \in DOMAIN running |-> running[g] + 1]
      /\ cache' = [f \in Flights |-> IF cache[f].left <= 1 THEN Gate!Unknown
                                     ELSE [cache[f] EXCEPT !.left = @ - 1]]
  BY DEF Gate!Tick
<1>2. /\ cache \in [Flights -> Answer] /\ held \in [Flights -> Nat]
      /\ running \in [DOMAIN running -> Nat] /\ DOMAIN running \subseteq Flights
  BY DEF HeldShortly, GateTypes, Lookups, Gate!Queued
<1>3. /\ FetchCycles \in Nat \ {0} /\ FetchCycles * Rounds \in Nat
  BY GateConstants, RoundsBound
<1>4. /\ DOMAIN (running') = DOMAIN running /\ running' \in [DOMAIN (running') -> Nat]
      /\ \A g \in DOMAIN running : running'[g] = running[g] + 1 /\ running[g] \in Nat
  BY <1>1, <1>2
<1>5. ASSUME NEW f \in Flights
      PROVE  cache'[f] \in Answer /\ (cache[f].left >= 2 => cache'[f].left = cache[f].left - 1)
  <2>1. Gate!Unknown \in Answer /\ cache[f] \in Answer /\ cache[f].left \in Nat
    BY <1>2 DEF Gate!Unknown, Answer, States
  <2>2. CASE cache[f].left <= 1
    BY <1>1, <2>1, <2>2
  <2>3. CASE ~(cache[f].left <= 1)
    <3>1. cache'[f] = [cache[f] EXCEPT !.left = @ - 1] /\ cache[f].left - 1 \in Nat
      BY <1>1, <2>1, <2>3
    <3>. QED  BY <2>1, <3>1 DEF Answer
  <2>. QED  BY <2>2, <2>3
<1>6. GateTypes'
  BY <1>1, <1>4, <1>5 DEF HeldShortly, GateTypes
<1>7. \A f : (Gate!Queued(f))' = Gate!Queued(f)
  BY <1>1 DEF Gate!Queued
<1>8. Lookups'
  <2>1. \A f \in DOMAIN (running') : (Gate!Queued(f))' /\ running'[f] <= FetchCycles
    BY <1>1, <1>3, <1>4, <1>7 DEF HeldShortly, Lookups
  <2>. QED  BY <1>1, <1>4, <2>1 DEF HeldShortly, Lookups
<1>9. \A f \in Flights : (Gate!Queued(f))' /\ f \notin DOMAIN (running') => HeldInLine(f)'
  BY <1>4, <1>7, TickInLine
<1>10. ASSUME NEW f \in DOMAIN running'
       PROVE  HeldFor(f, FetchCycles * Rounds + running[f])'
  <2>1. held[f] <= (FetchCycles * Rounds + running[f]) + 1
    BY <1>1, <1>4 DEF HeldShortly, HeldWhy, HeldFor
  <2>2. f \in due' /\ running'[f] = running[f] + 1 /\ running[f] \in Nat /\ held[f] \in Nat
    BY <1>1, <1>2, <1>4
  <2>. QED  BY <1>1, <1>3, <2>1, <2>2 DEF HeldFor
<1>11. ASSUME NEW f \in Flights, ~(Gate!Queued(f))'
       PROVE  /\ held'[f] > 0 => cache'[f].left >= IF f \in due' THEN 1 ELSE 2
              /\ held'[f] <= FetchCycles * Rounds + FetchCycles + 1
  <2>1. /\ held[f] > 0 => cache[f].left >= 2
        /\ held[f] <= FetchCycles * Rounds + FetchCycles + 1
    BY <1>1, <1>7, <1>11 DEF HeldShortly, HeldWhy
  <2>2. cache[f].left \in Nat
    BY <1>2 DEF Answer
  <2>. QED  BY <1>1, <1>5, <2>1, <2>2
<1>. QED  BY <1>6, <1>8, <1>9, <1>10, <1>11 DEF HeldShortly, HeldWhy

LEMMA HeldShortlyNext ==
    ASSUME Gate!RouteAssumption, HeldShortly, [Gate!Next]_(Gate!vars)
    PROVE  HeldShortly'
<1>1. CASE UNCHANGED Gate!vars
  <2>1. UNCHANGED <<cache, inflight, running, due, held>>
    BY <1>1 DEF Gate!vars
  <2>2. \A f : /\ (Gate!Queued(f))' = Gate!Queued(f) /\ Ahead(f)' = Ahead(f)
              /\ \A b : HeldFor(f, b)' = HeldFor(f, b)
    BY <2>1 DEF Gate!Queued, Ahead, HeldFor
  <2>3. \A f : \A t : Slower(f, t)' = Slower(f, t)
    BY <2>1, <2>2 DEF Slower
  <2>4. \A f : HeldInLine(f) => HeldInLine(f)'
    BY <2>2, <2>3 DEF HeldInLine
  <2>5. GateTypes' /\ Lookups'
    BY <2>1, <2>2 DEF HeldShortly, GateTypes, Lookups
  <2>6. HeldWhy'
    <3>1. \A f \in DOMAIN running : HeldFor(f, FetchCycles * Rounds + running[f])'
      BY <2>1 DEF HeldShortly, HeldWhy, HeldFor
    <3>. QED  BY <2>1, <2>2, <2>4, <3>1 DEF HeldShortly, HeldWhy
  <2>. QED  BY <2>5, <2>6 DEF HeldShortly
<1>2. CASE Gate!Next
  BY <1>2, EvaluateGate, FetchStartGate, FetchEndGate, TickGate DEF Gate!Next
<1>. QED  BY <1>1, <1>2

\* A candidate whose route is not known is held for a bounded number of cycles,
\* as long as the queue and its workers may take, whatever else is looked up.
THEOREM HeldBriefly ==
    Gate!RouteAssumption => (Gate!Spec => []Gate!HoldBounded)
<1>. SUFFICES ASSUME Gate!RouteAssumption
              PROVE  Gate!Spec => []Gate!HoldBounded
  OBVIOUS
<1>1. Gate!Init => HeldShortly
  BY GateInit
<1>2. HeldShortly /\ [Gate!Next]_(Gate!vars) => HeldShortly'
  BY HeldShortlyNext
<1>3. HeldShortly => Gate!HoldBounded
  BY HeldShortlyBounded
<1>. QED  BY <1>1, <1>2, <1>3, PTL DEF Gate!Spec

-----------------------------------------------------------------------------
(* The polling of the regions: the inductive invariants.                    *)

\* A snapshot with aircraft is as old as the last sight of aircraft; one
\* without follows a silence that was long enough.
SkyFits(snaps, seen) ==
  /\ DOMAIN seen \subseteq DOMAIN snaps
  /\ \A k \in DOMAIN snaps : snaps[k] \in Polling!Snapshot
  /\ \A k \in DOMAIN seen : seen[k] \in 0..Polling!AgeCap
  /\ \A k \in DOMAIN snaps : snaps[k].aircraft => k \in DOMAIN seen /\ seen[k] = snaps[k].age
  /\ \A k \in DOMAIN seen : ~snaps[k].aircraft => seen[k] > Continuity

SkyKnown == SkyFits(snap, sighted) /\ Polling!ViewHonest /\ Polling!SkyNotBlanked

Span == Polling!Max({CycleLength, Cardinality(Homes)})

\* What a user may have waited for, by whether the region was visited.
Waits(u) ==
  /\ since[u] = Polling!Never \/ since[u] = waited[u]
  /\ waited[u] <= Delay[u] - 1 + (IF todo = Polling!Idle THEN Span
                                  ELSE IF Polling!Region(home[u]) \in todo THEN spent + Span
                                  ELSE spent)

PollTypes ==
  /\ home \in [Users -> Homes \cup {Polling!Nowhere}] /\ spent \in Nat
  /\ since \in [Users -> Nat \cup {Polling!Never}] /\ waited \in [Users -> Nat]

\* A region takes a tick at most, and there are no more regions than homes.
CycleFits ==
  /\ todo = Polling!Idle => spent = 0
  /\ todo # Polling!Idle =>
       /\ todo \subseteq Polling!LiveKeys /\ IsFiniteSet(todo)
       /\ paused \cap Polling!Active \subseteq excused
       /\ spent + Cardinality(todo) <= Cardinality(Homes)

EachInTime ==
  /\ PollTypes /\ CycleFits
  /\ \A u \in Polling!Active \ excused : Waits(u)

-----------------------------------------------------------------------------
LEMMA PollingMin ==
    ASSUME NEW a \in Int, NEW b \in Int
    PROVE  Polling!Min({a, b}) = IF a <= b THEN a ELSE b
BY DEF Polling!Min

LEMMA PollingMax ==
    ASSUME NEW a \in Int, NEW b \in Int
    PROVE  Polling!Max({a, b}) = IF a <= b THEN b ELSE a
BY DEF Polling!Max

LEMMA PollingSets ==
    \A S : Polling!Cardinality(S) = Cardinality(S) /\ (Polling!IsFiniteSet(S) <=> IsFiniteSet(S))
<1>1. \A S : Polling!Cardinality(S) = Cardinality(S)
  BY DEF Polling!Cardinality, Cardinality
<1>2. \A S : Polling!IsFiniteSet(S) <=> IsFiniteSet(S)
  BY DEF Polling!IsFiniteSet, IsFiniteSet
<1>. QED  BY <1>1, <1>2

LEMMA PollConstants ==
    ASSUME Polling!PollingAssumption
    PROVE  /\ Polling!AgeCap \in Nat /\ Polling!AgeCap = Continuity + 2 /\ Polling!Budget = 1
           /\ {CycleLength, Hot, Discovery, HotHold, Continuity} \subseteq Nat \ {0}
           /\ Hot <= Continuity /\ Discovery <= Continuity
           /\ IsFiniteSet(Homes) /\ Cardinality(Homes) \in Nat
           /\ Span \in Nat /\ Span >= CycleLength /\ Span >= Cardinality(Homes)
           /\ \A u \in Users : /\ Delay[u] \in Nat \ {0} /\ Polling!Bound(u) \in Nat
                               /\ Polling!Bound(u) = Delay[u] - 1 + Span + Cardinality(Homes) - 1
<1>1. /\ {CycleLength, Hot, Discovery, HotHold, Continuity} \subseteq Nat \ {0}
      /\ Hot <= Continuity /\ Discovery <= Continuity /\ IsFiniteSet(Homes)
      /\ \A u \in Users : Delay[u] \in Nat \ {0}
  BY PollingSets DEF Polling!PollingAssumption
<1>2. Cardinality(Homes) \in Nat
  BY <1>1, FS_CardinalityType
<1>3. Span \in Nat /\ Span >= CycleLength /\ Span >= Cardinality(Homes)
  BY <1>1, <1>2, PollingMax DEF Span
<1>4. \A u \in Users : Polling!Bound(u) = Delay[u] - 1 + Span + Cardinality(Homes) - 1
  BY PollingSets DEF Polling!Bound, Span
<1>5. \A u \in Users : Polling!Bound(u) \in Nat
  <2>. HIDE DEF Span
  <2>. QED  BY <1>1, <1>2, <1>3, <1>4
<1>6. Polling!AgeCap \in Nat /\ Polling!AgeCap = Continuity + 2 /\ Polling!Budget = 1
  BY <1>1 DEF Polling!AgeCap, Polling!Budget
<1>. QED  BY <1>1, <1>2, <1>3, <1>4, <1>5, <1>6

LEMMA OlderIs ==
    ASSUME Polling!PollingAssumption, NEW a \in 0..Polling!AgeCap, NEW d \in Nat
    PROVE  /\ Polling!Older(a, d) \in 0..Polling!AgeCap
           /\ Polling!Older(a, d) = IF a + d <= Polling!AgeCap THEN a + d ELSE Polling!AgeCap
           /\ a <= Polling!Older(a, d) /\ Polling!Older(a, d) <= a + d
BY PollConstants, PollingMin DEF Polling!Older

-----------------------------------------------------------------------------
(* What is shown.                                                           *)

\* Time passes for a snapshot and for the sight it goes back to alike.
LEMMA SkyElapses ==
    ASSUME Polling!PollingAssumption, NEW snaps, NEW seen, SkyFits(snaps, seen), NEW d \in Nat,
           NEW started, NEW evaluated, Polling!Elapse(d, snaps, started, seen, evaluated)
    PROVE  SkyFits(snap, sighted)'
<1>1. /\ DOMAIN (snap') = DOMAIN snaps /\ DOMAIN (sighted') = DOMAIN seen
      /\ \A k \in DOMAIN snaps : snap'[k] = [snaps[k] EXCEPT !.age = Polling!Older(@, d),
                                                            !.hot = Polling!Cooler(@, d)]
      /\ \A k \in DOMAIN seen : sighted'[k] = Polling!Older(seen[k], d)
  BY DEF Polling!Elapse
<1>2. ASSUME NEW k \in DOMAIN snaps
      PROVE  /\ snap'[k] \in Polling!Snapshot /\ snap'[k].aircraft = snaps[k].aircraft
             /\ snap'[k].age = Polling!Older(snaps[k].age, d)
  <2>1. /\ snaps[k] \in Polling!Snapshot /\ snaps[k].age \in 0..Polling!AgeCap
        /\ snaps[k].hot \in 0..HotHold
    BY DEF SkyFits, Polling!Snapshot
  <2>2. Polling!Cooler(snaps[k].hot, d) \in 0..HotHold
    BY <2>1, PollConstants, PollingMax DEF Polling!Cooler
  <2>3. Polling!Older(snaps[k].age, d) \in 0..Polling!AgeCap
    BY <2>1, OlderIs
  <2>. QED  BY <1>1, <2>1, <2>2, <2>3 DEF Polling!Snapshot
<1>3. ASSUME NEW k \in DOMAIN seen
      PROVE  /\ sighted'[k] \in 0..Polling!AgeCap
             /\ seen[k] > Continuity => sighted'[k] > Continuity
  <2>1. seen[k] \in 0..Polling!AgeCap
    BY DEF SkyFits
  <2>2. /\ Polling!Older(seen[k], d) \in 0..Polling!AgeCap
        /\ Polling!Older(seen[k], d) >= seen[k]
    BY <2>1, OlderIs
  <2>3. Continuity \in Nat /\ Polling!AgeCap \in Nat
    BY PollConstants
  <2>4. sighted'[k] = Polling!Older(seen[k], d)
    BY <1>1
  <2>5. seen[k] > Continuity => Polling!Older(seen[k], d) > Continuity
    BY <2>1, <2>2, <2>3
  <2>6. sighted'[k] \in 0..Polling!AgeCap
    BY <2>2, <2>4
  <2>7. seen[k] > Continuity => sighted'[k] > Continuity
    BY <2>5, <2>4
  <2>. QED  BY <2>6, <2>7
<1>. QED  BY <1>1, <1>2, <1>3 DEF SkyFits

LEMMA PromotedFits ==
    ASSUME Polling!PollingAssumption, NEW snaps, NEW seen, SkyFits(snaps, seen), NEW k
    PROVE  /\ SkyFits(Polling!Promoted(k, snaps), seen)
           /\ DOMAIN Polling!Promoted(k, snaps) = DOMAIN snaps
           /\ \A l \in DOMAIN snaps : /\ Polling!Promoted(k, snaps)[l].age = snaps[l].age
                                      /\ Polling!Promoted(k, snaps)[l].aircraft = snaps[l].aircraft
<1>. DEFINE p == Polling!Promoted(k, snaps)
<1>1. /\ DOMAIN p = DOMAIN snaps
      /\ \A l \in DOMAIN snaps : p[l] = snaps[l] \/ p[l] = [snaps[l] EXCEPT !.hot = HotHold]
  BY DEF Polling!Promoted
<1>2. \A l \in DOMAIN snaps : p[l] \in Polling!Snapshot /\ p[l].age = snaps[l].age
                              /\ p[l].aircraft = snaps[l].aircraft
  <2>1. HotHold \in 0..HotHold
    BY PollConstants
  <2>. HIDE DEF p
  <2>. QED  BY <1>1, <2>1 DEF SkyFits, Polling!Snapshot
<1>. HIDE DEF p
<1>3. SkyFits(p, seen)
  BY <1>1, <1>2 DEF SkyFits
<1>. QED  BY <1>1, <1>2, <1>3 DEF p

\* What an evaluation works with fits what was polled.
LEMMA SkyEvaluated ==
    ASSUME Polling!PollingAssumption, NEW snaps, NEW seen, SkyFits(snaps, seen), NEW d \in 0..1,
           NEW k, NEW aircraft \in BOOLEAN, NEW stated \in Nat,
           Polling!Evaluate(k, d, snaps, seen, aircraft, stated),
           aircraft => /\ k \in DOMAIN seen
                       /\ Polling!Older(seen[k], d) <= Continuity + 1
                       /\ Polling!Older(seen[k], d) <= stated + 1,
           ~aircraft => Polling!Unseen(k, d) > Continuity
    PROVE  SkyKnown'
<1>1. \/ Polling!Elapse(d, Polling!Promoted(k, snaps), Polling!Started(k, d), seen, Polling!Due(k))
      \/ Polling!Elapse(d, snaps, since, seen, Polling!Due(k))
  BY DEF Polling!Evaluate
<1>2. SkyFits(snap, sighted)'
  BY <1>1, PromotedFits, SkyElapses
<1>3. view' = [aircraft |-> aircraft, stated |-> stated, unseen |-> Polling!Unseen(k, d),
               true |-> IF aircraft THEN (IF k \in DOMAIN seen THEN Polling!Older(seen[k], d)
                                          ELSE Polling!AgeCap) ELSE 0]
  BY DEF Polling!Evaluate
<1>4. Continuity \in Nat /\ Polling!Budget = 1
  BY PollConstants
<1>5. Polling!ViewHonest'
  BY <1>3, <1>4 DEF Polling!ViewHonest
<1>6. Polling!SkyNotBlanked'
  BY <1>3 DEF Polling!SkyNotBlanked
<1>. QED  BY <1>2, <1>5, <1>6 DEF SkyKnown

\* How long ago aircraft were seen, by what the snapshot says.
LEMMA UnseenIs ==
    ASSUME Polling!PollingAssumption, SkyKnown, NEW k, NEW d \in 0..1
    PROVE  /\ ~Polling!Has(k) => Polling!Unseen(k, d) > Continuity
           /\ Polling!Has(k) =>
                /\ snap[k].age \in 0..Polling!AgeCap /\ snap[k].aircraft \in BOOLEAN
                /\ ~snap[k].aircraft => Polling!Unseen(k, d) > Continuity
                /\ snap[k].aircraft =>
                     /\ k \in DOMAIN sighted /\ sighted[k] = snap[k].age
                     /\ Polling!Unseen(k, d) = Polling!Older(snap[k].age, d)
<1>1. Continuity \in Nat /\ Polling!AgeCap = Continuity + 2
  BY PollConstants
<1>2. CASE k \in DOMAIN sighted
  <2>1. k \in DOMAIN snap /\ sighted[k] \in 0..Polling!AgeCap /\ snap[k] \in Polling!Snapshot
    BY <1>2 DEF SkyKnown, SkyFits
  <2>2. Polling!Unseen(k, d) = Polling!Older(sighted[k], d) /\ Polling!Older(sighted[k], d) >= sighted[k]
        /\ Polling!Older(sighted[k], d) \in Nat
    BY <1>2, <2>1, OlderIs DEF Polling!Unseen
  <2>. QED  BY <1>1, <1>2, <2>1, <2>2 DEF SkyKnown, SkyFits, Polling!Has, Polling!Snapshot
<1>3. CASE k \notin DOMAIN sighted
  <2>1. Polling!Unseen(k, d) = Polling!AgeCap
    BY <1>3 DEF Polling!Unseen
  <2>. QED  BY <1>1, <1>3, <2>1 DEF SkyKnown, SkyFits, Polling!Has, Polling!Snapshot
<1>. QED  BY <1>2, <1>3

LEMMA SkyVisited ==
    ASSUME Polling!PollingAssumption, SkyKnown, NEW k, Polling!Visit(k)
    PROVE  SkyKnown'
<1>1. /\ Continuity \in Nat /\ Polling!Budget = 1 /\ Polling!AgeCap = Continuity + 2
      /\ {Hot, Discovery, HotHold} \subseteq Nat /\ Hot <= Continuity /\ Discovery <= Continuity
  BY PollConstants
<1>2. CASE Polling!Skip(k)
  BY <1>2 DEF Polling!Skip, SkyKnown, SkyFits, Polling!ViewHonest, Polling!SkyNotBlanked
<1>3. CASE Polling!Reuse(k)
  <2>1. /\ Polling!Has(k) /\ k \in DOMAIN snap
        /\ \/ Polling!Promoted(k, snap)[k].age < Hot \/ Polling!Promoted(k, snap)[k].age < Discovery
    BY <1>3 DEF Polling!Reuse, Polling!CacheHit, Polling!Has
  <2>2. SkyFits(Polling!Promoted(k, snap), sighted) /\ Polling!Promoted(k, snap)[k].age = snap[k].age
    BY <2>1, PromotedFits DEF SkyKnown
  <2>3. snap[k].age \in 0..Polling!AgeCap /\ snap[k].age <= Continuity /\ snap[k].aircraft \in BOOLEAN
        /\ 0 \in 0..1 /\ snap[k].age \in Nat
    BY <1>1, <2>1, <2>2, UnseenIs
  <2>4. Polling!Older(snap[k].age, 0) <= snap[k].age
    BY <2>3, OlderIs
  <2>5. Polling!Evaluate(k, 0, Polling!Promoted(k, snap), sighted, snap[k].aircraft, snap[k].age)
    BY <1>3 DEF Polling!Reuse
  <2>6. ~snap[k].aircraft => Polling!Unseen(k, 0) > Continuity
    BY <2>1, <2>3, UnseenIs
  <2>7. snap[k].aircraft => /\ k \in DOMAIN sighted
                            /\ Polling!Older(sighted[k], 0) <= Continuity + 1
                            /\ Polling!Older(sighted[k], 0) <= snap[k].age + 1
    <3>1. Polling!Older(snap[k].age, 0) \in Int
      BY <2>3, OlderIs
    <3>2. snap[k].aircraft => k \in DOMAIN sighted /\ sighted[k] = snap[k].age
      BY <2>1, <2>3, UnseenIs
    <3>. QED  BY <1>1, <2>3, <2>4, <3>1, <3>2
  <2>. QED  BY <2>2, <2>3, <2>5, <2>6, <2>7, SkyEvaluated
<1>4. CASE Polling!Stagger(k)
  <2>1. ~Polling!Has(k) /\ Polling!Evaluate(k, 0, snap, sighted, FALSE, 0)
    BY <1>4 DEF Polling!Stagger, Polling!Staggered
  <2>2. 0 \in 0..1 /\ 0 \in Nat /\ FALSE \in BOOLEAN
    OBVIOUS
  <2>3. Polling!Unseen(k, 0) > Continuity
    BY <2>1, <2>2, UnseenIs
  <2>. QED  BY <2>1, <2>2, <2>3, SkyEvaluated DEF SkyKnown
<1>5. ASSUME NEW d \in 0..1, NEW warm \in BOOLEAN, Polling!Fetch(k, d, warm)
      PROVE  SkyKnown'
  <2>. DEFINE s == [age |-> 0, hot |-> IF warm THEN HotHold ELSE 0, aircraft |-> TRUE]
              snaps == Polling!With(snap, k, s)
              seen == Polling!With(sighted, k, 0)
  <2>1. Polling!Evaluate(k, d, snaps, seen, TRUE, 0)
    BY <1>5 DEF Polling!Fetch
  <2>2. s \in Polling!Snapshot /\ s.aircraft /\ s.age = 0 /\ 0 \in 0..Polling!AgeCap
    BY <1>1 DEF Polling!Snapshot
  <2>. HIDE DEF s
  <2>3. SkyFits(snaps, seen) /\ k \in DOMAIN seen /\ seen[k] = 0
    BY <2>2 DEF SkyKnown, SkyFits, Polling!With
  <2>. HIDE DEF snaps, seen
  <2>4. Polling!Older(0, d) <= 1 /\ Polling!Older(0, d) \in Int
    BY <2>2, OlderIs
  <2>5. Polling!Older(seen[k], d) <= Continuity + 1 /\ Polling!Older(seen[k], d) <= 0 + 1
    BY <1>1, <2>3, <2>4
  <2>6. TRUE \in BOOLEAN /\ 0 \in Nat
    OBVIOUS
  <2>. QED  BY <2>1, <2>3, <2>5, <2>6, SkyEvaluated
<1>6. ASSUME NEW d \in 0..1, Polling!Blank(k, d)
      PROVE  SkyKnown'
  <2>1. CASE Polling!Continues(k, snap[k].age)
    <3>1. Polling!Evaluate(k, d, Polling!Promoted(k, snap), sighted, TRUE, snap[k].age)
      BY <1>6, <2>1 DEF Polling!Blank
    <3>2. Polling!Has(k) /\ snap[k].aircraft /\ snap[k].age <= Continuity
      BY <2>1 DEF Polling!Continues
    <3>3. snap[k].age \in 0..Polling!AgeCap /\ snap[k].age \in Nat
          /\ k \in DOMAIN sighted /\ sighted[k] = snap[k].age
      BY <3>2, UnseenIs
    <3>4. Polling!Older(sighted[k], d) <= snap[k].age + 1 /\ Polling!Older(sighted[k], d) \in Int
      <4>1. d \in Nat /\ d <= 1
        OBVIOUS
      <4>2. /\ Polling!Older(snap[k].age, d) <= snap[k].age + d
            /\ Polling!Older(snap[k].age, d) \in 0..Polling!AgeCap
        BY <3>3, <4>1, OlderIs
      <4>. QED  BY <1>1, <3>3, <4>1, <4>2
    <3>5. Polling!Older(sighted[k], d) <= Continuity + 1 /\ Polling!Older(sighted[k], d) <= snap[k].age + 1
      BY <1>1, <3>2, <3>3, <3>4
    <3>. QED  BY <3>1, <3>3, <3>5, PromotedFits, SkyEvaluated DEF SkyKnown
  <2>2. CASE ~Polling!Continues(k, snap[k].age)
    <3>. DEFINE s == [age |-> 0, hot |-> 0, aircraft |-> FALSE]
                snaps == Polling!With(snap, k, s)
    <3>1. Polling!Evaluate(k, d, snaps, sighted, FALSE, 0)
      BY <1>6, <2>2 DEF Polling!Blank
    <3>2. s \in Polling!Snapshot /\ ~s.aircraft
      BY <1>1 DEF Polling!Snapshot
    <3>. HIDE DEF s
    <3>3. k \in DOMAIN sighted => sighted[k] > Continuity
      <4>1. CASE k \in DOMAIN sighted
        <5>1. /\ k \in DOMAIN snap /\ snap[k] \in Polling!Snapshot
              /\ snap[k].aircraft => sighted[k] = snap[k].age
              /\ ~snap[k].aircraft => sighted[k] > Continuity
          BY <4>1 DEF SkyKnown, SkyFits
        <5>2. snap[k].age \in Int
          BY <1>1, <5>1 DEF Polling!Snapshot
        <5>3. snap[k].aircraft => ~(snap[k].age <= Continuity)
          BY <2>2, <5>1 DEF Polling!Continues, Polling!Has
        <5>. QED  BY <1>1, <5>1, <5>2, <5>3
      <4>. QED  BY <4>1
    <3>4. SkyFits(snaps, sighted)
      BY <3>2, <3>3 DEF SkyKnown, SkyFits, Polling!With
    <3>. HIDE DEF snaps
    <3>5. Polling!Unseen(k, d) > Continuity
      <4>1. CASE k \in DOMAIN sighted
        <5>1. sighted[k] \in 0..Polling!AgeCap
          BY <4>1 DEF SkyKnown, SkyFits
        <5>2. d \in Nat /\ Polling!Older(sighted[k], d) \in Int
              /\ Polling!Older(sighted[k], d) >= sighted[k]
          BY <5>1, OlderIs
        <5>. QED  BY <1>1, <3>3, <4>1, <5>1, <5>2 DEF Polling!Unseen
      <4>2. CASE k \notin DOMAIN sighted
        BY <1>1, <4>2 DEF Polling!Unseen
      <4>. QED  BY <4>1, <4>2
    <3>6. FALSE \in BOOLEAN /\ 0 \in Nat
      OBVIOUS
    <3>. QED  BY <3>1, <3>4, <3>5, <3>6, SkyEvaluated
  <2>. QED  BY <2>1, <2>2
<1>7. CASE Polling!CutOff(k)
  <2>. DEFINE o == Polling!Older(snap[k].age, 1)
  <2>1. CASE Polling!Continues(k, o)
    <3>1. Polling!Evaluate(k, 1, Polling!Promoted(k, snap), sighted, TRUE, o)
      BY <1>1, <1>7, <2>1 DEF Polling!CutOff
    <3>2. Polling!Has(k) /\ snap[k].aircraft /\ o <= Continuity
      BY <2>1 DEF Polling!Continues
    <3>3. snap[k].age \in 0..Polling!AgeCap /\ k \in DOMAIN sighted /\ sighted[k] = snap[k].age
      BY <3>2, UnseenIs
    <3>4. 1 \in Nat /\ 1 \in 0..1 /\ TRUE \in BOOLEAN
      OBVIOUS
    <3>6. o \in 0..Polling!AgeCap
      BY <3>3, <3>4, OlderIs
    <3>7. o \in Nat
      BY <1>1, <3>6
    <3>5. Polling!Older(sighted[k], 1) <= Continuity + 1 /\ Polling!Older(sighted[k], 1) <= o + 1
      BY <1>1, <3>2, <3>3, <3>7
    <3>8. SkyFits(Polling!Promoted(k, snap), sighted)
      BY PromotedFits DEF SkyKnown
    <3>. HIDE DEF o
    <3>. QED  BY <3>1, <3>3, <3>4, <3>5, <3>7, <3>8, SkyEvaluated DEF SkyKnown
  <2>2. CASE ~Polling!Continues(k, o)
    <3>1. Polling!Evaluate(k, 1, Polling!Promoted(k, snap), sighted, FALSE, 0)
      BY <1>1, <1>7, <2>2 DEF Polling!CutOff
    <3>2. Polling!Unseen(k, 1) > Continuity
      <4>1. CASE Polling!Has(k) /\ snap[k].aircraft
        <5>1. snap[k].age \in 0..Polling!AgeCap /\ Polling!Unseen(k, 1) = o
          BY <4>1, UnseenIs
        <5>2. o \in Nat
          BY <5>1, OlderIs
        <5>3. ~(o <= Continuity)
          BY <2>2, <4>1 DEF Polling!Continues
        <5>. QED  BY <1>1, <5>1, <5>2, <5>3
      <4>2. CASE ~(Polling!Has(k) /\ snap[k].aircraft)
        BY <4>2, UnseenIs
      <4>. QED  BY <4>1, <4>2
    <3>3. 1 \in 0..1 /\ FALSE \in BOOLEAN /\ 0 \in Nat
      OBVIOUS
    <3>4. SkyFits(Polling!Promoted(k, snap), sighted)
      BY PromotedFits DEF SkyKnown
    <3>. QED  BY <3>1, <3>2, <3>3, <3>4, SkyEvaluated
  <2>. QED  BY <2>1, <2>2
<1>. QED  BY <1>1, <1>2, <1>3, <1>4, <1>5, <1>6, <1>7 DEF Polling!Visit

\* The sky through a step of the cycle or of the settings.
LEMMA SkyNext ==
    ASSUME Polling!PollingAssumption, SkyKnown, spent \in Nat, [Polling!Next]_(Polling!vars)
    PROVE  SkyKnown'
<1>1. Continuity \in Nat /\ Polling!AgeCap = Continuity + 2 /\ Polling!Budget = 1 /\ CycleLength \in Nat
  BY PollConstants
<1>2. CASE Polling!Begin
  <2>1. /\ snap' = Polling!Keep(snap, Polling!LiveKeys) /\ sighted' = Polling!Keep(sighted, Polling!LiveKeys)
        /\ view' = view
    BY <1>2 DEF Polling!Begin
  <2>2. SkyFits(snap, sighted)'
    BY <2>1 DEF SkyKnown, SkyFits, Polling!Keep
  <2>. QED  BY <2>1, <2>2 DEF SkyKnown, Polling!ViewHonest, Polling!SkyNotBlanked
<1>3. CASE Polling!BeginEmpty
  <2>1. Polling!Elapse(CycleLength, snap, since, sighted, {}) /\ view' = view
    BY <1>3 DEF Polling!BeginEmpty
  <2>2. SkyFits(snap, sighted)'
    BY <1>1, <2>1, SkyElapses DEF SkyKnown
  <2>. QED  BY <2>1, <2>2 DEF SkyKnown, Polling!ViewHonest, Polling!SkyNotBlanked
<1>4. CASE Polling!End
  <2>. DEFINE d == Polling!Max({CycleLength - spent, 0})
  <2>1. Polling!Elapse(d, snap, since, sighted, {}) /\ view' = Polling!NoView
    BY <1>4 DEF Polling!End
  <2>2. d \in Nat
    BY <1>1, PollingMax
  <2>. HIDE DEF d
  <2>3. SkyFits(snap, sighted)'
    BY <2>1, <2>2, SkyElapses DEF SkyKnown
  <2>. QED  BY <1>1, <2>1, <2>3 DEF SkyKnown, Polling!ViewHonest, Polling!SkyNotBlanked, Polling!NoView
<1>5. ASSUME NEW k, Polling!Visit(k)
      PROVE  SkyKnown'
  BY <1>5, SkyVisited
<1>6. ASSUME NEW u, Polling!Move(u) \/ Polling!Pause(u)
      PROVE  SkyKnown'
  BY <1>6 DEF Polling!Move, Polling!Pause, SkyKnown, SkyFits, Polling!ViewHonest, Polling!SkyNotBlanked
<1>7. CASE UNCHANGED Polling!vars
  BY <1>7 DEF Polling!vars, SkyKnown, SkyFits, Polling!ViewHonest, Polling!SkyNotBlanked
<1>. QED  BY <1>2, <1>3, <1>4, <1>5, <1>6, <1>7 DEF Polling!Next, Polling!Cycle

-----------------------------------------------------------------------------
(* When each user is evaluated.                                             *)

\* The regions of a cycle: no more of them than homes, and each active user
\* in exactly one.
LEMMA LiveRegions ==
    ASSUME Polling!PollingAssumption, PollTypes
    PROVE  /\ IsFiniteSet(Polling!LiveKeys) /\ Cardinality(Polling!LiveKeys) \in Nat
           /\ Cardinality(Polling!LiveKeys) <= Cardinality(Homes)
           /\ {} \notin Polling!LiveKeys
           /\ \A u \in Polling!Active : Polling!Region(home[u]) \in Polling!LiveKeys /\ home[u] \in Homes
           /\ \A u \in Polling!Active, k \in Polling!LiveKeys :
                u \in Polling!Members(k) <=> Polling!Region(home[u]) = k
<1>1. {} \notin Polling!LiveKeys
  BY DEF Polling!LiveKeys
<1>2. ASSUME NEW u \in Polling!Active
      PROVE  /\ home[u] \in Homes /\ u \in Users /\ <<u, home[u]>> \in Polling!Region(home[u])
             /\ Polling!Region(home[u]) \in Polling!LiveKeys
  <2>1. home[u] \in Homes /\ u \in Users
    BY DEF Polling!Active, PollTypes
  <2>2. <<u, home[u]>> \in Polling!Region(home[u])
    BY <2>1 DEF Polling!Region
  <2>. QED  BY <2>1, <2>2 DEF Polling!LiveKeys
<1>3. ASSUME NEW u \in Polling!Active, NEW k \in Polling!LiveKeys
      PROVE  u \in Polling!Members(k) <=> Polling!Region(home[u]) = k
  <2>1. PICK h \in Homes : k = Polling!Region(h)
    BY DEF Polling!LiveKeys
  <2>2. u \in Polling!Members(k) <=> home[u] = h
    <3>1. \A p \in k : p[1] \in Users /\ home[p[1]] = h
      BY <2>1 DEF Polling!Region
    <3>2. home[u] = h => <<u, h>> \in k /\ <<u, h>>[1] = u
      BY <2>1, <1>2 DEF Polling!Region
    <3>. QED  BY <3>1, <3>2 DEF Polling!Members
  <2>3. home[u] # h => Polling!Region(home[u]) # k
    <3>1. <<u, home[u]>> \in Polling!Region(home[u])
      BY <1>2
    <3>2. home[u] # h => <<u, home[u]>> \notin k
      BY <2>1 DEF Polling!Region
    <3>. QED  BY <3>1, <3>2
  <2>. QED  BY <2>1, <2>2, <2>3
<1>. DEFINE all == {Polling!Region(h) : h \in Homes}
            f == [h \in Homes |-> Polling!Region(h)]
<1>4. IsFiniteSet(Homes)
  BY PollConstants
<1>5. f \in Surjection(Homes, all)
  BY DEF Surjection
<1>6. IsFiniteSet(all) /\ Cardinality(all) <= Cardinality(Homes)
  <2>. HIDE DEF f, all
  <2>. QED  BY <1>4, <1>5, FS_Surjection
<1>7. Polling!LiveKeys \subseteq all
  BY DEF Polling!LiveKeys
<1>8. IsFiniteSet(Polling!LiveKeys) /\ Cardinality(Polling!LiveKeys) <= Cardinality(all)
  <2>. HIDE DEF all
  <2>. QED  BY <1>6, <1>7, FS_Subset
<1>9. Cardinality(Homes) \in Nat /\ Cardinality(all) \in Nat /\ Cardinality(Polling!LiveKeys) \in Nat
  <2>. HIDE DEF all
  <2>. QED  BY <1>4, <1>6, <1>8, FS_CardinalityType
<1>. HIDE DEF all, f
<1>10. Cardinality(Polling!LiveKeys) <= Cardinality(Homes)
  BY <1>6, <1>8, <1>9
<1>. QED  BY <1>1, <1>2, <1>3, <1>8, <1>9, <1>10

\* The two clocks of a user keep together.
LEMMA TimesElapse ==
    ASSUME Polling!PollingAssumption, NEW d \in Nat, NEW snaps, NEW seen, NEW evaluated,
           NEW started \in [Users -> Nat \cup {Polling!Never}], waited \in [Users -> Nat],
           Polling!Elapse(d, snaps, started, seen, evaluated)
    PROVE  /\ since' \in [Users -> Nat \cup {Polling!Never}] /\ waited' \in [Users -> Nat]
           /\ \A u \in Users :
                /\ waited'[u] <= (IF u \in evaluated THEN 0 ELSE waited[u]) + d
                /\ started[u] = Polling!Never => since'[u] = Polling!Never
                /\ started[u] = (IF u \in evaluated THEN 0 ELSE waited[u]) => since'[u] = waited'[u]
<1>1. /\ since' = [u \in Users |-> IF started[u] = Polling!Never THEN Polling!Never
                                  ELSE Polling!Min({started[u] + d, Polling!Bound(u) + 1})]
      /\ waited' = [u \in Users |-> Polling!Min({(IF u \in evaluated THEN 0 ELSE waited[u]) + d,
                                                Polling!Bound(u) + 1})]
  BY DEF Polling!Elapse
<1>2. \A u \in Users : Polling!Bound(u) \in Nat
  BY PollConstants
<1>3. \A n \in Nat : n # Polling!Never
  BY DEF Polling!Never
<1>4. ASSUME NEW u \in Users
      PROVE  /\ since'[u] \in Nat \cup {Polling!Never} /\ waited'[u] \in Nat
             /\ waited'[u] <= (IF u \in evaluated THEN 0 ELSE waited[u]) + d
             /\ started[u] = Polling!Never => since'[u] = Polling!Never
             /\ started[u] = (IF u \in evaluated THEN 0 ELSE waited[u]) => since'[u] = waited'[u]
  <2>. DEFINE w == IF u \in evaluated THEN 0 ELSE waited[u]
  <2>1. w \in Nat /\ w + d \in Int /\ Polling!Bound(u) + 1 \in Nat
    BY <1>2
  <2>2. waited'[u] = Polling!Min({w + d, Polling!Bound(u) + 1})
    BY <1>1
  <2>. HIDE DEF w
  <2>3. waited'[u] \in Nat /\ waited'[u] <= w + d
    BY <2>1, <2>2, PollingMin
  <2>4. CASE started[u] = Polling!Never
    BY <1>1, <1>3, <2>1, <2>3, <2>4 DEF w
  <2>5. CASE started[u] # Polling!Never
    <3>1. started[u] \in Nat /\ since'[u] = Polling!Min({started[u] + d, Polling!Bound(u) + 1})
      BY <1>1, <2>5
    <3>2. started[u] + d \in Int /\ started[u] + d >= 0
      BY <3>1
    <3>3. since'[u] \in Nat
      BY <2>1, <3>1, <3>2, PollingMin
    <3>4. started[u] = w => since'[u] = waited'[u]
      BY <2>2, <3>1
    <3>. QED  BY <2>3, <2>5, <3>3, <3>4 DEF w
  <2>. QED  BY <2>4, <2>5
<1>5. since' \in [Users -> Nat \cup {Polling!Never}] /\ waited' \in [Users -> Nat]
  BY <1>1, <1>4
<1>. QED  BY <1>4, <1>5

\* A visited region that is not evaluated has nobody who waits for it.
LEMMA VisitKeepsTime ==
    ASSUME Polling!PollingAssumption, EachInTime, NEW k, Polling!Visits(k), NEW d \in 0..1,
           NEW done, done \in {{}, Polling!Due(k)},
           done = {} => Polling!Due(k) = {} \/ Polling!Due(k) \subseteq excused',
           home' = home, paused' = paused, todo' = todo \ {k}, spent' = spent + d,
           since' \in [Users -> Nat \cup {Polling!Never}], waited' \in [Users -> Nat],
           excused \ Polling!Due(k) \subseteq excused',
           \A u \in Users :
             /\ u \in done => waited'[u] <= d /\ since'[u] = waited'[u]
             /\ u \notin Polling!Due(k) => /\ waited'[u] <= waited[u] + d
                                           /\ since[u] = Polling!Never => since'[u] = Polling!Never
                                           /\ since[u] = waited[u] => since'[u] = waited'[u]
    PROVE  EachInTime'
<1>1. /\ PollTypes /\ CycleFits /\ todo # Polling!Idle /\ k \in todo
      /\ \A u \in Polling!Active \ excused : Waits(u)
  BY DEF EachInTime, Polling!Visits
<1>2. /\ todo \subseteq Polling!LiveKeys /\ IsFiniteSet(todo) /\ paused \cap Polling!Active \subseteq excused
      /\ spent + Cardinality(todo) <= Cardinality(Homes)
  BY <1>1 DEF CycleFits
<1>3. spent \in Nat /\ Cardinality(Homes) \in Nat /\ Span \in Nat /\ \A u \in Users : Delay[u] \in Nat \ {0}
  BY <1>1, PollConstants DEF PollTypes
<1>4. Polling!LiveKeys' = Polling!LiveKeys /\ Polling!Active' = Polling!Active
      /\ \A u : Polling!Region(home[u])' = Polling!Region(home[u])
  BY DEF Polling!LiveKeys, Polling!Active, Polling!Region
<1>5. PollTypes'
  BY <1>1, <1>3 DEF PollTypes
<1>6. todo' # Polling!Idle
  BY <1>1, <1>2, LiveRegions DEF Polling!Idle
<1>7. CycleFits'
  <2>1. IsFiniteSet(todo') /\ Cardinality(todo') = Cardinality(todo) - 1
        /\ Cardinality(todo) \in Nat /\ Cardinality(todo') \in Nat
    BY <1>1, <1>2, FS_RemoveElement, FS_CardinalityType
  <2>2. paused \cap Polling!Due(k) = {}
    BY DEF Polling!Due
  <2>3. (paused \cap Polling!Active \subseteq excused)'
    BY <1>2, <1>4, <2>2
  <2>4. spent' + Cardinality(todo') <= Cardinality(Homes)
    BY <1>2, <1>3, <2>1
  <2>5. todo' \subseteq Polling!LiveKeys'
    BY <1>2, <1>4
  <2>. QED  BY <1>6, <2>1, <2>3, <2>4, <2>5 DEF CycleFits
<1>8. ASSUME NEW u \in Polling!Active, u \notin excused'
      PROVE  Waits(u)'
  <2>1. u \in Users /\ Delay[u] \in Nat \ {0} /\ waited[u] \in Nat /\ waited'[u] \in Nat
        /\ since[u] \in Nat \cup {Polling!Never}
    BY <1>1, <1>3 DEF Polling!Active, PollTypes
  <2>2. u \in Polling!Members(k) <=> Polling!Region(home[u]) = k
    BY <1>1, <1>2, LiveRegions
  <2>. DEFINE bound == Delay[u] - 1 + (IF Polling!Region(home[u]) \in todo' THEN spent' + Span ELSE spent')
  <2>3. SUFFICES (since'[u] = Polling!Never \/ since'[u] = waited'[u]) /\ waited'[u] <= bound
    BY <1>4, <1>6 DEF Waits
  <2>4. bound \in Int /\ bound >= Delay[u] - 1 + spent + d
    BY <1>3, <2>1
  <2>5. CASE u \in Polling!Due(k)
    <3>1. u \in done
      BY <1>8, <2>5
    <3>2. waited'[u] <= d /\ since'[u] = waited'[u]
      BY <2>1, <3>1
    <3>. HIDE DEF bound
    <3>. QED  BY <1>3, <2>1, <2>4, <3>2
  <2>6. CASE u \notin Polling!Due(k)
    <3>1. u \notin excused /\ Waits(u) /\ u \notin paused
      BY <1>1, <1>2, <1>8, <2>6
    <3>2. (since'[u] = Polling!Never \/ since'[u] = waited'[u]) /\ waited'[u] <= waited[u] + d
      BY <2>1, <2>6, <3>1 DEF Waits
    <3>3. CASE Polling!Region(home[u]) = k
      <4>1. since[u] # Polling!Never /\ ~(since[u] >= Delay[u])
        BY <2>2, <2>6, <3>1, <3>3 DEF Polling!Due
      <4>2. since[u] = waited[u] /\ waited[u] <= Delay[u] - 1
        BY <2>1, <3>1, <4>1 DEF Waits
      <4>. HIDE DEF bound
      <4>. QED  BY <1>3, <2>1, <2>4, <3>2, <4>2
    <3>4. CASE Polling!Region(home[u]) # k
      <4>1. Polling!Region(home[u]) \in todo' <=> Polling!Region(home[u]) \in todo
        BY <3>4
      <4>2. waited[u] <= Delay[u] - 1 + (IF Polling!Region(home[u]) \in todo THEN spent + Span ELSE spent)
        BY <1>1, <3>1 DEF Waits
      <4>. QED  BY <1>3, <2>1, <3>2, <4>1, <4>2
    <3>. QED  BY <3>3, <3>4
  <2>. QED  BY <2>5, <2>6
<1>. QED  BY <1>4, <1>5, <1>7, <1>8 DEF EachInTime

LEMMA TimeEvaluated ==
    ASSUME Polling!PollingAssumption, EachInTime, NEW k, Polling!Visits(k), NEW d \in 0..1,
           NEW snaps, NEW seen, NEW aircraft, NEW stated,
           Polling!Evaluate(k, d, snaps, seen, aircraft, stated)
    PROVE  EachInTime'
<1>1. /\ todo' = todo \ {k} /\ spent' = spent + d /\ home' = home /\ paused' = paused /\ d \in Nat
  BY DEF Polling!Evaluate
<1>2. since \in [Users -> Nat \cup {Polling!Never}] /\ waited \in [Users -> Nat]
  BY DEF EachInTime, PollTypes
<1>3. 0 # Polling!Never /\ 0 \in Nat
  BY DEF Polling!Never
<1>4. CASE /\ excused' = excused \ Polling!Due(k)
           /\ Polling!Elapse(d, Polling!Promoted(k, snaps), Polling!Started(k, d), seen, Polling!Due(k))
  <2>1. /\ Polling!Started(k, d) \in [Users -> Nat \cup {Polling!Never}]
        /\ \A u \in Users : Polling!Started(k, d)[u] = IF u \in Polling!Due(k) THEN 0 ELSE since[u]
    BY <1>2, <1>3 DEF Polling!Started
  <2>2. /\ since' \in [Users -> Nat \cup {Polling!Never}] /\ waited' \in [Users -> Nat]
        /\ \A u \in Users :
             /\ waited'[u] <= (IF u \in Polling!Due(k) THEN 0 ELSE waited[u]) + d
             /\ Polling!Started(k, d)[u] = Polling!Never => since'[u] = Polling!Never
             /\ Polling!Started(k, d)[u] = (IF u \in Polling!Due(k) THEN 0 ELSE waited[u])
                  => since'[u] = waited'[u]
    BY <1>1, <1>2, <1>4, <2>1, TimesElapse
  <2>3. \A u \in Users :
          /\ u \in Polling!Due(k) => waited'[u] <= d /\ since'[u] = waited'[u]
          /\ u \notin Polling!Due(k) => /\ waited'[u] <= waited[u] + d
                                        /\ since[u] = Polling!Never => since'[u] = Polling!Never
                                        /\ since[u] = waited[u] => since'[u] = waited'[u]
    BY <2>1, <2>2
  <2>4. excused \ Polling!Due(k) \subseteq excused'
    BY <1>4
  <2>. QED  BY <1>1, <2>2, <2>3, <2>4, VisitKeepsTime
<1>5. CASE /\ excused' = excused \cup Polling!Due(k)
           /\ Polling!Elapse(d, snaps, since, seen, Polling!Due(k))
  <2>1. /\ since' \in [Users -> Nat \cup {Polling!Never}] /\ waited' \in [Users -> Nat]
        /\ \A u \in Users :
             /\ waited'[u] <= (IF u \in Polling!Due(k) THEN 0 ELSE waited[u]) + d
             /\ since[u] = Polling!Never => since'[u] = Polling!Never
             /\ since[u] = (IF u \in Polling!Due(k) THEN 0 ELSE waited[u]) => since'[u] = waited'[u]
    BY <1>1, <1>2, <1>5, TimesElapse
  <2>2. \A u \in Users :
          /\ u \in {} => waited'[u] <= d /\ since'[u] = waited'[u]
          /\ u \notin Polling!Due(k) => /\ waited'[u] <= waited[u] + d
                                        /\ since[u] = Polling!Never => since'[u] = Polling!Never
                                        /\ since[u] = waited[u] => since'[u] = waited'[u]
    BY <2>1
  <2>3. excused \ Polling!Due(k) \subseteq excused' /\ Polling!Due(k) \subseteq excused'
    BY <1>5
  <2>. QED  BY <1>1, <2>1, <2>2, <2>3, VisitKeepsTime
<1>. QED  BY <1>4, <1>5 DEF Polling!Evaluate

LEMMA TimeNext ==
    ASSUME Polling!PollingAssumption, EachInTime, [Polling!Next]_(Polling!vars)
    PROVE  EachInTime'
<1>. USE DEF EachInTime
<1>1. /\ Polling!Budget = 1 /\ CycleLength \in Nat /\ Span \in Nat /\ Span >= CycleLength
      /\ Cardinality(Homes) \in Nat /\ Span >= Cardinality(Homes) /\ \A u \in Users : Delay[u] \in Nat \ {0}
  BY PollConstants
<1>2. spent \in Nat /\ since \in [Users -> Nat \cup {Polling!Never}] /\ waited \in [Users -> Nat]
  BY DEF PollTypes
<1>3. CASE Polling!Begin
  <2>1. /\ todo = Polling!Idle /\ spent' = spent /\ spent = 0 /\ todo' = Polling!LiveKeys /\ home' = home
        /\ paused' = paused /\ waited' = waited /\ excused' = (excused \cap Polling!Active) \cup paused
        /\ since' = [u \in Users |-> IF u \in Polling!Active THEN since[u] ELSE Polling!Never]
    BY <1>3 DEF Polling!Begin, CycleFits
  <2>2. /\ Polling!LiveKeys' = Polling!LiveKeys /\ Polling!Active' = Polling!Active
        /\ \A u : Polling!Region(home[u])' = Polling!Region(home[u])
    BY <2>1 DEF Polling!LiveKeys, Polling!Active, Polling!Region
  <2>3. todo' # Polling!Idle
    BY <2>1, LiveRegions DEF Polling!Idle
  <2>4. PollTypes'
    BY <2>1 DEF PollTypes
  <2>5. CycleFits'
    <3>1. spent' + Cardinality(todo') <= Cardinality(Homes)
      BY <1>1, <2>1, LiveRegions
    <3>. QED  BY <2>1, <2>2, <2>3, <3>1, LiveRegions DEF CycleFits
  <2>6. ASSUME NEW u \in Polling!Active, u \notin excused'
        PROVE  Waits(u)'
    <3>1. u \notin excused /\ u \in Users /\ since'[u] = since[u] /\ Waits(u)
      BY <2>1, <2>6 DEF Polling!Active
    <3>2. Polling!Region(home[u])' \in todo'
      BY <2>1, <2>2, LiveRegions
    <3>3. waited[u] \in Nat /\ Delay[u] \in Nat /\ waited[u] <= Delay[u] - 1 + Span
      BY <1>1, <1>2, <2>1, <3>1 DEF Waits
    <3>. QED  BY <1>1, <2>1, <2>3, <3>1, <3>2, <3>3 DEF Waits
  <2>. QED  BY <2>2, <2>4, <2>5, <2>6
<1>4. CASE Polling!BeginEmpty
  <2>1. /\ Polling!Active = {} /\ todo = Polling!Idle /\ home' = home /\ todo' = todo /\ spent' = spent
        /\ Polling!Elapse(CycleLength, snap, since, sighted, {})
    BY <1>4 DEF Polling!BeginEmpty
  <2>2. since' \in [Users -> Nat \cup {Polling!Never}] /\ waited' \in [Users -> Nat]
    BY <1>1, <1>2, <2>1, TimesElapse
  <2>. QED  BY <2>1, <2>2 DEF PollTypes, CycleFits, Polling!Active
<1>5. CASE Polling!End
  <2>. DEFINE d == Polling!Max({CycleLength - spent, 0})
  <2>1. /\ todo = {} /\ todo' = Polling!Idle /\ spent' = 0 /\ home' = home /\ excused' = excused
        /\ Polling!Elapse(d, snap, since, sighted, {})
    BY <1>5 DEF Polling!End
  <2>2. d \in Nat /\ d = IF CycleLength <= spent THEN 0 ELSE CycleLength - spent
    BY <1>1, <1>2, PollingMax
  <2>3. todo # Polling!Idle
    BY <2>1 DEF Polling!Idle
  <2>4. spent <= Cardinality(Homes)
    BY <1>1, <1>2, <2>1, <2>3, FS_EmptySet DEF CycleFits
  <2>. HIDE DEF d
  <2>5. /\ since' \in [Users -> Nat \cup {Polling!Never}] /\ waited' \in [Users -> Nat]
        /\ \A u \in Users : /\ waited'[u] <= (IF u \in {} THEN 0 ELSE waited[u]) + d
                            /\ since[u] = Polling!Never => since'[u] = Polling!Never
                            /\ since[u] = (IF u \in {} THEN 0 ELSE waited[u]) => since'[u] = waited'[u]
    BY <1>2, <2>1, <2>2, TimesElapse
  <2>6. PollTypes' /\ CycleFits'
    BY <2>1, <2>5 DEF PollTypes, CycleFits
  <2>7. Polling!Active' = Polling!Active
    BY <2>1 DEF Polling!Active
  <2>8. ASSUME NEW u \in Polling!Active, u \notin excused'
        PROVE  Waits(u)'
    <3>1. u \in Users /\ Waits(u) /\ waited[u] \in Nat /\ waited'[u] \in Nat /\ Delay[u] \in Nat
      BY <1>1, <1>2, <2>1, <2>5, <2>8 DEF Polling!Active
    <3>2. waited[u] <= Delay[u] - 1 + spent
      BY <2>1, <2>3, <3>1 DEF Waits
    <3>3. waited'[u] <= Delay[u] - 1 + Span
      BY <1>1, <1>2, <2>2, <2>4, <2>5, <3>1, <3>2
    <3>4. since'[u] = Polling!Never \/ since'[u] = waited'[u]
      BY <2>5, <3>1 DEF Waits
    <3>. QED  BY <2>1, <3>3, <3>4 DEF Waits
  <2>. QED  BY <2>6, <2>7, <2>8
<1>6. ASSUME NEW k, Polling!Visit(k)
      PROVE  EachInTime'
  <2>1. CASE Polling!Skip(k)
    <3>1. /\ Polling!Visits(k) /\ Polling!Due(k) = {} /\ todo' = todo \ {k} /\ spent' = spent /\ home' = home
          /\ paused' = paused /\ since' = since /\ waited' = waited /\ excused' = excused
      BY <2>1 DEF Polling!Skip
    <3>2. 0 \in 0..1 /\ spent' = spent + 0 /\ {} \in {{}, Polling!Due(k)}
          /\ excused \ Polling!Due(k) \subseteq excused'
      BY <1>2, <3>1
    <3>3. \A u \in Users :
            /\ u \in {} => waited'[u] <= 0 /\ since'[u] = waited'[u]
            /\ u \notin Polling!Due(k) => /\ waited'[u] <= waited[u] + 0
                                          /\ since[u] = Polling!Never => since'[u] = Polling!Never
                                          /\ since[u] = waited[u] => since'[u] = waited'[u]
      BY <1>2, <3>1
    <3>. QED  BY <1>2, <3>1, <3>2, <3>3, VisitKeepsTime
  <2>2. CASE Polling!Reuse(k)
    <3>. 0 \in 0..1
      OBVIOUS
    <3>. QED  BY <2>2, TimeEvaluated DEF Polling!Reuse
  <2>3. CASE Polling!Stagger(k)
    <3>. 0 \in 0..1
      OBVIOUS
    <3>. QED  BY <2>3, TimeEvaluated DEF Polling!Stagger
  <2>4. CASE Polling!CutOff(k)
    <3>. 1 \in 0..1
      OBVIOUS
    <3>. QED  BY <1>1, <2>4, TimeEvaluated DEF Polling!CutOff, Polling!Asks
  <2>5. ASSUME NEW d \in 0..1, Polling!Blank(k, d)
        PROVE  EachInTime'
    BY <2>5, TimeEvaluated DEF Polling!Blank, Polling!Asks
  <2>6. ASSUME NEW d \in 0..1, NEW warm, Polling!Fetch(k, d, warm)
        PROVE  EachInTime'
    BY <2>6, TimeEvaluated DEF Polling!Fetch, Polling!Asks
  <2>. QED  BY <1>1, <1>6, <2>1, <2>2, <2>3, <2>4, <2>5, <2>6 DEF Polling!Visit
<1>7. ASSUME NEW v, Polling!Move(v)
      PROVE  EachInTime'
  <2>1. /\ todo = Polling!Idle /\ todo' = todo /\ spent' = spent /\ since' = since /\ waited' = waited
        /\ excused' = excused \cup {v} /\ home' \in [Users -> Homes \cup {Polling!Nowhere}]
        /\ \A u \in Users \ {v} : home'[u] = home[u]
    BY <1>7 DEF Polling!Move, PollTypes
  <2>2. PollTypes' /\ CycleFits'
    BY <2>1 DEF PollTypes, CycleFits
  <2>3. ASSUME NEW u \in Polling!Active', u \notin excused'
        PROVE  Waits(u)'
    BY <2>1, <2>3 DEF Polling!Active, Waits
  <2>. QED  BY <2>2, <2>3
<1>8. ASSUME NEW v, Polling!Pause(v)
      PROVE  EachInTime'
  BY <1>8 DEF Polling!Pause, PollTypes, CycleFits, Polling!Active, Waits
<1>9. CASE UNCHANGED Polling!vars
  <2>1. /\ home' = home /\ paused' = paused /\ since' = since /\ todo' = todo /\ spent' = spent
        /\ waited' = waited /\ excused' = excused
    BY <1>9 DEF Polling!vars
  <2>2. /\ Polling!LiveKeys' = Polling!LiveKeys /\ Polling!Active' = Polling!Active
        /\ \A u : Polling!Region(home[u])' = Polling!Region(home[u])
    BY <2>1 DEF Polling!LiveKeys, Polling!Active, Polling!Region
  <2>3. PollTypes' /\ CycleFits'
    BY <2>1, <2>2 DEF PollTypes, CycleFits
  <2>4. ASSUME NEW u \in Polling!Active, u \notin excused
        PROVE  Waits(u)'
    BY <2>1, <2>2, <2>4 DEF Waits
  <2>. QED  BY <2>1, <2>2, <2>3, <2>4
<1>. QED  BY <1>3, <1>4, <1>5, <1>6, <1>7, <1>8, <1>9 DEF Polling!Next, Polling!Cycle

LEMMA PollStart ==
    ASSUME Polling!PollingAssumption, Polling!Init
    PROVE  EachInTime /\ SkyKnown
<1>1. /\ Continuity \in Nat /\ Polling!AgeCap = Continuity + 2 /\ Polling!Budget = 1
      /\ Span \in Nat /\ \A u \in Users : Delay[u] \in Nat \ {0}
  BY PollConstants
<1>2. SkyFits(snap, sighted)
  BY DEF Polling!Init, SkyFits
<1>3. Polling!ViewHonest /\ Polling!SkyNotBlanked
  BY <1>1 DEF Polling!Init, Polling!NoView, Polling!ViewHonest, Polling!SkyNotBlanked
<1>4. PollTypes /\ CycleFits
  BY DEF Polling!Init, PollTypes, CycleFits
<1>5. \A u \in Polling!Active : Waits(u)
  BY <1>1 DEF Polling!Init, Polling!Active, Waits
<1>. QED  BY <1>2, <1>3, <1>4, <1>5 DEF SkyKnown, EachInTime

\* Who has to be evaluated has not waited longer than the bound.
LEMMA InTime ==
    ASSUME Polling!PollingAssumption, EachInTime
    PROVE  Polling!EvaluatedInTime
<1>1. SUFFICES ASSUME NEW u \in Polling!Active, u \notin excused
               PROVE  waited[u] <= Polling!Bound(u)
  BY DEF Polling!EvaluatedInTime
<1>2. /\ u \in Users /\ Waits(u) /\ PollTypes /\ CycleFits
      /\ home[u] \in Homes /\ waited[u] \in Nat /\ spent \in Nat
  BY <1>1, LiveRegions DEF EachInTime, PollTypes, Polling!Active
<1>3. /\ Polling!Bound(u) = Delay[u] - 1 + Span + Cardinality(Homes) - 1 /\ Delay[u] \in Nat
      /\ Span \in Nat /\ Span >= Cardinality(Homes) /\ Cardinality(Homes) \in Nat /\ IsFiniteSet(Homes)
  BY <1>2, PollConstants
<1>4. Cardinality(Homes) >= 1
  BY <1>2, <1>3, FS_EmptySet
<1>5. CASE todo = Polling!Idle
  BY <1>2, <1>3, <1>4, <1>5 DEF Waits
<1>6. CASE todo # Polling!Idle
  <2>1. IsFiniteSet(todo) /\ spent + Cardinality(todo) <= Cardinality(Homes) /\ Cardinality(todo) \in Nat
    BY <1>2, <1>6, FS_CardinalityType DEF CycleFits
  <2>2. CASE Polling!Region(home[u]) \in todo
    <3>1. Cardinality(todo) # 0
      BY <2>1, <2>2, FS_EmptySet
    <3>2. waited[u] <= Delay[u] - 1 + spent + Span
      BY <1>2, <1>6, <2>2, <1>3 DEF Waits
    <3>. QED  BY <1>2, <1>3, <2>1, <3>1, <3>2
  <2>3. CASE Polling!Region(home[u]) \notin todo
    <3>1. waited[u] <= Delay[u] - 1 + spent
      BY <1>2, <1>6, <2>3 DEF Waits
    <3>. QED  BY <1>2, <1>3, <1>4, <2>1, <3>1
  <2>. QED  BY <2>2, <2>3
<1>. QED  BY <1>5, <1>6

LEMMA PollingKept ==
    ASSUME Polling!PollingAssumption
    PROVE  Polling!Spec => [](EachInTime /\ SkyKnown)
<1>1. Polling!Init => EachInTime /\ SkyKnown
  BY PollStart
<1>2. EachInTime /\ SkyKnown /\ [Polling!Next]_(Polling!vars) => (EachInTime /\ SkyKnown)'
  BY SkyNext, TimeNext DEF EachInTime, PollTypes
<1>. QED  BY <1>1, <1>2, PTL DEF Polling!Spec

\* What users see of the sky is as old as it says, give or take one poll, and
\* is never emptied by feeds that answer nothing for a while.
THEOREM SkyAsPromised ==
    Polling!PollingAssumption => (Polling!Spec => [](Polling!ViewHonest /\ Polling!SkyNotBlanked))
<1>. SUFFICES ASSUME Polling!PollingAssumption
              PROVE  Polling!Spec => [](Polling!ViewHonest /\ Polling!SkyNotBlanked)
  OBVIOUS
<1>1. EachInTime /\ SkyKnown => Polling!ViewHonest /\ Polling!SkyNotBlanked
  BY DEF SkyKnown
<1>. QED  BY <1>1, PollingKept, PTL

\* Nobody waits longer for an evaluation than the delay and one cycle more.
THEOREM InTimeForEach ==
    Polling!PollingAssumption => (Polling!Spec => []Polling!EvaluatedInTime)
<1>. SUFFICES ASSUME Polling!PollingAssumption
              PROVE  Polling!Spec => []Polling!EvaluatedInTime
  OBVIOUS
<1>1. EachInTime => Polling!EvaluatedInTime
  BY InTime
<1>. QED  BY <1>1, PollingKept, PTL

-----------------------------------------------------------------------------
(* The rotation of the feeds: the inductive invariant.                      *)

\* What the guard has counted for a new source, the aircraft has shown in a row.
Counted(a) ==
  /\ guard[a].count \in Nat /\ streak[a].n \in Nat
  /\ guard[a].count > 0 => streak[a].source = guard[a].pending /\ streak[a].n >= guard[a].count

InARow ==
  /\ guard = [a \in Aircraft |-> [stable |-> guard[a].stable, pending |-> guard[a].pending,
                                  count |-> guard[a].count]]
  /\ streak = [a \in Aircraft |-> [source |-> streak[a].source, n |-> streak[a].n]]
  /\ \A a \in Aircraft : Counted(a)

\* A switch of the source of an aircraft, as SwitchConfirmed forbids it.
Confirmed(a) ==
  guard[a].stable # Rotation!NoSource /\ guard'[a].stable \notin {Rotation!NoSource, guard[a].stable}
    => streak'[a] = [source |-> guard'[a].stable, n |-> Confirmations]

-----------------------------------------------------------------------------
LEMMA RotationMin ==
    ASSUME NEW a \in Int, NEW b \in Int
    PROVE  Rotation!Min({a, b}) = IF a <= b THEN a ELSE b
BY DEF Rotation!Min

\* A merged answer of one feed, for one aircraft.
LEMMA MergeCounts ==
    ASSUME Rotation!RotationAssumption, InARow, NEW source, NEW reported, Rotation!Merge(source, reported)
    PROVE  InARow' /\ \A a \in Aircraft : Confirmed(a)
<1>1. Confirmations \in Nat \ {0}
  BY DEF Rotation!RotationAssumption
<1>2. /\ guard' = [a \in Aircraft |-> IF a \in reported THEN Rotation!Guarded(guard[a], source) ELSE guard[a]]
      /\ streak' = [a \in Aircraft |->
           IF a \notin reported THEN streak[a]
           ELSE [source |-> source,
                 n |-> IF streak[a].source = source THEN Rotation!Min({streak[a].n + 1, Confirmations})
                       ELSE 1]]
  BY DEF Rotation!Merge
<1>3. ASSUME NEW a \in Aircraft
      PROVE  /\ guard'[a] = [stable |-> guard'[a].stable, pending |-> guard'[a].pending,
                             count |-> guard'[a].count]
             /\ streak'[a] = [source |-> streak'[a].source, n |-> streak'[a].n]
             /\ Counted(a)' /\ Confirmed(a)
  <2>1. /\ guard[a] = [stable |-> guard[a].stable, pending |-> guard[a].pending, count |-> guard[a].count]
        /\ streak[a] = [source |-> streak[a].source, n |-> streak[a].n] /\ Counted(a)
    BY DEF InARow
  <2>2. CASE a \notin reported
    <3>1. guard'[a] = guard[a] /\ streak'[a] = streak[a]
      BY <1>2, <2>2
    <3>. QED  BY <2>1, <3>1 DEF Counted, Confirmed
  <2>3. CASE a \in reported
    <3>. DEFINE m == IF streak[a].source = source THEN Rotation!Min({streak[a].n + 1, Confirmations}) ELSE 1
                n == IF guard[a].pending = source THEN guard[a].count + 1 ELSE 1
                kept == guard[a].stable \in {Rotation!NoSource, source} \/ n >= Confirmations
    <3>1. streak'[a] = [source |-> source, n |-> m]
      BY <1>2, <2>3
    <3>2. /\ guard[a].count \in Nat /\ streak[a].n \in Nat /\ n \in Nat
          /\ guard[a].count > 0 => streak[a].source = guard[a].pending /\ streak[a].n >= guard[a].count
      BY <2>1 DEF Counted
    <3>3. /\ m \in Nat
          /\ streak[a].source = source => m = (IF streak[a].n + 1 <= Confirmations THEN streak[a].n + 1
                                               ELSE Confirmations)
          /\ streak[a].source # source => m = 1
      BY <1>1, <3>2, RotationMin
    <3>4. CASE kept
      <4>1. guard'[a] = [stable |-> source, pending |-> Rotation!NoSource, count |-> 0]
        BY <1>2, <2>3, <3>4 DEF Rotation!Guarded
      <4>2. guard[a].stable \notin {Rotation!NoSource, source} => m = Confirmations
        <5>1. guard[a].stable \notin {Rotation!NoSource, source} => n >= Confirmations
          BY <3>4
        <5>2. n = IF guard[a].pending = source THEN guard[a].count + 1 ELSE 1
          OBVIOUS
        <5>. HIDE DEF n, m, kept
        <5>. QED  BY <1>1, <3>2, <3>3, <5>1, <5>2
      <4>. HIDE DEF m, n, kept
      <4>. QED  BY <3>1, <3>3, <4>1, <4>2 DEF Counted, Confirmed
    <3>5. CASE ~kept
      <4>1. guard'[a] = [guard[a] EXCEPT !.pending = source, !.count = n]
        BY <1>2, <2>3, <3>5 DEF Rotation!Guarded
      <4>2. guard'[a] = [stable |-> guard[a].stable, pending |-> source, count |-> n]
        BY <2>1, <4>1
      <4>3. m >= n /\ n < Confirmations
        <5>1. n < Confirmations
          BY <1>1, <3>2, <3>5
        <5>2. n = IF guard[a].pending = source THEN guard[a].count + 1 ELSE 1
          OBVIOUS
        <5>. HIDE DEF n, m, kept
        <5>. QED  BY <1>1, <3>2, <3>3, <5>1, <5>2
      <4>. HIDE DEF m, n, kept
      <4>. QED  BY <3>1, <3>2, <3>3, <4>2, <4>3 DEF Counted, Confirmed
    <3>. QED  BY <3>4, <3>5
  <2>. QED  BY <2>2, <2>3
<1>4. guard' = [a \in Aircraft |-> guard'[a]] /\ streak' = [a \in Aircraft |-> streak'[a]]
  BY <1>2
<1>. QED  BY <1>3, <1>4 DEF InARow

\* Every other step leaves the counts or drops them with the aircraft.
LEMMA RotationStep ==
    ASSUME Rotation!RotationAssumption, InARow, [Rotation!Next]_(Rotation!vars)
    PROVE  InARow' /\ \A a \in Aircraft : Confirmed(a)
<1>1. CASE UNCHANGED <<guard, streak>>
  BY <1>1 DEF InARow, Counted, Confirmed
<1>2. ASSUME NEW f, Rotation!Attempt(f)
      PROVE  \/ UNCHANGED <<guard, streak>>
             \/ \E reported : Rotation!Merge(f, reported)
  BY <1>2 DEF Rotation!Attempt, Rotation!Rests, Rotation!Answers, Rotation!Fails, Rotation!TimesOut,
              Rotation!CutOff
<1>3. ASSUME NEW f, Rotation!Attempt(f)
      PROVE  InARow' /\ \A a \in Aircraft : Confirmed(a)
  BY <1>1, <1>2, <1>3, MergeCounts
<1>4. CASE Rotation!AskPublic
  BY <1>3, <1>4 DEF Rotation!AskPublic
<1>5. CASE Rotation!AskOpenSky
  BY <1>3, <1>5 DEF Rotation!AskOpenSky
<1>6. ASSUME NEW b, Rotation!Fly(b)
      PROVE  InARow' /\ \A a \in Aircraft : Confirmed(a)
  <2>1. /\ guard' = [guard EXCEPT ![b] = IF b \in sky THEN Rotation!Unguarded ELSE @]
        /\ streak' = [streak EXCEPT ![b] = IF b \in sky THEN [source |-> Rotation!NoSource, n |-> 0] ELSE @]
    BY <1>6 DEF Rotation!Fly
  <2>2. DOMAIN guard = Aircraft /\ DOMAIN streak = Aircraft
    BY DEF InARow
  <2>3. \A a \in Aircraft :
          \/ guard'[a] = guard[a] /\ streak'[a] = streak[a]
          \/ /\ guard'[a] = Rotation!Unguarded
             /\ streak'[a] = [source |-> Rotation!NoSource, n |-> 0]
    BY <2>1, <2>2
  <2>4. guard' = [a \in Aircraft |-> guard'[a]] /\ streak' = [a \in Aircraft |-> streak'[a]]
    BY <2>1, <2>2
  <2>5. ASSUME NEW a \in Aircraft
        PROVE  /\ guard'[a] = [stable |-> guard'[a].stable, pending |-> guard'[a].pending,
                               count |-> guard'[a].count]
               /\ streak'[a] = [source |-> streak'[a].source, n |-> streak'[a].n]
               /\ Counted(a)' /\ Confirmed(a)
    <3>1. /\ guard[a] = [stable |-> guard[a].stable, pending |-> guard[a].pending, count |-> guard[a].count]
          /\ streak[a] = [source |-> streak[a].source, n |-> streak[a].n] /\ Counted(a)
      BY DEF InARow
    <3>. QED  BY <2>3, <3>1 DEF Rotation!Unguarded, Counted, Confirmed
  <2>. QED  BY <2>4, <2>5 DEF InARow
<1>7. CASE Rotation!StartPoll \/ Rotation!SkipOpenSky \/ (\E f \in Rotation!Feeds : Rotation!Change(f))
  BY <1>1, <1>7 DEF Rotation!StartPoll, Rotation!SkipOpenSky, Rotation!Change
<1>8. CASE UNCHANGED Rotation!vars
  BY <1>1, <1>8 DEF Rotation!vars
<1>. QED  BY <1>4, <1>5, <1>6, <1>7, <1>8 DEF Rotation!Next, Rotation!Polling, Rotation!World

\* A feed becomes the source of an aircraft that had another one only when the
\* last Confirmations observations of that aircraft all came from it.
THEOREM SwitchesConfirmed ==
    Rotation!RotationAssumption => (Rotation!Spec => Rotation!SwitchConfirmed)
<1>. SUFFICES ASSUME Rotation!RotationAssumption
              PROVE  Rotation!Spec => Rotation!SwitchConfirmed
  OBVIOUS
<1>1. Rotation!Init => InARow
  BY DEF Rotation!Init, InARow, Counted, Rotation!Unguarded
<1>2. InARow /\ [Rotation!Next]_(Rotation!vars) => InARow'
  BY RotationStep
<1>3. InARow /\ [Rotation!Next]_(Rotation!vars) =>
        [\A a \in Aircraft :
           (guard[a].stable # Rotation!NoSource
              /\ guard'[a].stable \notin {Rotation!NoSource, guard[a].stable})
             => streak'[a] = [source |-> guard'[a].stable, n |-> Confirmations]]_(Rotation!vars)
  BY RotationStep DEF Confirmed
<1>. QED  BY <1>1, <1>2, <1>3, PTL DEF Rotation!Spec, Rotation!SwitchConfirmed
================================================================================
