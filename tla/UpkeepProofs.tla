---------------------------- MODULE UpkeepProofs ----------------------------
(***************************************************************************)
(* Theorems of what runs beside the alerts, for every value of the           *)
(* constants: the ledger of expectations (a proven miss is a miss, an outcome *)
(* is true, a case is scored once), and, each through an instance of its      *)
(* module, the start and end of the process, the installer and its updater,   *)
(* the provider credentials, the history of deliveries and what is learned    *)
(* of the feeds.                                                             *)
(***************************************************************************)
EXTENDS ForecastLedger, FiniteSetTheorems, TLAPS, WellFoundedInduction

CONSTANTS
  Updates, QueueLimit, Tries, Modes, MaxWork, MaxOutages,         \* of the process
  None, Backends, MaxRelease, Broken, MaxWrites, UpdaterFaults,   \* of the installation
  Count, Boxes, Credits, Days,                                    \* of the credentials
  HistoryLimit, KeptEvents, MaxEvents, MaxRestarts,               \* of the history
  Regions, Feeds, Results, Workers, LearnLimit, Threshold, Extra, MaxDislikes, Cap

VARIABLES
  stage, pc, tries, creator, client, reachable, outages, background, prepared, maintenance, warm,
  loops, reading, tasks, cancelled, work, bot, queue, recent, acked, handled,
  backend, newest, checkout, installed, policy, timer, service, running, at, target, backup,
  damaged, approved, file, wal, written, updaterFaults,
  aside, made, token, day, current, today, poll, box, answers, blamed,
  message, alive, tried, lineup, job, late, history, pushed, restarts,
  learned, pending, line, workers, dislike, dislikes

Life == INSTANCE Lifespan
Updater == INSTANCE Installation WITH MaxFaults <- UpdaterFaults, faults <- updaterFaults
Pool == INSTANCE KeyPool
History == INSTANCE Telemetry WITH QueueLimit <- HistoryLimit, queue <- lineup, doc <- history
Learner == INSTANCE ProviderLearning WITH
  Places <- Regions, QueueLimit <- LearnLimit, doc <- learned, queue <- line, work <- workers
-----------------------------------------------------------------------------
(* The ledger: bounds on motion and proven misses.                          *)

Below == {p \in Nat \X Nat : p[1] < p[2]}

(* Every inhabited set of numbers has a least element. *)
LEMMA LeastElement ==
  ASSUME NEW S \in SUBSET Nat, S # {}
  PROVE  \E m \in S : \A n \in S : m <= n
<1>1. IsWellFoundedOn(Below, Nat)
  BY NatLessThanWellFounded DEF OpToRel, Below
<1>2. \E m \in S : \A n \in S : ~ (<<n, m>> \in Below)
  BY <1>1, WFMin
<1>3. PICK m \in S : \A n \in S : ~ (<<n, m>> \in Below)
  BY <1>2
<1>4. ASSUME NEW n \in S PROVE m <= n
  <2>1. m \in Nat /\ n \in Nat
    OBVIOUS
  <2>2. <<n, m>> \in Nat \X Nat
    BY <2>1
  <2>3. ~ (n < m)
    BY <1>3, <2>2 DEF Below
  <2> QED BY <2>1, <2>3
<1> QED BY <1>4

(* Every inhabited set of numbers below a bound has a greatest element. *)
LEMMA GreatestElement ==
  ASSUME NEW S \in SUBSET Nat, S # {}, NEW b \in Nat, \A n \in S : n <= b
  PROVE  \E m \in S : \A n \in S : n <= m
<1> DEFINE T == {b - n : n \in S}
<1>1. ASSUME NEW k \in T PROVE k \in Nat /\ \E n \in S : k = b - n /\ n \in Nat /\ n <= b
  <2>1. PICK n \in S : k = b - n
    OBVIOUS
  <2>2. n \in Nat /\ n <= b
    OBVIOUS
  <2> QED BY <2>1, <2>2
<1>2. T \in SUBSET Nat /\ T # {}
  BY <1>1
<1> HIDE DEF T
<1>3. PICK k \in T : \A n \in T : k <= n
  BY <1>2, LeastElement
<1>4. PICK m \in S : k = b - m /\ m \in Nat
  BY <1>1
<1>5. ASSUME NEW n \in S PROVE n <= m
  <2>1. k <= b - n
    BY <1>3 DEF T
  <2>2. n \in Nat
    OBVIOUS
  <2> QED BY <1>4, <2>1, <2>2
<1> QED BY <1>5

-----------------------------------------------------------------------------
LEMMA FlightTyped ==
  ASSUME NEW d \in Flights
  PROVE  /\ \A u \in Instants : d[u] \in Nat /\ u \in Nat
         /\ Bounded(d)
<1>1. d \in [Instants -> Distances] /\ Bounded(d)
  BY Zenon DEF Flights
<1>2. Distances \subseteq Nat /\ Horizon \in Nat
  BY SizesAreNatural
<1>3. Instants \subseteq Nat
  BY <1>2 DEF Instants
<1> QED BY <1>1, <1>2, <1>3

(* A distance cannot fall by more than the speed bound allows, however far   *)
(* apart the two instants are.                                               *)
LEMMA NoFasterThanTheBound ==
  ASSUME NEW d \in Flights, NEW s \in Instants, NEW t \in Instants, s <= t
  PROVE  /\ d[t] >= d[s] - Speed * (t - s)
         /\ d[s] >= d[t] - Speed * (t - s)
<1> USE SizesAreNatural
<1> DEFINE Fast == {u \in Instants : s <= u /\ ~ (/\ d[u] >= d[s] - Speed * (u - s)
                                                   /\ d[s] >= d[u] - Speed * (u - s))}
<1>1. \A u \in Instants : d[u] \in Nat /\ u \in Nat
  BY FlightTyped
<1>2. Bounded(d)
  BY FlightTyped
<1>3. Fast \in SUBSET Nat
  BY <1>1
<1>4. CASE Fast = {}
  BY <1>4
<1>5. CASE Fast # {}
  <2>1. PICK u \in Fast : \A v \in Fast : u <= v
    BY <1>3, <1>5, LeastElement
  <2>2. u \in Nat /\ s \in Nat /\ s <= u /\ u \in Instants
    BY <1>1, <2>1
  <2>3. u # s
    <3>1. ASSUME u = s PROVE FALSE
      <4>1. Speed * (u - s) = 0
        BY <2>2, <3>1
      <4> QED BY <1>1, <2>1, <3>1, <4>1
    <3> QED BY <3>1
  <2>4. u - 1 \in Instants /\ s <= u - 1 /\ u - 1 < u
    BY <2>2, <2>3 DEF Instants
  <2>5. u - 1 \notin Fast
    BY <2>1, <2>2, <2>4
  <2>6. /\ d[u - 1] >= d[s] - Speed * (u - 1 - s)
        /\ d[s] >= d[u - 1] - Speed * (u - 1 - s)
    BY <2>4, <2>5
  <2>7. d[u] - d[u - 1] \in -Speed..Speed
    <3>1. (u - 1) + 1 = u
      BY <2>2
    <3> QED BY <1>2, <2>2, <2>4, <3>1 DEF Bounded
  <2>8. Speed * (u - s) = Speed * (u - 1 - s) + Speed
    BY <2>2
  <2>9. Speed * (u - 1 - s) \in Int
    BY <2>2
  <2>10. /\ d[u] >= d[s] - Speed * (u - s)
         /\ d[s] >= d[u] - Speed * (u - s)
    <3>1. d[u] \in Int /\ d[u - 1] \in Int /\ d[s] \in Int
      BY <1>1, <2>2, <2>4
    <3> HIDE DEF Fast
    <3> QED BY <2>6, <2>7, <2>8, <2>9, <3>1
  <2> QED BY <2>1, <2>10
<1> QED BY <1>4, <1>5

(* Between two points with no room to come near, the flight is not near.     *)
LEMMA NoRoomBetween ==
  ASSUME NEW d \in Flights, NEW l \in Instants, NEW r \in Instants, NEW t \in Instants,
         l <= t, t <= r, 2 * Smaller(d[l], d[r]) - Speed * (r - l) > 2 * (Radius + Margin)
  PROVE  d[t] > Radius
<1> USE SizesAreNatural
<1>1. d[l] \in Nat /\ d[r] \in Nat /\ d[t] \in Nat /\ l \in Nat /\ r \in Nat /\ t \in Nat
  BY FlightTyped
<1>2. d[t] >= d[l] - Speed * (t - l)
  BY NoFasterThanTheBound
<1>3. d[t] >= d[r] - Speed * (r - t)
  BY NoFasterThanTheBound
<1>4. Speed * (r - l) = Speed * (r - t) + Speed * (t - l)
  BY <1>1
<1>5. Speed * (r - t) \in Int /\ Speed * (t - l) \in Int
  BY <1>1
<1>6. Smaller(d[l], d[r]) <= d[l] /\ Smaller(d[l], d[r]) <= d[r] /\ Smaller(d[l], d[r]) \in Nat
  BY <1>1 DEF Smaller
<1>7. Radius \in Nat /\ Margin \in Nat
  OBVIOUS
<1> QED BY ONLY <1>1, <1>2, <1>3, <1>4, <1>5, <1>6, <1>7,
      2 * Smaller(d[l], d[r]) - Speed * (r - l) > 2 * (Radius + Margin)

(* forecast_outcomes.py:50-112: what _covered_negative proves is true of     *)
(* every flight no faster than the bound, whatever points were heard.        *)
THEOREM ProvenMissIsMiss ==
  ASSUME NEW d \in Flights, NEW S \in SUBSET Instants, NEW b \in Nat, NEW e \in Instants,
         b < e, CoveredNegative(d, S, b, e), NEW t \in b..e
  PROVE  d[t] > Radius
<1> USE SizesAreNatural
<1>1. S \in SUBSET Nat /\ e \in Nat /\ t \in Nat /\ t \in Instants /\ b <= t /\ t <= e
  BY DEF Instants
<1>2. PICK p \in S : p <= b
  BY DEF CoveredNegative
<1>3. PICK q \in S : e <= q
  BY DEF CoveredNegative
<1>4. SUFFICES \E l, r \in S : l <= t /\ t <= r /\ Adjacent(S, l, r) /\ b < r /\ l < e
  <2>1. PICK l \in S, r \in S : l <= t /\ t <= r /\ Adjacent(S, l, r) /\ b < r /\ l < e
    BY <1>4
  <2>2. 2 * Smaller(d[l], d[r]) - Speed * (r - l) > 2 * (Radius + Margin)
    BY <2>1 DEF CoveredNegative
  <2>3. l \in Instants /\ r \in Instants
    OBVIOUS
  <2> QED BY <1>1, <2>1, <2>2, <2>3, NoRoomBetween
<1>5. CASE t < e
  <2> DEFINE L == {s \in S : s <= t}
             R == {s \in S : t < s}
  <2>1. p \in L /\ q \in R /\ L \in SUBSET Nat /\ R \in SUBSET Nat
    <3>1. p \in Nat /\ q \in Nat
      BY <1>1
    <3>2. p \in L /\ q \in R
      BY <1>1, <1>2, <1>3, <1>5, <3>1
    <3> QED BY <1>1, <3>2
  <2>2. PICK l \in L : \A n \in L : n <= l
    BY <1>1, <2>1, GreatestElement
  <2>3. PICK r \in R : \A n \in R : r <= n
    BY <2>1, LeastElement
  <2>4. Adjacent(S, l, r)
    BY <1>1, <2>2, <2>3 DEF Adjacent
  <2>5. l \in S /\ r \in S /\ l <= t /\ t <= r /\ b < r /\ l < e
    BY <1>1, <1>5, <2>2, <2>3
  <2> QED BY <2>4, <2>5
<1>6. CASE t = e
  <2> DEFINE L == {s \in S : s < t}
             R == {s \in S : t <= s}
  <2>1. p \in L /\ q \in R /\ L \in SUBSET Nat /\ R \in SUBSET Nat
    <3>1. p \in Nat /\ q \in Nat
      BY <1>1
    <3>2. p \in L /\ q \in R
      BY <1>1, <1>2, <1>3, <1>6, <3>1
    <3> QED BY <1>1, <3>2
  <2>2. PICK l \in L : \A n \in L : n <= l
    <3>1. \A n \in L : n <= t
      BY <1>1
    <3> HIDE DEF L
    <3> QED BY <1>1, <2>1, <3>1, GreatestElement
  <2>3. PICK r \in R : \A n \in R : r <= n
    BY <2>1, LeastElement
  <2>4. Adjacent(S, l, r)
    BY <1>1, <2>2, <2>3 DEF Adjacent
  <2>5. l \in S /\ r \in S /\ l <= t /\ t <= r /\ b < r /\ l < e
    BY <1>1, <1>6, <2>2, <2>3
  <2> QED BY <2>4, <2>5
<1> QED BY <1>1, <1>5, <1>6
-----------------------------------------------------------------------------
(* The cases that are asked, and what is known of them. *)
CasesTyped ==
  /\ flight \in Flights /\ now \in Instants /\ heard \subseteq Instants
  /\ files \in Seq(Cases \cup {Other}) /\ Filed \subseteq Asked
  /\ Asked \subseteq Cases /\ begin \in [Asked -> Nat]
  /\ \A c \in Asked : End(c) \in Instants
  /\ run \in [on : BOOLEAN, at : Instants, place : {"here", "elsewhere", "gone"},
              old : SUBSET Cases, todo : SUBSET Cases, done : SUBSET Cases]
  /\ run.todo \subseteq Asked
  /\ place \in {"here", "elsewhere", "gone"}
  /\ resolved \subseteq Cases

(* Inductive: what is marked, or about to be marked, has an outcome. *)
Evidenced ==
  /\ outcomes \in [Cases -> Seq(Outcome)]
  /\ \A c \in Cases : outcomes[c] # <<>> => c \in Asked
  /\ \A c \in resolved \cup run.old \cup run.done : outcomes[c] # <<>>

LedgerInv == CasesTyped /\ Evidenced /\ OutcomesAreTrue

LEMMA LedgerInit == Init => LedgerInv
<1> SUFFICES ASSUME Init PROVE LedgerInv
  OBVIOUS
<1>1. Horizon \in Nat
  BY SizesAreNatural
<1>2. Asked = {} /\ Filed = {} /\ 0 \in Instants
  BY <1>1 DEF Init, Asked, Filed, Instants
<1>3. CasesTyped
  <2>1. run \in [on : BOOLEAN, at : Instants, place : {"here", "elsewhere", "gone"},
              old : SUBSET Cases, todo : SUBSET Cases, done : SUBSET Cases] /\ run.todo = {}
    BY <1>2 DEF Init, NoRun
  <2>2. begin \in [Asked -> Nat]
    BY <1>2 DEF Init, Asked
  <2>3. files \in Seq(Cases \cup {Other})
    BY DEF Init
  <2>4. heard \subseteq Instants
    BY <1>2 DEF Init
  <2> QED BY <1>2, <2>1, <2>2, <2>3, <2>4 DEF Init, CasesTyped
<1>4. Evidenced
  BY DEF Init, Evidenced, NoRun
<1>5. OutcomesAreTrue
  BY DEF Init, OutcomesAreTrue
<1> QED BY <1>3, <1>4, <1>5 DEF LedgerInv

(* What was true of a case stays true: its window does not move.             *)
LEMMA TruthStays ==
  ASSUME LedgerInv, UNCHANGED <<flight, outcomes>>,
         \A c \in Asked : begin'[c] = begin[c]
  PROVE  OutcomesAreTrue'
<1> SUFFICES ASSUME NEW c \in Cases, NEW i \in 1..Len(outcomes[c]) PROVE True(c, outcomes[c][i])'
  BY DEF OutcomesAreTrue
<1>1. True(c, outcomes[c][i])
  BY DEF LedgerInv, OutcomesAreTrue
<1>2. c \in Asked
  <2>1. outcomes[c] \in Seq(Outcome)
    BY DEF LedgerInv, Evidenced
  <2>2. outcomes[c] # <<>>
    BY <2>1
  <2> QED BY <2>2 DEF LedgerInv, Evidenced
<1>3. begin'[c] = begin[c]
  BY <1>2
<1> QED BY <1>1, <1>3 DEF True, Window, Near, End

LEMMA AskStep ==
  ASSUME LedgerInv, NEW c \in Cases, Ask(c)
  PROVE  LedgerInv'
<1> USE DEF LedgerInv
<1>1. PICK s \in now..(now + MaxLead) :
        /\ s + Width + Inconclusive <= Horizon
        /\ begin' = [k \in Asked \cup {c} |-> IF k = c THEN s ELSE begin[k]]
  BY DEF Ask
<1>2. now \in Nat /\ s \in Nat /\ Width \in Nat /\ Inconclusive \in Nat /\ Horizon \in Nat
  BY SizesAreNatural DEF CasesTyped, Instants
<1>3. Asked' = Asked \cup {c} /\ begin'[c] = s /\ c \notin Asked
  BY <1>1 DEF Asked, Ask
<1>4. \A k \in Asked : begin'[k] = begin[k]
  BY <1>1, <1>3
<1>5. CasesTyped'
  <2>1. begin' \in [Asked' -> Nat]
    BY <1>1, <1>2, <1>3 DEF CasesTyped
  <2>2. \A k \in Asked' : End(k)' \in Instants
    <3>1. End(c)' \in Instants
      BY <1>1, <1>2, <1>3 DEF End, Instants
    <3>2. \A k \in Asked : End(k)' = End(k)
      BY <1>4 DEF End
    <3> QED BY <1>3, <3>1, <3>2 DEF CasesTyped
  <2>3. files' \in Seq(Cases \cup {Other}) /\ Filed' \subseteq Asked'
    <3>1. files' = Append(files, c) /\ files \in Seq(Cases \cup {Other})
      BY DEF Ask, CasesTyped
    <3>2. \A i \in 1..Len(files') : files'[i] = c \/ (i \in 1..Len(files) /\ files'[i] = files[i])
      BY <3>1
    <3>3. Filed' \subseteq Filed \cup {c}
      BY <3>2 DEF Filed
    <3> QED BY <1>3, <3>1, <3>3 DEF CasesTyped
  <2> QED BY <1>3, <2>1, <2>2, <2>3 DEF Ask, CasesTyped
<1>6. Evidenced'
  BY <1>3 DEF Ask, Evidenced
<1>7. OutcomesAreTrue'
  BY <1>4, TruthStays DEF Ask
<1> QED BY <1>5, <1>6, <1>7

LEMMA TickStep ==
  ASSUME LedgerInv, Tick
  PROVE  LedgerInv'
<1> USE DEF LedgerInv
<1>1. now' \in Instants /\ heard' \subseteq Instants
  BY SizesAreNatural DEF Tick, CasesTyped, Instants
<1>2. CasesTyped'
  BY <1>1 DEF Tick, CasesTyped, Filed, Asked, End
<1>3. Evidenced'
  BY DEF Tick, Evidenced, Asked
<1>4. OutcomesAreTrue'
  BY TruthStays DEF Tick
<1> QED BY <1>2, <1>3, <1>4

LEMMA MoveStep ==
  ASSUME LedgerInv, Move
  PROVE  LedgerInv'
<1> USE DEF LedgerInv
<1>1. CasesTyped'
  BY DEF Move, CasesTyped, Filed, Asked, End
<1>2. Evidenced'
  BY DEF Move, Evidenced, Asked
<1>3. OutcomesAreTrue'
  BY TruthStays DEF Move
<1> QED BY <1>1, <1>2, <1>3

LEMMA CompactedStep ==
  ASSUME LedgerInv, Compacted
  PROVE  LedgerInv'
<1> USE DEF LedgerInv
<1>1. PICK i \in 1..Len(files) :
        files' = [j \in 1..(Len(files) - 1) |-> IF j < i THEN files[j] ELSE files[j + 1]]
  BY DEF Compacted
<1>2. files \in Seq(Cases \cup {Other}) /\ Len(files) \in Nat
  BY DEF CasesTyped
<1>3. \A j \in 1..(Len(files) - 1) :
        \E k \in 1..Len(files) : files'[j] = files[k] /\ files[k] \in Cases \cup {Other}
  BY <1>1, <1>2
<1>4. files' \in Seq(Cases \cup {Other}) /\ Len(files') = Len(files) - 1
  BY <1>1, <1>2, <1>3
<1>5. Filed' \subseteq Filed
  BY <1>3, <1>4 DEF Filed
<1>6. CasesTyped'
  BY <1>4, <1>5 DEF Compacted, CasesTyped, Asked, End
<1>7. Evidenced'
  BY DEF Compacted, Evidenced, Asked
<1>8. OutcomesAreTrue'
  BY TruthStays DEF Compacted
<1> QED BY <1>6, <1>7, <1>8

(* A file that is no expectation is added. *)
LEMMA OtherFiled ==
  ASSUME CasesTyped, files' = Append(files, Other)
  PROVE  files' \in Seq(Cases \cup {Other}) /\ Filed' = Filed
<1>1. files \in Seq(Cases \cup {Other})
  BY DEF CasesTyped
<1>2. /\ files' \in Seq(Cases \cup {Other}) /\ Len(files') = Len(files) + 1 /\ Len(files) \in Nat
      /\ files'[Len(files) + 1] = Other
      /\ \A i \in 1..Len(files) : files'[i] = files[i]
  BY <1>1
<1>3. Other \notin Cases
  BY CasesAreOrdered DEF Other
<1>4. \A i \in 1..Len(files') : files'[i] \in Cases => i \in 1..Len(files)
  BY <1>2, <1>3
<1>5. 1..Len(files) \subseteq 1..Len(files')
  BY <1>2
<1>. HIDE DEF Other
<1>6. Filed' \subseteq Filed
  BY <1>2, <1>4 DEF Filed
<1>7. Filed \subseteq Filed'
  BY <1>2, <1>5 DEF Filed
<1> QED BY <1>2, <1>6, <1>7

LEMMA RecordedStep ==
  ASSUME LedgerInv, Recorded
  PROVE  LedgerInv'
<1> USE DEF LedgerInv
<1>1. CasesTyped'
  BY OtherFiled DEF Recorded, CasesTyped, Asked, End
<1>2. Evidenced'
  BY DEF Recorded, Evidenced, Asked
<1>3. OutcomesAreTrue'
  BY TruthStays DEF Recorded
<1> QED BY <1>1, <1>2, <1>3

LEMMA StartStep ==
  ASSUME LedgerInv, NEW known \in SUBSET resolved, Start(known)
  PROVE  LedgerInv'
<1> USE DEF LedgerInv
<1>1. Batch(known) \subseteq Asked
  BY DEF Batch, Due, Newest, Filed, CasesTyped
<1>2. run' = [on |-> TRUE, at |-> now, place |-> place, old |-> known, todo |-> Batch(known), done |-> {}]
  BY DEF Start
<1>3. CasesTyped'
  BY <1>1, <1>2 DEF Start, Others, CasesTyped, Filed, Asked, End
<1>4. Evidenced'
  BY <1>2 DEF Start, Others, Evidenced, Asked
<1>5. OutcomesAreTrue'
  BY TruthStays DEF Start, Others
<1> QED BY <1>3, <1>4, <1>5

LEMMA StopStep ==
  ASSUME LedgerInv, Stop, UNCHANGED <<flight, now, heard, files, begin, outcomes, resolved, place>>
  PROVE  LedgerInv'
<1> USE DEF LedgerInv
<1>1. run' = NoRun
  BY DEF Stop
<1>2. CasesTyped'
  <2>1. 0 \in Instants
    BY SizesAreNatural DEF Instants
  <2>2. run' \in [on : BOOLEAN, at : Instants, place : {"here", "elsewhere", "gone"},
              old : SUBSET Cases, todo : SUBSET Cases, done : SUBSET Cases] /\ run'.todo = {}
    BY <1>1, <2>1 DEF NoRun
  <2> QED BY <2>2 DEF CasesTyped, Filed, Asked, End
<1>3. Evidenced'
  BY <1>1 DEF Evidenced, Asked, NoRun
<1>4. OutcomesAreTrue'
  BY TruthStays
<1> QED BY <1>2, <1>3, <1>4

(* An expectation leaves the batch without an outcome. *)
LEMMA PassedOverStep ==
  ASSUME LedgerInv, NEW c \in Cases, run' = [run EXCEPT !.todo = @ \ {c}],
         UNCHANGED <<flight, now, heard, files, begin, outcomes, resolved, place>>
  PROVE  LedgerInv'
<1> USE DEF LedgerInv
<1>1. CasesTyped'
  BY DEF CasesTyped, Filed, Asked, End
<1>2. run'.old = run.old /\ run'.done = run.done
  BY DEF CasesTyped
<1>3. Evidenced'
  BY <1>2 DEF Evidenced, Asked
<1>4. OutcomesAreTrue'
  BY TruthStays
<1> QED BY <1>1, <1>3, <1>4

(* What the resolver observes of a case is true of the flight. *)
LEMMA ObservedIsTrue ==
  ASSUME LedgerInv, NEW c \in Asked, NEW v \in Evidence(c)
  PROVE  True(c, [verdict |-> Verdict(v), place |-> run.place])
<1> USE DEF LedgerInv
<1> SUFFICES ASSUME run.place = "here"
             PROVE  /\ Verdict(v) = "miss" => \A t \in Window(c) : flight[t] > Radius
                    /\ Verdict(v) = "pass" => \E t \in Near(c) \cap Instants : flight[t] <= Radius
  BY DEF True
<1>1. v = Observed(c)
  BY DEF Evidence
<1>2. heard \subseteq Instants /\ flight \in Flights
  BY DEF CasesTyped
<1>3. ASSUME Verdict(v) = "pass" PROVE \E t \in Near(c) \cap Instants : flight[t] <= Radius
  <2>1. \E s \in heard : s \in Near(c) /\ flight[s] <= Radius
    BY <1>1, <1>3 DEF Verdict, Observed
  <2> QED BY <1>2, <2>1
<1>4. ASSUME Verdict(v) = "miss", NEW t \in Window(c) PROVE flight[t] > Radius
  <2>1. CoveredNegative(flight, heard, begin[c], End(c))
    BY <1>1, <1>4 DEF Verdict, Observed
  <2>2. begin[c] \in Nat /\ End(c) \in Instants /\ begin[c] < End(c)
    <3>1. begin[c] \in Nat /\ End(c) \in Instants
      BY DEF CasesTyped
    <3>2. Width \in Nat \ {0}
      BY SizesAreNatural
    <3> QED BY <3>1, <3>2 DEF End
  <2>3. t \in begin[c]..End(c)
    BY DEF Window
  <2> QED BY <1>2, <2>1, <2>2, <2>3, ProvenMissIsMiss
<1> QED BY <1>3, <1>4

LEMMA WriteStep ==
  ASSUME LedgerInv, NEW c \in Cases, Write(c)
  PROVE  LedgerInv'
<1> USE DEF LedgerInv
<1> DEFINE o(v) == [verdict |-> Verdict(v), place |-> run.place]
<1>1. PICK v \in Evidence(c) : outcomes' = [outcomes EXCEPT ![c] = Append(@, o(v))]
  BY DEF Write
<1>2. c \in Asked /\ run' = [run EXCEPT !.todo = @ \ {c}, !.done = @ \cup {c}]
  BY DEF Write, Score, CasesTyped
<1>3. UNCHANGED <<flight, now, heard, begin, resolved, place>> /\ files' = Append(files, Other)
  BY DEF Write, Score
<1>4. o(v) \in Outcome
  <2>1. run.place \in {"here", "elsewhere", "gone"}
    BY DEF CasesTyped
  <2>2. v \in {"pass", "miss", "unscored"}
    BY <2>1 DEF Evidence, Observed
  <2> QED BY <2>1, <2>2 DEF Verdict, Outcome
<1>5. /\ outcomes'[c] = Append(outcomes[c], o(v)) /\ outcomes[c] \in Seq(Outcome)
      /\ \A k \in Cases \ {c} : outcomes'[k] = outcomes[k]
  BY <1>1 DEF Evidenced
<1>6. CasesTyped'
  BY <1>2, <1>3, OtherFiled DEF CasesTyped, Asked, End
<1>7. Evidenced'
  <2>1. outcomes' \in [Cases -> Seq(Outcome)]
    BY <1>1, <1>4, <1>5 DEF Evidenced
  <2>2. outcomes'[c] # <<>>
    BY <1>4, <1>5
  <2>3. run'.old = run.old /\ run'.done = run.done \cup {c}
    BY <1>2 DEF CasesTyped
  <2>4. \A k \in Cases : outcomes'[k] # <<>> => k \in Asked'
    BY <1>2, <1>3, <1>5 DEF Evidenced, Asked
  <2>5. resolved \cup run.old \cup run.done \subseteq Cases
    BY DEF CasesTyped
  <2>6. \A k \in (resolved \cup run.old \cup run.done)' : outcomes'[k] # <<>>
    BY <1>3, <1>5, <2>2, <2>3, <2>5 DEF Evidenced
  <2> QED BY <2>1, <2>4, <2>6 DEF Evidenced
<1>8. OutcomesAreTrue'
  <2> SUFFICES ASSUME NEW k \in Cases, NEW i \in 1..Len(outcomes'[k]) PROVE True(k, outcomes[k][i])'
    BY DEF OutcomesAreTrue
  <2>1. CASE k # c \/ i # Len(outcomes'[c])
    <3>1. i \in 1..Len(outcomes[k]) /\ outcomes'[k][i] = outcomes[k][i]
      BY <1>4, <1>5, <2>1
    <3>2. True(k, outcomes[k][i])
      BY <3>1 DEF OutcomesAreTrue
    <3> QED BY <1>3, <3>1, <3>2 DEF True, Window, Near, End
  <2>2. CASE k = c /\ i = Len(outcomes'[c])
    <3>1. outcomes'[k][i] = o(v)
      BY <1>4, <1>5, <2>2
    <3>2. True(c, o(v))
      BY <1>2, ObservedIsTrue
    <3> QED BY <1>3, <2>2, <3>1, <3>2 DEF True, Window, Near, End
  <2> QED BY <2>1, <2>2
<1> QED BY <1>6, <1>7, <1>8

LEMMA FinishStep ==
  ASSUME LedgerInv, Finish
  PROVE  LedgerInv'
<1> USE DEF LedgerInv
<1>1. run' = NoRun /\ UNCHANGED <<flight, now, heard, files, begin, outcomes, place>>
  BY DEF Finish
<1>2. resolved' \subseteq resolved \cup run.old \cup run.done
  BY DEF Finish, Kept
<1>3. CasesTyped'
  <2>1. 0 \in Instants
    BY SizesAreNatural DEF Instants
  <2>2. run' \in [on : BOOLEAN, at : Instants, place : {"here", "elsewhere", "gone"},
              old : SUBSET Cases, todo : SUBSET Cases, done : SUBSET Cases] /\ run'.todo = {}
    BY <1>1, <2>1 DEF NoRun
  <2>3. resolved' \subseteq Cases
    BY <1>2 DEF CasesTyped
  <2> QED BY <1>1, <2>2, <2>3 DEF CasesTyped, Filed, Asked, End
<1>4. Evidenced'
  <2>1. run'.old = {} /\ run'.done = {}
    BY <1>1 DEF NoRun
  <2> QED BY <1>1, <1>2, <2>1 DEF Evidenced, Asked
<1>5. OutcomesAreTrue'
  BY <1>1, TruthStays
<1> QED BY <1>3, <1>4, <1>5

LEMMA LedgerStep == LedgerInv /\ [Next]_vars => LedgerInv'
<1> SUFFICES ASSUME LedgerInv, [Next]_vars PROVE LedgerInv'
  OBVIOUS
<1>1. CASE Tick
  BY <1>1, TickStep
<1>2. CASE Move
  BY <1>2, MoveStep
<1>3. CASE Begin
  <2>1. Start(resolved) /\ resolved \in SUBSET resolved
    BY <1>3 DEF Begin
  <2> QED BY <2>1, StartStep
<1>4. CASE BeginUnread
  <2>1. Start({}) /\ {} \in SUBSET resolved
    BY <1>4 DEF BeginUnread
  <2> QED BY <2>1, StartStep
<1>5. CASE Finish
  BY <1>5, FinishStep
<1>6. CASE Crash
  BY <1>6, StopStep DEF Crash, Others
<1>7. ASSUME NEW c \in Cases, Ask(c) PROVE LedgerInv'
  BY <1>7, AskStep
<1>8. CASE Compacted \/ Recorded
  BY <1>8, CompactedStep, RecordedStep
<1>9. ASSUME NEW c \in Cases, Write(c) PROVE LedgerInv'
  BY <1>9, WriteStep
<1>10. ASSUME NEW c \in Cases, Skip(c) \/ WriteRefused(c) PROVE LedgerInv'
  BY <1>10, PassedOverStep DEF Skip, WriteRefused, Score
<1>11. ASSUME NEW c \in Cases, LookupFails(c) PROVE LedgerInv'
  BY <1>11, StopStep DEF LookupFails, Score
<1>12. CASE UNCHANGED vars
  <2>1. CasesTyped'
    BY <1>12 DEF vars, LedgerInv, CasesTyped, Filed, Asked, End
  <2>2. Evidenced'
    BY <1>12 DEF vars, LedgerInv, Evidenced, Asked
  <2>3. OutcomesAreTrue'
    BY <1>12, TruthStays DEF vars
  <2> QED BY <2>1, <2>2, <2>3 DEF LedgerInv
<1> QED BY <1>1, <1>2, <1>3, <1>4, <1>5, <1>6, <1>7, <1>8, <1>9, <1>10, <1>11, <1>12 DEF Next

(* next60_outcomes_v55.py: no outcome says of a flight what it did not do,   *)
(* and no case is checkpointed without an outcome in the spool.              *)
THEOREM LedgerIsHonest == Spec => []LedgerHonest
<1>1. LedgerInv => LedgerHonest
  BY DEF LedgerInv, Evidenced, CheckpointHasEvidence, LedgerHonest
<1> QED BY <1>1, LedgerInit, LedgerStep, PTL DEF Spec
-----------------------------------------------------------------------------
(* A case is scored once: the inductive invariant.  What has an outcome is   *)
(* in the state file or will be when the pass ends, and the pass leaves both *)
(* alone; unless a pass was cut short.                                      *)
Enough == Cardinality(Cases) <= MaxResolved

Remembered ==
  /\ ~run.on => run = NoRun
  /\ \A c \in Cases : Len(outcomes[c]) <= 1
  /\ \A c \in Cases : outcomes[c] # <<>> => c \in resolved \/ c \in run.done
  /\ run.on => run.old = resolved
  /\ \A c \in run.todo : c \notin resolved /\ c \notin run.done
  /\ \A c \in run.done : c \notin run.old
OnceInv == LedgerInv /\ (cut \/ Remembered)

\* With room for every case the state file keeps what it had.
LEMMA KeptAll ==
    ASSUME Enough, NEW old \in SUBSET Cases, NEW new \in SUBSET Cases, \A c \in new : c \notin old
    PROVE  Kept(old, new) = old \cup new
<1>1. IsFiniteSet(old) /\ IsFiniteSet(new) /\ IsFiniteSet(Cases) /\ IsFiniteSet(old \cup new)
  <2>1. IsFiniteSet(Cases)
    BY CasesAreOrdered
  <2>2. old \cup new \subseteq Cases /\ old \subseteq Cases /\ new \subseteq Cases
    OBVIOUS
  <2>. QED  BY <2>1, <2>2, FS_Subset
<1>2. /\ Cardinality(old \cup new) <= Cardinality(Cases)
      /\ Cardinality(old) \in Nat /\ Cardinality(new) \in Nat /\ Cardinality(Cases) \in Nat
  <2>1. old \cup new \subseteq Cases
    OBVIOUS
  <2>2. Cardinality(old \cup new) <= Cardinality(Cases)
    BY <1>1, <2>1, FS_Subset
  <2>. QED  BY <1>1, <2>2, FS_CardinalityType
<1>3. Cardinality(old \cup new) = Cardinality(old) + Cardinality(new)
  <2>1. old \cap new = {}
    OBVIOUS
  <2>2. Cardinality(old \cup new) = Cardinality(old) + Cardinality(new) - Cardinality(old \cap new)
    BY <1>1, FS_Union
  <2>3. Cardinality(old \cap new) = 0
    BY <2>1, FS_EmptySet
  <2>. QED  BY <1>2, <2>2, <2>3
<1>4. ASSUME NEW c \in old
      PROVE  Cardinality({d \in old : d > c}) + Cardinality(new) < MaxResolved
  <2>. DEFINE above == {d \in old : d > c}
  <2>1. c \notin above /\ above \subseteq old
    <3>1. c \in Nat
      BY CasesAreOrdered
    <3>2. ~(c > c)
      BY <3>1
    <3>. QED  BY <3>2
  <2>2. above \subseteq old \ {c} /\ IsFiniteSet(old \ {c}) /\ Cardinality(old \ {c}) = Cardinality(old) - 1
    BY <1>1, <2>1, FS_RemoveElement
  <2>3. Cardinality(above) \in Nat /\ Cardinality(above) <= Cardinality(old \ {c})
    <3>1. IsFiniteSet(above)
      BY <2>2, FS_Subset
    <3>. HIDE DEF above
    <3>2. Cardinality(above) \in Nat
      BY <3>1, FS_CardinalityType
    <3>3. Cardinality(above) <= Cardinality(old \ {c})
      BY <2>2, FS_Subset
    <3>. QED  BY <3>2, <3>3
  <2>. HIDE DEF above
  <2>4. MaxResolved \in Nat
    BY SizesAreNatural
  <2>5. Cardinality(above) + Cardinality(new) < MaxResolved
    BY <1>2, <1>3, <2>2, <2>3, <2>4 DEF Enough
  <2>. QED  BY <2>5 DEF above
<1>. QED  BY <1>4 DEF Kept

LEMMA PassRemembered ==
    ASSUME Enough, OnceInv, ~cut, Begin \/ Finish \/ Crash \/ (\E c \in Cases : LookupFails(c))
    PROVE  cut' \/ Remembered'
<1>. USE DEF OnceInv, Remembered
<1>1. CASE Begin
  <2>1. Batch(resolved) \subseteq Newest \ resolved
    BY DEF Batch, Due
  <2>2. /\ run' = [on |-> TRUE, at |-> now, place |-> place, old |-> resolved, todo |-> Batch(resolved), done |-> {}]
        /\ ~run.on /\ UNCHANGED <<outcomes, resolved>>
    BY <1>1 DEF Begin, Start, Others
  <2>3. run.done = {}
    BY <2>2 DEF NoRun
  <2>. QED  BY <2>1, <2>2, <2>3
<1>2. CASE Finish
  <2>1. /\ run' = NoRun /\ outcomes' = outcomes /\ run.on
        /\ resolved' = IF run.done = {} THEN resolved ELSE Kept(run.old, run.done)
    BY <1>2 DEF Finish
  <2>2. resolved' = resolved \cup run.done
    <3>1. run.old \in SUBSET Cases /\ run.done \in SUBSET Cases
      BY DEF LedgerInv, CasesTyped
    <3>2. run.done # {} => Kept(run.old, run.done) = run.old \cup run.done
      BY <3>1, KeptAll
    <3>. QED  BY <2>1, <3>2
  <2>. QED  BY <2>1, <2>2 DEF NoRun
<1>3. CASE Crash \/ \E c \in Cases : LookupFails(c)
  <2>1. run' = NoRun /\ UNCHANGED <<outcomes, resolved>> /\ (cut' \/ run.done = {})
    BY <1>3 DEF Crash, LookupFails, Stop, Others, Score
  <2>. QED  BY <2>1 DEF NoRun
<1>. QED  BY <1>1, <1>2, <1>3

LEMMA ScoredRemembered ==
    ASSUME OnceInv, ~cut, NEW c \in Cases, Write(c) \/ Skip(c) \/ WriteRefused(c)
    PROVE  Remembered'
<1>. USE DEF OnceInv, Remembered
<1>1. run \in [on : BOOLEAN, at : Instants, place : {"here", "elsewhere", "gone"},
               old : SUBSET Cases, todo : SUBSET Cases, done : SUBSET Cases]
  BY DEF LedgerInv, CasesTyped
<1>2. run.on /\ c \in run.todo /\ resolved' = resolved
  BY DEF Write, Skip, WriteRefused, Score
<1>3. CASE Write(c)
  <2>1. PICK o : outcomes' = [outcomes EXCEPT ![c] = Append(@, o)]
    BY <1>3 DEF Write
  <2>2. run' = [run EXCEPT !.todo = @ \ {c}, !.done = @ \cup {c}]
    BY <1>3 DEF Write
  <2>3. /\ run'.on /\ run'.old = run.old /\ run'.todo = run.todo \ {c} /\ run'.done = run.done \cup {c}
    BY <1>1, <1>2, <2>2
  <2>4. outcomes[c] = <<>>
    BY <1>2
  <2>5. Len(outcomes'[c]) = 1 /\ \A k \in Cases \ {c} : outcomes'[k] = outcomes[k]
    <3>1. outcomes'[c] = <<o>> /\ \A k \in Cases \ {c} : outcomes'[k] = outcomes[k]
      BY <2>1, <2>4 DEF LedgerInv, Evidenced
    <3>. QED  BY <3>1
  <2>6. \A k \in Cases : Len(outcomes'[k]) <= 1 /\ (outcomes'[k] # <<>> => k \in resolved' \/ k \in run'.done)
    <3>1. ASSUME NEW k \in Cases \ {c}
          PROVE  Len(outcomes'[k]) <= 1 /\ (outcomes'[k] # <<>> => k \in resolved' \/ k \in run'.done)
      BY <1>2, <2>3, <2>5
    <3>2. Len(outcomes'[c]) <= 1 /\ c \in run'.done
      BY <2>3, <2>5
    <3>. QED  BY <3>1, <3>2
  <2>7. /\ \A k \in run'.todo : k \notin resolved' /\ k \notin run'.done
        /\ \A k \in run'.done : k \notin run'.old
    BY <1>2, <2>3
  <2>. QED  BY <1>2, <2>3, <2>6, <2>7
<1>4. CASE Skip(c) \/ WriteRefused(c)
  <2>1. run' = [run EXCEPT !.todo = @ \ {c}] /\ outcomes' = outcomes
    BY <1>4 DEF Skip, WriteRefused
  <2>2. /\ run'.on /\ run'.old = run.old /\ run'.todo = run.todo \ {c} /\ run'.done = run.done
    BY <1>1, <1>2, <2>1
  <2>. QED  BY <1>2, <2>1, <2>2
<1>. QED  BY <1>3, <1>4

\* A case is scored once, where the state file has room for every case and no
\* pass was cut short (next60_outcomes_v55.py: "safe to run repeatedly").
THEOREM EachIsScoredOnce ==
    ASSUME Enough
    PROVE  Spec => []ScoredOnce
<1>1. Init => OnceInv
  <2>. SUFFICES ASSUME Init  PROVE OnceInv
    OBVIOUS
  <2>1. Remembered
    BY DEF Init, Remembered, NoRun
  <2>. QED  BY <2>1, LedgerInit DEF OnceInv
<1>2. OnceInv /\ [Next]_vars => OnceInv'
  <2>. SUFFICES ASSUME OnceInv, [Next]_vars
                PROVE  OnceInv'
    OBVIOUS
  <2>1. LedgerInv'
    BY LedgerStep DEF OnceInv
  <2>2. CASE cut
    <3>1. cut'
      BY <2>2 DEF Next, vars, Tick, Move, Begin, BeginUnread, Finish, Crash, Ask, Compacted, Recorded, Write, Skip, WriteRefused,
                  LookupFails, Stop
    <3>. QED  BY <2>1, <3>1 DEF OnceInv
  <2>3. CASE ~cut
    <3>1. CASE BeginUnread
      BY <2>1, <3>1 DEF BeginUnread, OnceInv
    <3>2. CASE Tick \/ Move \/ Compacted \/ Recorded \/ (\E c \in Cases : Ask(c)) \/ UNCHANGED vars
      <4>1. UNCHANGED <<outcomes, resolved, run>>
        BY <3>2 DEF Tick, Move, Ask, Compacted, Recorded, vars
      <4>. QED  BY <2>1, <2>3, <4>1 DEF OnceInv, Remembered
    <3>3. CASE Begin \/ Finish \/ Crash \/ \E c \in Cases : LookupFails(c)
      BY <2>1, <2>3, <3>3, PassRemembered DEF OnceInv
    <3>4. ASSUME NEW c \in Cases, Write(c) \/ Skip(c) \/ WriteRefused(c)
          PROVE  OnceInv'
      BY <2>1, <2>3, <3>4, ScoredRemembered DEF OnceInv
    <3>. QED  BY <3>1, <3>2, <3>3, <3>4 DEF Next
  <2>. QED  BY <2>2, <2>3
<1>3. OnceInv => ScoredOnce
  BY DEF OnceInv, Remembered, ScoredOnce
<1>. QED  BY <1>1, <1>2, <1>3, PTL DEF Spec
-----------------------------------------------------------------------------
(* The process: the inductive invariant.                                    *)

LifeStages == {"connect", "tasks", "bot", "serving", "stop bot", "cancel", "join",
               "audit", "telemetry", "enrichment", "storage", "database", "down"}
Up == {"connect", "tasks", "bot", "serving"}
AfterJoin == {"audit", "telemetry", "enrichment", "storage", "database", "down"}

LifeTypes ==
  /\ stage \in LifeStages /\ DOMAIN pc = Life!Callers
  /\ queue \in Seq(Updates) /\ handled \in [Updates -> Nat] /\ acked \subseteq recent
  /\ work \subseteq Life!Works

\* Startup is over when lifespan() goes on; whoever works after that is a task,
\* and no task outlives the join.
NobodyWorks ==
  /\ stage # "connect" => pc["main"] = "off"
  /\ stage = "join" => tasks \subseteq cancelled
  /\ stage \in AfterJoin => tasks = {}
  /\ stage = "stop bot" => bot # "running"
  /\ stage \notin Up \cup {"stop bot"} => bot \notin {"running", "stopping"}

\* What was accepted is in the queue once or was handled once.
OneEach ==
  /\ \A i, j \in 1..Len(queue) : queue[i] = queue[j] => i = j
  /\ \A u \in Updates : /\ handled[u] <= 1 /\ (u \in recent => Life!InQueue(u) \/ handled[u] > 0)
                        /\ Life!InQueue(u) => handled[u] = 0 /\ u \in recent
                        /\ handled[u] > 0 => u \in recent

\* ClosedInOrder, stage by stage.
Shut ==
  /\ stage = "telemetry" => "audit" \notin work
  /\ stage = "enrichment" => work \subseteq {"enrichment"}
  /\ stage \in {"storage", "database", "down"} => work = {}
  /\ stage \in {"database", "down"} => ~loops
  /\ stage = "down" => maintenance # "running" /\ ~client

InOrder == LifeTypes /\ NobodyWorks /\ OneEach /\ Shut

-----------------------------------------------------------------------------
\* A step of the process that leaves the updates alone.
LEMMA UpdatesUntouched ==
    ASSUME OneEach, UNCHANGED <<queue, recent, acked, handled>>
    PROVE  OneEach'
BY DEF OneEach, Life!InQueue

\* A step before the join, or one that touches nothing the order is about.
LEMMA BeforeTheEnd ==
    ASSUME InOrder, UNCHANGED <<queue, recent, acked, handled>>, stage' \in Up, DOMAIN pc' = Life!Callers,
           stage' # "connect" => pc'["main"] = "off", work' \subseteq Life!Works
    PROVE  InOrder'
<1>1. OneEach'
  BY UpdatesUntouched DEF InOrder
<1>2. Shut'
  BY DEF Up, Shut
<1>3. LifeTypes' /\ NobodyWorks'
  BY DEF InOrder, LifeTypes, NobodyWorks, Up, AfterJoin, LifeStages
<1>. QED  BY <1>1, <1>2, <1>3 DEF InOrder

\* Who may still connect: nobody from the join on.
LEMMA Connects ==
    ASSUME InOrder, NEW c \in Life!Callers, NEW p, p # "off", Life!At(c, p)
    PROVE  /\ stage \in Up \cup {"stop bot", "cancel"}
           /\ c = "main" => stage = "connect"
<1>1. c = "main" => stage = "connect"
  BY DEF Life!At, InOrder, NobodyWorks
<1>2. c = "reconnect" => "reconnect" \in tasks \ cancelled
  BY DEF Life!At, Life!Runs
<1>3. c \in {"main", "reconnect"}
  BY DEF Life!Callers
<1>4. stage \notin {"join"} \cup AfterJoin
  BY <1>1, <1>2, <1>3 DEF InOrder, NobodyWorks, AfterJoin
<1>. QED  BY <1>1, <1>4 DEF InOrder, LifeTypes, LifeStages, Up, AfterJoin

LEMMA ConnectingInOrder ==
    ASSUME InOrder, NEW c \in Life!Callers, Life!Connecting(c) \/ (c = "reconnect" /\ Life!Retry)
    PROVE  InOrder'
<1>1. UNCHANGED <<queue, recent, acked, handled, work, bot>>
  BY DEF Life!Connecting, Life!Retry, Life!Connect, Life!Ping, Life!Fail, Life!Prepare, Life!Warm,
         Life!WarmFails, Life!Rest, Life!telegram
<1>2. \E p : p # "off" /\ Life!At(c, p)
  BY DEF Life!Connecting, Life!Retry, Life!Connect, Life!Ping, Life!Fail, Life!Prepare, Life!Warm,
         Life!WarmFails
<1>3. /\ stage \in Up \cup {"stop bot", "cancel"}
      /\ c = "main" => stage = "connect"
  BY <1>2, Connects
<1>4. DOMAIN pc' = Life!Callers
  BY DEF InOrder, LifeTypes, Life!Callers, Life!Connecting, Life!Retry, Life!Connect, Life!Ping, Life!Fail,
         Life!Prepare, Life!Warm, Life!WarmFails, Life!GiveUp
<1>5. /\ c # "main" => stage' = stage /\ pc'["main"] = pc["main"]
      /\ c = "main" => stage' \in {stage, "tasks"} /\ (stage' = "tasks" => pc'["main"] = "off")
  <2>1. /\ c \in {"main", "reconnect"} /\ DOMAIN pc = {"main", "reconnect"} /\ stage \in LifeStages
        /\ c = "main" => stage = "connect"
    BY <1>3 DEF InOrder, LifeTypes, Life!Callers
  <2>2. CASE UNCHANGED stage /\ \E p : pc' = [pc EXCEPT ![c] = p]
    BY <2>1, <2>2
  <2>3. CASE Life!GiveUp(c)
    BY <2>1, <2>3 DEF Life!GiveUp
  <2>4. CASE Life!Warm(c)
    BY <2>1, <2>4 DEF Life!Warm
  <2>5. CASE UNCHANGED <<stage, pc>>
    BY <2>1, <2>5
  <2>6. CASE Life!Connect(c)
    BY <2>2, <2>6 DEF Life!Connect
  <2>7. CASE Life!Ping(c) \/ Life!Prepare(c)
    BY <2>2, <2>5, <2>7 DEF Life!Ping, Life!Prepare
  <2>8. CASE Life!Fail(c) \/ Life!WarmFails(c)
    BY <2>2, <2>3, <2>8 DEF Life!Fail, Life!WarmFails
  <2>9. CASE c = "reconnect" /\ Life!Retry
    BY <2>1, <2>9 DEF Life!Retry
  <2>. QED  BY <2>4, <2>6, <2>7, <2>8, <2>9 DEF Life!Connecting
<1>6. stage' \in Up \cup {"stop bot", "cancel"} /\ (stage' # "connect" => pc'["main"] = "off")
  BY <1>3, <1>5 DEF InOrder, NobodyWorks, Up
<1>7. CASE stage' \in Up
  <2>1. work' \subseteq Life!Works
    BY <1>1 DEF InOrder, LifeTypes
  <2>. QED  BY <1>1, <1>4, <1>6, <1>7, <2>1, BeforeTheEnd
<1>8. CASE stage' \notin Up
  <2>1. stage' = stage
    BY <1>3, <1>5, <1>8 DEF Up
  <2>2. OneEach'
    BY <1>1, UpdatesUntouched DEF InOrder
  <2>3. Shut' /\ LifeTypes' /\ NobodyWorks'
    BY <1>1, <1>4, <1>6, <1>8, <2>1
       DEF InOrder, LifeTypes, NobodyWorks, Up, AfterJoin, LifeStages, Shut
  <2>. QED  BY <2>2, <2>3 DEF InOrder
<1>. QED  BY <1>7, <1>8

\* The monitor and the maintenance.
LEMMA RunningInOrder ==
    ASSUME InOrder,
           Life!Outage \/ Life!Maintain \/ Life!ColdRead \/ Life!ColdAnswer \/ Life!Cycle
             \/ (\E w \in Life!Works : Life!Work(w))
    PROVE  InOrder'
<1>1. UNCHANGED <<queue, recent, acked, handled, bot, stage, pc, tasks, cancelled, client>>
  BY DEF Life!Outage, Life!Maintain, Life!ColdRead, Life!ColdAnswer, Life!Cycle, Life!Work, Life!Rest,
         Life!boot, Life!telegram
<1>2. OneEach' /\ LifeTypes' /\ NobodyWorks'
  <2>1. work \subseteq Life!Works => work' \subseteq Life!Works
    BY DEF Life!Outage, Life!Maintain, Life!ColdRead, Life!ColdAnswer, Life!Cycle, Life!Work, Life!Rest
  <2>2. LifeTypes'
    BY <1>1, <2>1 DEF InOrder, LifeTypes
  <2>3. OneEach' /\ NobodyWorks'
    BY <1>1, UpdatesUntouched DEF InOrder, NobodyWorks
  <2>. QED  BY <2>2, <2>3
<1>3. maintenance' = "running" => maintenance = "running"
  BY DEF Life!Outage, Life!Maintain, Life!ColdRead, Life!ColdAnswer, Life!Cycle, Life!Work, Life!boot
<1>4. CASE Life!Monitoring
  <2>1. stage \notin {"join"} \cup AfterJoin
    BY <1>4 DEF InOrder, NobodyWorks, Life!Monitoring
  <2>2. Shut'
    BY <1>1, <2>1 DEF AfterJoin, Shut
  <2>. QED  BY <1>2, <2>2 DEF InOrder
<1>5. CASE ~Life!Monitoring
  <2>1. loops' = loops /\ work' \subseteq work
    BY <1>5 DEF Life!Outage, Life!Maintain, Life!ColdRead, Life!ColdAnswer, Life!Cycle, Life!Work,
                Life!storage, Life!Rest, Life!Calm
  <2>2. Shut'
    BY <1>1, <1>3, <2>1 DEF InOrder, Shut
  <2>. QED  BY <1>2, <2>2 DEF InOrder
<1>. QED  BY <1>4, <1>5

LEMMA ClosingInOrder ==
    ASSUME InOrder, Life!Closing \/ Life!Shutdown
    PROVE  InOrder'
<1>. USE DEF Life!Down, InOrder, LifeTypes, NobodyWorks, Up, AfterJoin, LifeStages, Shut
<1>1. UNCHANGED <<queue, recent, acked, handled>>
  BY DEF Life!Closing, Life!Shutdown, Life!StopBot, Life!CancelTasks, Life!Join, Life!CloseWork,
         Life!CloseStorage, Life!CloseDatabase, Life!End, Life!telegram
<1>2. OneEach'
  BY <1>1, UpdatesUntouched
<1>3. CASE Life!Shutdown
  BY <1>1, <1>2, <1>3 DEF Life!Shutdown, Life!boot
<1>4. CASE Life!StopBot
  BY <1>1, <1>2, <1>4 DEF Life!StopBot, Life!boot
<1>5. CASE Life!CancelTasks
  BY <1>1, <1>2, <1>5 DEF Life!CancelTasks, Life!boot
<1>6. CASE Life!Join
  BY <1>1, <1>2, <1>6 DEF Life!Join, Life!boot
<1>7. CASE Life!CloseWork
  <2>1. /\ stage \in {"audit", "telemetry", "enrichment"} /\ work' = work \ {stage}
        /\ stage' = Life!After[stage]
        /\ UNCHANGED <<pc, client, maintenance, loops, tasks, cancelled, bot>>
    BY <1>7 DEF Life!CloseWork, Life!boot, Life!Works
  <2>2. /\ Life!After["audit"] = "telemetry" /\ Life!After["telemetry"] = "enrichment"
        /\ Life!After["enrichment"] = "storage"
    BY DEF Life!After
  <2>3. /\ stage = "telemetry" => "audit" \notin work
        /\ stage = "enrichment" => work \subseteq {"enrichment"}
        /\ work \subseteq Life!Works
    OBVIOUS
  <2>4. Shut' /\ NobodyWorks' /\ LifeTypes'
    <3>1. CASE stage = "audit"
      BY <1>1, <2>1, <2>2, <2>3, <3>1 DEF Life!Works
    <3>2. CASE stage = "telemetry"
      BY <1>1, <2>1, <2>2, <2>3, <3>2 DEF Life!Works
    <3>3. CASE stage = "enrichment"
      BY <1>1, <2>1, <2>2, <2>3, <3>3 DEF Life!Works
    <3>. QED  BY <2>1, <3>1, <3>2, <3>3
  <2>. QED  BY <1>2, <2>4
<1>8. CASE Life!CloseStorage
  BY <1>1, <1>2, <1>8 DEF Life!CloseStorage, Life!boot
<1>9. CASE Life!CloseDatabase
  BY <1>1, <1>2, <1>9 DEF Life!CloseDatabase
<1>10. ASSUME NEW t \in cancelled, Life!End(t)
       PROVE  InOrder'
  <2>1. /\ tasks' = tasks \ {t} /\ cancelled' = cancelled \ {t} /\ UNCHANGED <<stage, client, maintenance, loops, work, bot>>
        /\ pc' = IF t = "reconnect" THEN [pc EXCEPT !["reconnect"] = "off"] ELSE pc
    BY <1>10 DEF Life!End, Life!telegram
  <2>2. DOMAIN pc' = DOMAIN pc /\ pc'["main"] = pc["main"]
    BY <2>1 DEF Life!Callers
  <2>3. LifeTypes' /\ NobodyWorks' /\ Shut'
    BY <1>1, <2>1, <2>2
  <2>. QED  BY <1>2, <2>3
<1>. QED  BY <1>3, <1>4, <1>5, <1>6, <1>7, <1>8, <1>9, <1>10 DEF Life!Closing

LEMMA StartingInOrder ==
    ASSUME InOrder, Life!Starting
    PROVE  InOrder'
BY BeforeTheEnd DEF Life!Starting, Life!StartTasks, Life!StartBot, Life!boot, Life!telegram, Up,
   InOrder, LifeTypes, NobodyWorks

\* What an update leaves: the rest of the process stands still.
LEMMA UpdatesInOrder ==
    ASSUME InOrder, OneEach', queue' \in Seq(Updates), handled' \in [Updates -> Nat], acked' \subseteq recent',
           UNCHANGED <<stage, pc, client, maintenance, loops, tasks, cancelled, work, bot>>
    PROVE  InOrder'
BY DEF InOrder, LifeTypes, NobodyWorks, Shut

LEMMA WebhookInOrder ==
    ASSUME InOrder, NEW u \in Updates, Life!Webhook(u)
    PROVE  InOrder'
<1>1. /\ recent' = recent \cup {u} /\ acked' \subseteq acked \cup {u} /\ handled' = handled
      /\ queue' = IF u \in recent THEN queue ELSE Append(queue, u)
      /\ UNCHANGED <<stage, pc, client, maintenance, loops, tasks, cancelled, work, bot>>
  BY DEF Life!Webhook, Life!boot, Life!storage
<1>2. queue \in Seq(Updates) /\ OneEach /\ acked \subseteq recent /\ handled \in [Updates -> Nat]
  BY DEF InOrder, LifeTypes
<1>3. OneEach'
  <2>1. CASE u \in recent
    <3>1. queue' = queue /\ recent' = recent /\ handled' = handled
      BY <1>1, <2>1
    <3>. QED  BY <1>2, <3>1 DEF OneEach, Life!InQueue
  <2>2. CASE u \notin recent
    <3>1. /\ queue' = Append(queue, u) /\ Len(queue') = Len(queue) + 1 /\ queue'[Len(queue) + 1] = u
          /\ \A i \in 1..Len(queue) : queue'[i] = queue[i] /\ queue[i] # u
          /\ Len(queue) \in Nat /\ handled[u] = 0
      BY <1>1, <1>2, <2>2 DEF OneEach, Life!InQueue
    <3>2. \A v \in Updates : Life!InQueue(v)' <=> (Life!InQueue(v) \/ v = u)
      BY <3>1 DEF Life!InQueue
    <3>3. \A i, j \in 1..Len(queue') : queue'[i] = queue'[j] => i = j
      BY <1>2, <3>1 DEF OneEach
    <3>. QED  BY <1>1, <1>2, <3>1, <3>2, <3>3 DEF OneEach
  <2>. QED  BY <2>1, <2>2
<1>. QED  BY <1>1, <1>2, <1>3, UpdatesInOrder

LEMMA HandleInOrder ==
    ASSUME InOrder, Life!Handle
    PROVE  InOrder'
<1>. DEFINE u == Head(queue)
<1>1. /\ recent' = recent /\ acked' = acked /\ handled' = [handled EXCEPT ![u] = @ + 1]
      /\ queue' = Tail(queue) /\ queue # <<>>
      /\ UNCHANGED <<stage, pc, client, maintenance, loops, tasks, cancelled, work, bot>>
  BY DEF Life!Handle, Life!boot, Life!storage
<1>2. queue \in Seq(Updates) /\ OneEach /\ acked \subseteq recent /\ handled \in [Updates -> Nat]
  BY DEF InOrder, LifeTypes
<1>3. /\ queue' \in Seq(Updates) /\ Len(queue) \in Nat \ {0} /\ Len(queue') = Len(queue) - 1
      /\ \A i \in 1..Len(queue') : queue'[i] = queue[i + 1]
      /\ u = queue[1] /\ u \in Updates
  BY <1>1, <1>2
<1>4. OneEach'
  <2>1. \A i, j \in 1..Len(queue') : queue'[i] = queue'[j] => i = j
    <3>. SUFFICES ASSUME NEW i \in 1..Len(queue'), NEW j \in 1..Len(queue'), queue'[i] = queue'[j]
                  PROVE  i = j
      OBVIOUS
    <3>1. i + 1 \in 1..Len(queue) /\ j + 1 \in 1..Len(queue) /\ queue[i + 1] = queue[j + 1]
      BY <1>3
    <3>2. i + 1 = j + 1
      BY <1>2, <3>1 DEF OneEach
    <3>. QED  BY <3>2
  <2>2. \A v \in Updates : (Life!InQueue(v))' <=> (Life!InQueue(v) /\ v # u)
    <3>. SUFFICES ASSUME NEW v \in Updates
                  PROVE  (\E i \in 1..Len(queue') : queue'[i] = v) <=> ((\E i \in 1..Len(queue) : queue[i] = v) /\ v # u)
      BY DEF Life!InQueue
    <3>1. ASSUME NEW i \in 1..Len(queue'), queue'[i] = v
          PROVE  (\E k \in 1..Len(queue) : queue[k] = v) /\ v # u
      <4>0. queue[i + 1] = v
        BY <1>3, <3>1
      <4>1. i + 1 \in 1..Len(queue) /\ queue[i + 1] = v /\ 1 \in 1..Len(queue) /\ i + 1 # 1
        <5>1. i \in Nat \ {0} /\ i <= Len(queue) - 1
          BY <1>3
        <5>. QED  BY <1>3, <4>0, <5>1
      <4>2. queue[i + 1] # queue[1]
        BY <1>2, <4>1 DEF OneEach
      <4>. QED  BY <1>3, <4>1, <4>2
    <3>2. ASSUME NEW i \in 1..Len(queue), queue[i] = v, v # u
          PROVE  \E k \in 1..Len(queue') : queue'[k] = v
      <4>1. i # 1
        BY <1>3, <3>2
      <4>2. i - 1 \in 1..Len(queue') /\ queue'[i - 1] = queue[i]
        <5>1. i - 1 \in 1..Len(queue') /\ (i - 1) + 1 = i
          BY <1>3, <4>1
        <5>. QED  BY <1>3, <5>1
      <4>. QED  BY <3>2, <4>2
    <3>. QED  BY <3>1, <3>2
  <2>3. Life!InQueue(u)
    BY <1>3 DEF Life!InQueue
  <2>. HIDE DEF u
  <2>4. handled[u] = 0 /\ u \in recent
    BY <1>2, <1>3, <2>3 DEF OneEach
  <2>5. \A v \in Updates : handled'[v] = IF v = u THEN 1 ELSE handled[v]
    BY <1>1, <1>2, <2>4
  <2>. QED  BY <1>1, <1>2, <2>1, <2>2, <2>4, <2>5 DEF OneEach
<1>5. handled' \in [Updates -> Nat]
  BY <1>1, <1>2, <1>3
<1>. QED  BY <1>1, <1>2, <1>3, <1>4, <1>5, UpdatesInOrder

\* The queue as AcceptedOnce counts it.
LEMMA CountedOnce ==
    ASSUME LifeTypes, OneEach
    PROVE  Life!AcceptedOnce
<1>1. SUFFICES ASSUME NEW u \in Updates
               PROVE  /\ u \in acked => Life!InQueue(u) \/ handled[u] > 0
                      /\ handled[u] + Cardinality({i \in 1..Len(queue) : queue[i] = u}) <= 1
  <2>1. \A S : Life!Cardinality(S) = Cardinality(S)
    BY DEF Life!Cardinality, Cardinality
  <2>. QED  BY <1>1, <2>1 DEF Life!AcceptedOnce
<1>. DEFINE places == {i \in 1..Len(queue) : queue[i] = u}
<1>2. handled[u] \in {0, 1} /\ u \in acked => (Life!InQueue(u) \/ handled[u] > 0)
  BY DEF LifeTypes, OneEach
<1>3. CASE places = {}
  <2>1. Cardinality(places) = 0
    BY <1>3, FS_EmptySet
  <2>2. handled[u] \in {0, 1}
    BY DEF LifeTypes, OneEach
  <2>. HIDE DEF places
  <2>. QED  BY <1>2, <2>1, <2>2 DEF places
<1>4. CASE places # {}
  <2>1. PICK i \in 1..Len(queue) : queue[i] = u
    BY <1>4
  <2>2. places = {i}
    BY <2>1 DEF OneEach
  <2>3. handled[u] = 0
    BY <2>1 DEF OneEach, Life!InQueue
  <2>4. Cardinality(places) = 1
    BY <2>2, FS_Singleton
  <2>5. Life!InQueue(u)
    BY <2>1 DEF Life!InQueue
  <2>. HIDE DEF places
  <2>. QED  BY <2>3, <2>4, <2>5 DEF places
<1>. QED  BY <1>3, <1>4

\* The process closes in order: nothing that lifespan() started writes after
\* the database is closed, and every update is accepted and handled once.
THEOREM ServerClosesInOrder == Life!Spec => [](Life!ClosedInOrder /\ Life!AcceptedOnce)
<1>1. Life!Init => InOrder
  <2>. SUFFICES ASSUME Life!Init  PROVE InOrder
    OBVIOUS
  <2>1. work = {} /\ queue = <<>> /\ queue \in Seq(Updates) /\ Len(queue) = 0 /\ handled = [u \in Updates |-> 0]
        /\ recent = {} /\ acked = {} /\ stage = "connect" /\ pc = [main |-> "connect", reconnect |-> "off"]
    BY DEF Life!Init
  <2>2. OneEach
    BY <2>1 DEF OneEach, Life!InQueue
  <2>3. LifeTypes
    BY <2>1 DEF LifeTypes, LifeStages, Life!Callers
  <2>. QED  BY <2>1, <2>2, <2>3 DEF InOrder, NobodyWorks, Up, AfterJoin, Shut
<1>2. InOrder /\ [Life!Next]_(Life!vars) => InOrder'
  <2>. SUFFICES ASSUME InOrder, [Life!Next]_(Life!vars)
                PROVE  InOrder'
    OBVIOUS
  <2>1. CASE UNCHANGED Life!vars
    <3>1. OneEach'
      BY <2>1, UpdatesUntouched DEF Life!vars, Life!telegram, InOrder
    <3>. QED  BY <2>1, <3>1, UpdatesInOrder DEF Life!vars, Life!boot, Life!storage, Life!telegram, InOrder, LifeTypes
  <2>2. CASE Life!Retry
    BY <2>2, ConnectingInOrder DEF Life!Callers
  <2>. QED  BY <2>1, <2>2, ConnectingInOrder, RunningInOrder, ClosingInOrder, StartingInOrder, WebhookInOrder,
               HandleInOrder DEF Life!Next
<1>3. InOrder => Life!AcceptedOnce
  BY CountedOnce DEF InOrder
<1>4. InOrder => Life!ClosedInOrder
  BY DEF InOrder, NobodyWorks, Shut, Up, AfterJoin, Life!ClosedInOrder, Life!Stopped
<1>. QED  BY <1>1, <1>2, <1>3, <1>4, PTL DEF Life!Spec
-----------------------------------------------------------------------------
(* The installation: the inductive invariant.                               *)

\* Whatever the user does between two commands of the updater, the service and
\* the environment are for the release the tree is at, or for none.
SameRelease == installed \in {checkout, None} /\ running \in {checkout, None}

OnTheWay ==
  /\ ~service => running = None
  /\ at \in {"moved", "ready", "tested", "restarted"} => checkout = target
  /\ at \in {"ready", "tested", "restarted"} => installed \in {checkout, None}
  /\ at = "restarted" => running \in {checkout, None}

\* What the updater, unless it was killed, can go back to.
CanGoBack ==
  /\ at \in {"idle", "accepted", "saved"} => checkout = approved /\ SameRelease
  /\ at \in {"saved", "moved", "ready", "tested", "restarted", "failed"} => backup.code = approved
  /\ at \in {"code undone", "data undone", "undone"} => checkout = approved
  /\ at = "undone" => installed \in {checkout, None}

Undoable == OnTheWay /\ (~damaged => CanGoBack) /\ at \in Updater!Places

\* The installer's other operations, the service and the database leave the
\* updater and the tree alone, and install and start what the tree is at.
LEMMA BetweenCommands ==
    ASSUME Undoable, UNCHANGED <<checkout, at, target, backup, damaged, approved>>,
           installed' \in {installed, checkout, None}, running' \in {running, checkout, None},
           ~service' => running' = None
    PROVE  Undoable'
BY DEF Undoable, OnTheWay, CanGoBack, SameRelease

LEMMA UserLeavesUndoable ==
    ASSUME Undoable,
           \/ Updater!Publish \/ Updater!Write \/ Updater!Checkpoint \/ Updater!Die
           \/ Updater!Repair \/ Updater!Uninstall
           \/ \E p \in {"automatic", "manual"} : Updater!Configure(p) \/ Updater!Install(p)
    PROVE  Undoable'
<1>. USE DEF Updater!tree, Updater!units, Updater!updater, Updater!InstallDependencies, Updater!Starts,
             Updater!InstallService, Updater!Enable
<1>1. UNCHANGED <<checkout, at, target, backup, damaged, approved>>
  BY DEF Updater!Publish, Updater!Write, Updater!Checkpoint, Updater!Die, Updater!Repair, Updater!Uninstall,
         Updater!Configure, Updater!Install
<1>2. installed' \in {installed, checkout, None}
  BY DEF Updater!Publish, Updater!Write, Updater!Checkpoint, Updater!Die, Updater!Repair, Updater!Uninstall,
         Updater!Configure, Updater!Install
<1>3. running' \in {running, checkout, None}
  BY DEF Updater!Publish, Updater!Write, Updater!Checkpoint, Updater!Die, Updater!Repair, Updater!Uninstall,
         Updater!Configure, Updater!Install
<1>4. ~service' => running' = None
  BY DEF Undoable, OnTheWay, Updater!Publish, Updater!Write, Updater!Checkpoint, Updater!Die, Updater!Repair,
         Updater!Uninstall, Updater!Configure, Updater!Install
<1>. QED  BY <1>1, <1>2, <1>3, <1>4, BetweenCommands

\* Forward: from the accepted release to the doctor's answer.
LEMMA ForwardStaysUndoable ==
    ASSUME Undoable,
           Updater!Accept \/ Updater!Save \/ Updater!Move \/ Updater!Prepare \/ Updater!Test \/ Updater!Restart
             \/ Updater!Judge
    PROVE  Undoable'
<1>. USE DEF Undoable, OnTheWay, CanGoBack, SameRelease, Updater!Go, Updater!tree, Updater!units, Updater!Places
<1>1. CASE Updater!Accept
  BY <1>1 DEF Updater!Accept
<1>2. CASE Updater!Save
  BY <1>2 DEF Updater!Save
<1>3. CASE Updater!Move
  BY <1>3 DEF Updater!Move
<1>4. CASE Updater!Prepare
  BY <1>4 DEF Updater!Prepare, Updater!InstallDependencies
<1>5. CASE Updater!Test
  BY <1>5 DEF Updater!Test
<1>6. CASE Updater!Restart
  BY <1>6 DEF Updater!Restart, Updater!RestartService, Updater!Starts
<1>7. CASE Updater!Judge
  BY <1>7 DEF Updater!Judge
<1>. QED  BY <1>1, <1>2, <1>3, <1>4, <1>5, <1>6, <1>7

\* Back: one command of the undoing after the other, or the host goes down.
LEMMA BackwardStaysUndoable ==
    ASSUME Undoable,
           Updater!UndoCode \/ Updater!UndoData \/ Updater!UndoEnvironment \/ Updater!UndoRestart \/ Updater!Reboot
    PROVE  Undoable'
<1>. USE DEF Undoable, OnTheWay, CanGoBack, SameRelease, Updater!Go, Updater!tree, Updater!units, Updater!Places
<1>1. CASE Updater!UndoCode
  BY <1>1 DEF Updater!UndoCode
<1>2. CASE Updater!UndoData
  BY <1>2 DEF Updater!UndoData
<1>3. CASE Updater!UndoEnvironment
  BY <1>3 DEF Updater!UndoEnvironment, Updater!InstallDependencies
<1>4. CASE Updater!UndoRestart
  BY <1>4 DEF Updater!UndoRestart, Updater!RestartService, Updater!Starts
<1>5. CASE Updater!Reboot
  BY <1>5 DEF Updater!Reboot, Updater!Starts
<1>. QED  BY <1>1, <1>2, <1>3, <1>4, <1>5

\* An updater that ends leaves the installation at the release the doctor
\* approved last (scripts/community_installer_v55.py, update and its undoing).
THEOREM UpdaterEndsAtRest == Updater!Spec => []Updater!AtRest
<1>1. Updater!Init => Undoable
  BY DEF Updater!Init, Undoable, OnTheWay, CanGoBack, SameRelease, Updater!Places
<1>2. Undoable /\ [Updater!Next]_(Updater!vars) => Undoable'
  <2>. SUFFICES ASSUME Undoable, [Updater!Next]_(Updater!vars)
                PROVE  Undoable'
    OBVIOUS
  <2>1. CASE UNCHANGED Updater!vars
    BY <2>1 DEF Updater!vars, Updater!tree, Updater!units, Updater!updater, Undoable, OnTheWay, CanGoBack,
                SameRelease
  <2>. QED  BY <2>1, UserLeavesUndoable, ForwardStaysUndoable, BackwardStaysUndoable
               DEF Updater!Next, Updater!Proceed, Updater!ByTimer, Updater!ByHand
<1>3. Undoable => Updater!AtRest
  BY DEF Undoable, CanGoBack, SameRelease, Updater!AtRest
<1>. QED  BY <1>1, <1>2, <1>3, PTL DEF Updater!Spec
-----------------------------------------------------------------------------
(* The credentials.                                                         *)

\* The first usable credential from i on is one of those that are not set aside,
\* and i itself where i is usable.
LEMMA FirstIsUsable ==
    ASSUME Count \in Nat \ {0}, NEW i \in Nat, i <= Count, NEW out, ~(Pool!Keys \subseteq out)
    PROVE  /\ Pool!FirstFrom(i, out) \in Pool!Keys \ out
           /\ i \in Pool!Keys \ out => Pool!FirstFrom(i, out) = i
<1>. DEFINE steps == {n \in 0..(Count - 1) : Pool!Usable((i + n) % Count, out)}
            least == CHOOSE n \in steps : \A m \in steps : n <= m
<1>1. PICK k \in Pool!Keys : k \notin out
  OBVIOUS
<1>2. steps # {}
  <2>1. CASE i <= k
    <3>1. k - i \in 0..(Count - 1) /\ (i + (k - i)) % Count = k
      BY <2>1 DEF Pool!Keys
    <3>. QED  BY <1>1, <3>1 DEF Pool!Usable
  <2>2. CASE i > k
    <3>1. (k - i) + Count \in 0..(Count - 1) /\ i + ((k - i) + Count) = k + Count /\ (k + Count) % Count = k
      BY <2>2 DEF Pool!Keys
    <3>. QED  BY <1>1, <3>1 DEF Pool!Usable
  <2>. QED  BY <2>1, <2>2 DEF Pool!Keys
<1>3. least \in steps /\ \A m \in steps : least <= m
  <2>1. \E n \in steps : \A m \in steps : n <= m
    <3>1. steps \in SUBSET Nat
      OBVIOUS
    <3>. HIDE DEF steps
    <3>. QED  BY <1>2, <3>1, LeastElement
  <2>. HIDE DEF steps
  <2>. QED  BY <2>1
<1>4. Pool!FirstFrom(i, out) = (i + least) % Count
  BY <1>1 DEF Pool!FirstFrom, Pool!Usable
<1>5. (i + least) % Count \in Pool!Keys
  <2>1. i + least \in Nat
    BY <1>3
  <2>. HIDE DEF least
  <2>. QED  BY <2>1 DEF Pool!Keys
<1>6. (i + least) % Count \notin out
  BY <1>3 DEF Pool!Usable
<1>7. ASSUME i \in Pool!Keys \ out
      PROVE  (i + least) % Count = i
  <2>1. 0 \in steps
    <3>1. (i + 0) % Count = i /\ 0 \in 0..(Count - 1)
      BY <1>7 DEF Pool!Keys
    <3>. QED  BY <1>7, <3>1 DEF Pool!Usable
  <2>2. least = 0
    BY <1>3, <2>1
  <2>. HIDE DEF least
  <2>. QED  BY <1>7, <2>2 DEF Pool!Keys
<1>. HIDE DEF least
<1>. QED  BY <1>4, <1>5, <1>6, <1>7

\* With every credential set aside there is none.
LEMMA NoneIsUsable ==
    ASSUME NEW i, NEW out, Pool!Keys \subseteq out
    PROVE  Pool!FirstFrom(i, out) = Pool!NoKey
BY DEF Pool!FirstFrom, Pool!Usable

\* After a rotation the pool stands at the credential that is asked next.
LEMMA RotatedToNext ==
    ASSUME Count \in Nat \ {0}, current \in Pool!Keys, NEW out
    PROVE  /\ Pool!Rotate(out) \in Pool!Keys
           /\ Pool!FirstFrom(Pool!Rotate(out), out) \in {Pool!NoKey, Pool!Rotate(out)}
<1>1. current + 1 \in Nat /\ current + 1 <= Count /\ Pool!NoKey \notin Pool!Keys
  BY DEF Pool!Keys, Pool!NoKey
<1>2. CASE Pool!Keys \subseteq out
  BY <1>1, <1>2, NoneIsUsable DEF Pool!Rotate
<1>3. CASE ~(Pool!Keys \subseteq out)
  <2>1. Pool!FirstFrom(current + 1, out) \in Pool!Keys \ out
    BY <1>1, <1>3, FirstIsUsable
  <2>2. Pool!Rotate(out) = Pool!FirstFrom(current + 1, out)
    BY <1>1, <2>1 DEF Pool!Rotate
  <2>3. Pool!Rotate(out) \in Nat /\ Pool!Rotate(out) <= Count
    BY <2>1, <2>2 DEF Pool!Keys
  <2>. QED  BY <1>3, <2>1, <2>2, <2>3, FirstIsUsable
<1>. QED  BY <1>2, <1>3

\* The same of the credential that is available.
LEMMA SettledOnAvailable ==
    ASSUME Count \in Nat \ {0}, current \in Pool!Keys
    PROVE  /\ Pool!Available \in Pool!Keys \cup {Pool!NoKey} /\ Pool!Settle(Pool!Available) \in Pool!Keys
           /\ Pool!FirstFrom(Pool!Settle(Pool!Available), aside) \in {Pool!NoKey, Pool!Settle(Pool!Available)}
<1>1. current \in Nat /\ current <= Count /\ Pool!NoKey \notin Pool!Keys
  BY DEF Pool!Keys, Pool!NoKey
<1>2. CASE Pool!Keys \subseteq aside
  BY <1>1, <1>2, NoneIsUsable DEF Pool!Settle, Pool!Available
<1>3. CASE ~(Pool!Keys \subseteq aside)
  <2>1. Pool!FirstFrom(current, aside) \in Pool!Keys \ aside
    BY <1>1, <1>3, FirstIsUsable
  <2>2. Pool!Settle(Pool!Available) = Pool!FirstFrom(current, aside)
    BY <1>1, <2>1 DEF Pool!Settle, Pool!Available
  <2>3. Pool!Settle(Pool!Available) \in Nat /\ Pool!Settle(Pool!Available) <= Count
    BY <2>1, <2>2 DEF Pool!Keys
  <2>. QED  BY <1>3, <2>1, <2>2, <2>3, FirstIsUsable DEF Pool!Available
<1>. QED  BY <1>2, <1>3

(* The inductive invariant: what is under way is done with the current key,  *)
(* so whatever sets the current key aside is an answer to its own request.   *)
Requests == [stage : {"gone", "sent", "refresh", "replace", "again"}, key : Pool!Keys \cup {Pool!NoKey}]
ForCause ==
  /\ current \in Pool!Keys
  /\ poll \in [stage : {"idle", "token", "boxes"}, key : Pool!Keys \cup {Pool!NoKey}]
  /\ box \in [Boxes -> Requests]
  /\ \A b \in Boxes : box[b].stage # "gone" => box[b].key = current
  /\ poll.stage = "token" => poll.key = current /\ box = [b \in Boxes |-> Pool!Gone]
  /\ aside \subseteq blamed /\ aside \subseteq Pool!Keys

OneBox == \E b : Boxes = {b}

\* A poll begins or gets its token.
LEMMA AskingForCause ==
    ASSUME Pool!KeyAssumption, ForCause,
           Pool!Ask \/ Pool!TokenGranted \/ Pool!TokenRefused \/ Pool!TokenFailed
    PROVE  ForCause'
<1>. USE DEF ForCause, Pool!Gone, Pool!Idle, Requests
<1>0. Count \in Nat \ {0}
  BY DEF Pool!KeyAssumption
<1>1. CASE Pool!Ask
  <2>. DEFINE out == aside \ Pool!Stale
              key == Pool!FirstFrom(current, out)
  <2>1. /\ aside' = out /\ blamed' = blamed \ Pool!Stale /\ current' = key
        /\ \/ /\ poll' = [stage |-> "boxes", key |-> key]
              /\ box' = [b \in Boxes |-> [stage |-> "sent", key |-> key]]
           \/ /\ poll' = [stage |-> "token", key |-> key] /\ box' = box
    BY <1>1 DEF Pool!Ask, Pool!Reset
  <2>2. ~(Pool!Keys \subseteq out)
    <3>1. aside # Pool!Keys /\ out \subseteq aside
      BY <1>1 DEF Pool!Ask
    <3>. QED  BY <3>1
  <2>3. key \in Pool!Keys
    <3>1. current \in Nat /\ current <= Count
      BY <1>0 DEF Pool!Keys
    <3>. QED  BY <1>0, <2>2, <3>1, FirstIsUsable
  <2>4. box = [b \in Boxes |-> Pool!Gone]
    BY <1>1 DEF Pool!Ask
  <2>. HIDE DEF key, out
  <2>. QED  BY <2>1, <2>3, <2>4 DEF out
<1>2. CASE Pool!TokenGranted
  BY <1>2 DEF Pool!TokenGranted, Pool!SendAll
<1>3. CASE Pool!TokenRefused
  <2>. DEFINE next == Pool!FirstFrom(current', aside')
  <2>1. /\ poll.stage = "token" /\ aside' = aside \cup {poll.key} /\ blamed' = blamed \cup {poll.key}
        /\ current' = Pool!Rotate(aside')
    BY <1>3 DEF Pool!TokenRefused
  <2>2. \/ poll' = Pool!Idle /\ box' = box
        \/ next # Pool!NoKey /\ poll' = [stage |-> "boxes", key |-> next]
             /\ box' = [b \in Boxes |-> [stage |-> "sent", key |-> next]]
        \/ next # Pool!NoKey /\ poll' = [stage |-> "token", key |-> next] /\ box' = box
    BY <1>3 DEF Pool!TokenRefused, Pool!SendAll
  <2>3. current' \in Pool!Keys /\ (next # Pool!NoKey => next = current')
    BY <1>0, <2>1, RotatedToNext
  <2>. HIDE DEF next
  <2>4. aside' \subseteq blamed' /\ aside' \subseteq Pool!Keys /\ box = [b \in Boxes |-> Pool!Gone] /\ poll.key = current
    BY <2>1
  <2>5. CASE poll' = Pool!Idle /\ box' = box
    BY <2>3, <2>4, <2>5
  <2>6. CASE /\ next = current' /\ poll' = [stage |-> "boxes", key |-> next]
             /\ box' = [b \in Boxes |-> [stage |-> "sent", key |-> next]]
    BY <2>3, <2>4, <2>6
  <2>7. CASE next = current' /\ poll' = [stage |-> "token", key |-> next] /\ box' = box
    BY <2>3, <2>4, <2>7
  <2>. QED  BY <2>2, <2>3, <2>5, <2>6, <2>7
<1>4. CASE Pool!TokenFailed
  BY <1>4 DEF Pool!TokenFailed
<1>. QED  BY <1>1, <1>2, <1>3, <1>4

\* A request is answered, refused or renewed.
LEMMA BoxForCause ==
    ASSUME Pool!KeyAssumption, OneBox, ForCause, NEW b \in Boxes,
           \/ Pool!Answered(b) \/ Pool!Limited(b) \/ Pool!Unauthorized(b) \/ Pool!RequestFailed(b)
           \/ Pool!Refreshed(b) \/ Pool!RefreshRefused(b) \/ Pool!RefreshFailed(b)
    PROVE  ForCause'
<1>. USE DEF ForCause, Pool!Gone, Pool!Idle, Requests, Pool!Waiting, Pool!Fails, Pool!Leaves
<1>0. Count \in Nat \ {0} /\ Boxes = {b}
  BY DEF Pool!KeyAssumption, OneBox
<1>. DEFINE Left == box' = [box EXCEPT ![b] = Pool!Gone] /\ (poll' = poll \/ poll' = Pool!Idle)
            Goes(s) == box' = [box EXCEPT ![b] = [stage |-> s, key |-> current']] /\ poll' = poll
<1>1. box[b].stage # "gone" /\ box[b].key = current /\ poll.stage # "token"
  BY DEF Pool!Answered, Pool!Limited, Pool!Unauthorized, Pool!RequestFailed, Pool!Refreshed,
         Pool!RefreshRefused, Pool!RefreshFailed
<1>2. /\ current' \in Pool!Keys /\ aside' \subseteq blamed' /\ aside' \subseteq Pool!Keys
      /\ Left \/ \E s \in {"refresh", "again", "replace"} : Goes(s)
  <2>1. CASE Pool!Answered(b) \/ Pool!RequestFailed(b)
    BY <2>1 DEF Pool!Answered, Pool!RequestFailed
  <2>2. CASE Pool!Limited(b)
    BY <1>0, <1>1, <2>2, RotatedToNext DEF Pool!Limited, Pool!MarkLimited
  <2>3. CASE Pool!Unauthorized(b)
    BY <1>0, <2>3, SettledOnAvailable DEF Pool!Unauthorized
  <2>4. CASE Pool!Refreshed(b)
    <3>1. box' = [box EXCEPT ![b].stage = "again"] /\ UNCHANGED <<poll, current, aside, blamed>>
      BY <2>4 DEF Pool!Refreshed
    <3>2. [box[b] EXCEPT !.stage = "again"] = [stage |-> "again", key |-> box[b].key]
      BY <3>1
    <3>3. box' = [box EXCEPT ![b] = [stage |-> "again", key |-> box[b].key]]
      BY <3>1, <3>2
    <3>. QED  BY <1>1, <3>1, <3>3
  <2>5. CASE Pool!RefreshRefused(b)
    <3>1. /\ aside' = aside \cup {box[b].key} /\ blamed' = blamed \cup {box[b].key}
          /\ current' = Pool!Rotate(aside') /\ Pool!Replaces(b, aside', current')
      BY <2>5 DEF Pool!RefreshRefused
    <3>2. current' \in Pool!Keys /\ Pool!FirstFrom(current', aside') \in {Pool!NoKey, current'}
      BY <1>0, <3>1, RotatedToNext
    <3>3. aside' \subseteq blamed' /\ aside' \subseteq Pool!Keys
      BY <1>1, <3>1
    <3>4. Left \/ Goes("replace")
      BY <3>1, <3>2 DEF Pool!Replaces
    <3>. QED  BY <3>2, <3>3, <3>4
  <2>6. CASE Pool!RefreshFailed(b)
    <3>1. /\ UNCHANGED <<aside, blamed>> /\ Pool!Replaces(b, aside, current')
          /\ current' = IF box[b].stage = "refresh" THEN Pool!Settle(Pool!Available) ELSE current
          /\ box[b].stage \in {"refresh", "replace"}
      BY <2>6 DEF Pool!RefreshFailed
    <3>2. CASE box[b].stage = "refresh"
      <4>1. current' \in Pool!Keys /\ Pool!FirstFrom(current', aside) \in {Pool!NoKey, current'}
        BY <1>0, <3>1, <3>2, SettledOnAvailable
      <4>. QED  BY <3>1, <4>1 DEF Pool!Replaces
    <3>3. CASE box[b].stage = "replace"
      BY <3>1, <3>3 DEF Pool!Replaces
    <3>. QED  BY <3>1, <3>2, <3>3
  <2>. QED  BY <2>1, <2>2, <2>3, <2>4, <2>5, <2>6
<1>3. CASE Left
  BY <1>0, <1>1, <1>2, <1>3
<1>4. ASSUME NEW s \in {"refresh", "again", "replace"}, Goes(s)
      PROVE  ForCause'
  <2>1. box' \in [Boxes -> Requests] /\ box'[b].key = current'
    BY <1>2, <1>4
  <2>. QED  BY <1>0, <1>1, <1>2, <1>4, <2>1
<1>. QED  BY <1>2, <1>3, <1>4

\* The bookkeeping of a poll that was answered, the clock and the heartbeat.
LEMMA RestForCause ==
    ASSUME Pool!KeyAssumption, ForCause,
           Pool!Record \/ Pool!TimedOut \/ Pool!NextDay \/ Pool!Heartbeat \/ (\E k \in Pool!Keys : Pool!Expire(k))
    PROVE  ForCause'
<1>. USE DEF ForCause, Pool!Gone, Pool!Idle, Requests
<1>0. Count \in Nat \ {0}
  BY DEF Pool!KeyAssumption
<1>1. CASE Pool!Record
  <2>1. /\ current' \in {current, Pool!Rotate(aside')}
        /\ \/ aside' = aside /\ blamed' = blamed
           \/ aside' = aside \cup {current} /\ blamed' = blamed \cup {current}
        /\ box' = box /\ (\A b \in Boxes : box[b].stage = "gone") /\ poll.stage = "boxes"
        /\ poll' = poll \/ poll' = Pool!Idle
    <3>1. Pool!Recorded /\ box' = box /\ poll.stage = "boxes" /\ \A b \in Boxes : box[b] = Pool!Gone
      BY <1>1 DEF Pool!Record
    <3>2. poll' = poll \/ poll' = Pool!Idle
      BY <1>1 DEF Pool!Record
    <3>3. /\ current' \in {current, Pool!Rotate(aside')}
          /\ \/ aside' = aside /\ blamed' = blamed
             \/ aside' = aside \cup {current} /\ blamed' = blamed \cup {current}
      BY <3>1 DEF Pool!Recorded
    <3>. QED  BY <3>1, <3>2, <3>3
  <2>2. current' \in Pool!Keys
    BY <1>0, <2>1, RotatedToNext
  <2>. QED  BY <2>1, <2>2
<1>2. CASE Pool!TimedOut
  BY <1>2 DEF Pool!TimedOut
<1>3. CASE Pool!NextDay \/ \E k \in Pool!Keys : Pool!Expire(k)
  BY <1>3 DEF Pool!NextDay, Pool!Expire
<1>4. CASE Pool!Heartbeat
  BY <1>4 DEF Pool!Heartbeat, Pool!Reset
<1>. QED  BY <1>1, <1>2, <1>3, <1>4

\* A credential is set aside for what happened to it, where an area is one box
\* (app/aircraft/api_keys.py, mark_rate_limited and record_request).
THEOREM AsideForCause ==
    ASSUME Pool!KeyAssumption, OneBox
    PROVE  Pool!Spec => []Pool!SetAsideForCause
<1>1. Pool!Init => ForCause
  BY DEF Pool!Init, ForCause, Pool!KeyAssumption, Pool!Keys, Pool!NoKey, Pool!Gone, Pool!Idle, Requests
<1>2. ForCause /\ [Pool!Next]_(Pool!vars) => ForCause'
  <2>. SUFFICES ASSUME ForCause, [Pool!Next]_(Pool!vars)
                PROVE  ForCause'
    OBVIOUS
  <2>1. CASE UNCHANGED Pool!vars
    BY <2>1 DEF Pool!vars, ForCause
  <2>. QED  BY <2>1, AskingForCause, BoxForCause, RestForCause DEF Pool!Next
<1>3. ForCause => Pool!SetAsideForCause
  BY DEF ForCause, Pool!SetAsideForCause
<1>. QED  BY <1>1, <1>2, <1>3, PTL DEF Pool!Spec
-----------------------------------------------------------------------------
(* The history of deliveries.                                               *)

Deliveries == [stage : History!Stages, edit : BOOLEAN, ok : BOOLEAN, at : Nat \ {0}]
Kinds == {"first_notification", "passed_update", "cancellation_update", "message_update"}
Events == [type : Kinds \cup {"failed_delivery", "retry"}, logical : Kinds, stage : History!Stages, ok : BOOLEAN, at : Nat \ {0}]
Histories == [events : Seq(Events), first : Nat, alerts : Nat]

\* Among the first n events is a failure of the same kind as this one.
FailedBefore(e, events, n) ==
  \E j \in 1..n : ~events[j].ok /\ events[j].logical = e.logical /\ events[j].stage = e.stage
\* An event may still be written at any time: its failure is in the history already.
Grounded(e, events) == e \in Events /\ (e.type = "retry" => FailedBefore(e, events, Len(events)))
\* A mark may still be written at any time: its event is in the history already.
IsTold(e, events) ==
  /\ e \in Events /\ e.ok /\ e.logical = "first_notification"
  /\ \E i \in 1..Len(events) : events[i] = e

Told(d) ==
  /\ d \in Histories
  /\ \A i \in 1..Len(d.events) : d.events[i].type = "retry" => FailedBefore(d.events[i], d.events, i - 1)
  /\ d.alerts = IF d.first = 0 THEN 0 ELSE 1
  /\ d.first # 0 => \E i \in 1..Len(d.events) :
       d.events[i].at = d.first /\ d.events[i].ok /\ d.events[i].logical = "first_notification"

\* What was written by now, and what a write makes of it.
Full == [events |-> pushed, first |-> history.first, alerts |-> history.alerts]
Written(w, d) ==
  IF w.kind = "event" THEN [d EXCEPT !.events = Append(@, w.event)] ELSE History!MarkFirst(d, w.event.at)

\* The document has its fields, and names the last attempt when that one failed.
Whole ==
  /\ history = [events |-> history.events, last |-> history.last, first |-> history.first,
                alerts |-> history.alerts]
  /\ ~history.last.ok => pushed # <<>> /\ history.last = pushed[Len(pushed)]

Jobs == [pc : {"event", "first", "photo"}, item : Deliveries, known : BOOLEAN, event : Events]
\* What the worker holds, and what its timed-out threads hold.
Holding ==
  \/ job = History!Idle
  \/ \E d \in Deliveries : job = [pc |-> "read", item |-> d]
  \/ /\ job \in Jobs /\ job.event.ok = job.item.ok /\ job.event.logical = History!Logical(job.item)
     /\ Grounded(job.event, pushed)
     /\ job.pc = "first" => IsTold(job.event, pushed)
Holds(w, events) ==
  \/ \E e \in Events : w = [kind |-> "event", event |-> e] /\ Grounded(e, events)
  \/ \E e \in Events : w = [kind |-> "first", event |-> e] /\ IsTold(e, events)

Honest ==
  /\ tried \in Nat /\ message \in BOOLEAN /\ lineup \in Seq(Deliveries)
  /\ Told(Full) /\ Whole /\ Holding /\ \A w \in late : Holds(w, pushed)

-----------------------------------------------------------------------------
\* The history only grows, so what may still be written stays true.
LEMMA StillGrounded ==
    ASSUME NEW events \in Seq(Events), NEW new \in Events, NEW e \in Events
    PROVE  /\ Append(events, new) \in Seq(Events) /\ Len(Append(events, new)) = Len(events) + 1
           /\ Append(events, new)[Len(events) + 1] = new
           /\ \A i \in 1..Len(events) : Append(events, new)[i] = events[i]
           /\ Grounded(e, events) => Grounded(e, Append(events, new))
           /\ IsTold(e, events) => IsTold(e, Append(events, new))
<1>. DEFINE more == Append(events, new)
<1>1. /\ more \in Seq(Events) /\ Len(more) = Len(events) + 1 /\ more[Len(events) + 1] = new
      /\ \A i \in 1..Len(events) : more[i] = events[i]
      /\ Len(events) \in Nat
  OBVIOUS
<1>2. 1..Len(events) \subseteq 1..Len(more)
  BY <1>1
<1>. HIDE DEF more
<1>3. Grounded(e, events) => Grounded(e, more)
  BY <1>1, <1>2 DEF Grounded, FailedBefore
<1>4. IsTold(e, events) => IsTold(e, more)
  BY <1>1, <1>2 DEF IsTold
<1>. QED  BY <1>1, <1>3, <1>4 DEF more

\* Both writes, whenever they land, leave an honest history.
LEMMA AppliedHonestly ==
    ASSUME NEW h, Told(h), NEW w, Holds(w, h.events)
    PROVE  /\ Told(Written(w, h))
           /\ \A e \in Events : /\ Grounded(e, h.events) => Grounded(e, Written(w, h).events)
                                /\ IsTold(e, h.events) => IsTold(e, Written(w, h).events)
           /\ w.kind = "event" => \E i \in 1..Len(Written(w, h).events) :
                                    Written(w, h).events[i] = w.event
<1>. DEFINE d == Written(w, h)
            events == h.events
<1>1. events \in Seq(Events) /\ h \in Histories /\ Len(events) \in Nat
  BY DEF Told, Histories
<1>2. ASSUME NEW e \in Events, w = [kind |-> "event", event |-> e], Grounded(e, events)
      PROVE  /\ Told(d) /\ \A f \in Events : /\ Grounded(f, events) => Grounded(f, d.events)
                                             /\ IsTold(f, events) => IsTold(f, d.events)
             /\ \E i \in 1..Len(d.events) : d.events[i] = e
  <2>1. d = [h EXCEPT !.events = Append(events, e)]
    BY <1>2 DEF Written
  <2>2. d = [events |-> Append(events, e), first |-> h.first, alerts |-> h.alerts]
    BY <1>1, <2>1 DEF Histories
  <2>. HIDE DEF d
  <2>3. /\ d.events \in Seq(Events) /\ Len(d.events) = Len(events) + 1 /\ d.events[Len(events) + 1] = e
        /\ \A i \in 1..Len(events) : d.events[i] = events[i]
        /\ d.first = h.first /\ d.alerts = h.alerts /\ d \in Histories
    BY <1>1, <2>2, StillGrounded DEF Histories
  <2>4. \A f \in Events : /\ Grounded(f, events) => Grounded(f, d.events)
                          /\ IsTold(f, events) => IsTold(f, d.events)
    BY <1>1, <2>2, StillGrounded
  <2>. HIDE DEF events
  <2>5. \A i \in 1..Len(d.events) : d.events[i].type = "retry" => FailedBefore(d.events[i], d.events, i - 1)
    <3>. SUFFICES ASSUME NEW i \in 1..Len(d.events), d.events[i].type = "retry"
                  PROVE  FailedBefore(d.events[i], d.events, i - 1)
      OBVIOUS
    <3>1. CASE i \in 1..Len(events)
      <4>1. FailedBefore(events[i], events, i - 1)
        BY <2>3, <3>1 DEF Told, events
      <4>2. \A j \in 1..(i - 1) : j \in 1..Len(events) /\ d.events[j] = events[j]
        BY <1>1, <2>3, <3>1
      <4>. QED  BY <2>3, <3>1, <4>1, <4>2 DEF FailedBefore
    <3>2. CASE i = Len(events) + 1
      <4>1. FailedBefore(e, events, Len(events))
        BY <1>2, <2>3, <3>2 DEF Grounded
      <4>2. d.events[i] = e /\ i - 1 = Len(events)
        BY <1>1, <2>3, <3>2
      <4>. QED  BY <2>3, <4>1, <4>2 DEF FailedBefore
    <3>. QED  BY <1>1, <2>3, <3>1, <3>2
  <2>6. d.first # 0 => \E i \in 1..Len(d.events) :
          d.events[i].at = d.first /\ d.events[i].ok /\ d.events[i].logical = "first_notification"
    <3>1. 1..Len(events) \subseteq 1..Len(d.events)
      BY <1>1, <2>3
    <3>. QED  BY <2>3, <3>1 DEF Told, events
  <2>7. Told(d)
    BY <2>3, <2>5, <2>6 DEF Told
  <2>8. \E i \in 1..Len(d.events) : d.events[i] = e
    <3>1. Len(events) + 1 \in 1..Len(d.events)
      BY <1>1, <2>3
    <3>. QED  BY <2>3, <3>1
  <2>. QED  BY <2>4, <2>7, <2>8
<1>3. ASSUME NEW e \in Events, w = [kind |-> "first", event |-> e], IsTold(e, events)
      PROVE  Told(d) /\ d.events = events
  <2>1. d = IF h.first = 0 THEN [h EXCEPT !.first = e.at, !.alerts = @ + 1] ELSE h
    BY <1>3 DEF Written, History!MarkFirst
  <2>2. CASE h.first # 0
    BY <2>1, <2>2
  <2>3. CASE h.first = 0
    <3>1. d = [events |-> events, first |-> e.at, alerts |-> h.alerts + 1]
      BY <1>1, <2>1, <2>3 DEF Histories
    <3>. HIDE DEF d
    <3>2. d.events = events /\ d.first = e.at /\ d.alerts = 1 /\ e.at \in Nat \ {0}
      BY <1>1, <2>3, <3>1 DEF Told, Histories, Events
    <3>3. d \in Histories
      BY <1>1, <3>1, <3>2 DEF Histories
    <3>4. \E i \in 1..Len(events) : events[i].at = e.at /\ events[i].ok /\ events[i].logical = "first_notification"
      BY <1>3 DEF IsTold
    <3>. QED  BY <3>2, <3>3, <3>4 DEF Told
  <2>. QED  BY <2>2, <2>3
<1>4. CASE w.kind = "event"
  BY <1>2, <1>4 DEF Holds
<1>5. CASE w.kind = "first"
  BY <1>3, <1>5 DEF Holds
<1>6. w.kind \in {"event", "first"}
  BY DEF Holds
<1>. QED  BY <1>4, <1>5, <1>6

\* A write adds to what was written, and leaves the document whole.
LEMMA LandsWhole ==
    ASSUME Honest, NEW w, Holds(w, pushed), History!Lands(w)
    PROVE  /\ Full' = Written(w, Full) /\ Whole'
           /\ pushed' = Written(w, Full).events
<1>1. /\ history = [events |-> history.events, last |-> history.last, first |-> history.first,
                    alerts |-> history.alerts]
      /\ pushed \in Seq(Events)
  BY DEF Honest, Whole, Told, Full, Histories
<1>2. ASSUME NEW e \in Events, w = [kind |-> "event", event |-> e]
      PROVE  /\ Full' = Written(w, Full) /\ Whole' /\ pushed' = Written(w, Full).events
  <2>1. pushed' = Append(pushed, e)
        /\ history' = [events |-> History!Newest(Append(history.events, e)), last |-> e,
                       first |-> history.first, alerts |-> history.alerts]
    BY <1>1, <1>2 DEF History!Lands, History!Apply
  <2>2. Append(pushed, e) # <<>> /\ Append(pushed, e)[Len(Append(pushed, e))] = e
    <3>1. /\ Len(Append(pushed, e)) = Len(pushed) + 1 /\ Append(pushed, e)[Len(pushed) + 1] = e
          /\ Len(pushed) \in Nat
      BY <1>1, StillGrounded
    <3>2. Len(<<>>) = 0
      OBVIOUS
    <3>. QED  BY <3>1, <3>2
  <2>. HIDE DEF Full
  <2>3. Full' = [events |-> Append(pushed, e), first |-> history.first, alerts |-> history.alerts]
    BY <2>1 DEF Full
  <2>4. Written(w, Full) = [events |-> Append(pushed, e), first |-> history.first, alerts |-> history.alerts]
    BY <1>2 DEF Full, Written
  <2>5. Whole'
    BY <2>1, <2>2 DEF Whole
  <2>. QED  BY <2>1, <2>3, <2>4, <2>5
<1>3. ASSUME NEW e \in Events, w = [kind |-> "first", event |-> e]
      PROVE  /\ Full' = Written(w, Full) /\ Whole' /\ pushed' = Written(w, Full).events
  <2>1. w.kind = "first" /\ w.event = e
    BY <1>3
  <2>2. pushed' = pushed /\ history' = History!MarkFirst(history, e.at)
        /\ Written(w, Full) = History!MarkFirst(Full, e.at)
    BY <2>1 DEF History!Lands, History!Apply, Written
  <2>3. CASE history.first # 0
    <3>1. history' = history /\ Written(w, Full) = Full
      BY <2>2, <2>3 DEF History!MarkFirst, Full
    <3>. QED  BY <2>2, <3>1 DEF Honest, Full, Whole
  <2>4. CASE history.first = 0
    <3>1. history' = [history EXCEPT !.first = e.at, !.alerts = @ + 1]
          /\ Written(w, Full) = [Full EXCEPT !.first = e.at, !.alerts = @ + 1]
      BY <2>2, <2>4 DEF History!MarkFirst, Full
    <3>2. history' = [events |-> history.events, last |-> history.last,
                      first |-> e.at, alerts |-> history.alerts + 1]
      BY <1>1, <3>1
    <3>3. Written(w, Full) = [events |-> pushed, first |-> e.at, alerts |-> history.alerts + 1]
      BY <3>1 DEF Full
    <3>4. Full' = [events |-> pushed, first |-> e.at, alerts |-> history.alerts + 1]
      BY <2>2, <3>2 DEF Full
    <3>5. Whole'
      BY <2>2, <3>2 DEF Honest, Whole
    <3>. QED  BY <2>2, <3>3, <3>4, <3>5
  <2>. QED  BY <2>3, <2>4
<1>. QED  BY <1>2, <1>3 DEF Holds

\* A write lands, then or later.
LEMMA WrittenHonestly ==
    ASSUME Honest, NEW w, Holds(w, pushed), History!Lands(w), late' \subseteq late,
           UNCHANGED <<message, tried, lineup>>, Holding'
    PROVE  Honest'
<1>1. Told(Full') /\ Whole'
  BY LandsWhole, AppliedHonestly DEF Honest, Full
<1>2. \A v \in late' : Holds(v, pushed')
  BY LandsWhole, AppliedHonestly DEF Honest, Holds, Full
<1>. QED  BY <1>1, <1>2 DEF Honest

\* The worker keeps what it holds while another write lands.
LEMMA HoldsOn ==
    ASSUME Honest, NEW w, Holds(w, pushed), History!Lands(w), job' = job
    PROVE  Holding'
<1>1. \A e \in Events : /\ Grounded(e, pushed) => Grounded(e, pushed')
                        /\ IsTold(e, pushed) => IsTold(e, pushed')
  BY LandsWhole, AppliedHonestly DEF Honest, Full
<1>. QED  BY <1>1 DEF Honest, Holding, Jobs

LEMMA DeliveringHonest ==
    ASSUME Honest, NEW s \in History!Stages, NEW ok \in BOOLEAN, History!Deliver(s, ok)
    PROVE  Honest'
<1>1. [stage |-> s, edit |-> message, ok |-> ok, at |-> tried + 1] \in Deliveries
  BY DEF Honest, Deliveries
<1>2. lineup' \in Seq(Deliveries)
  BY <1>1 DEF Honest, History!Deliver, History!Enqueue
<1>3. tried' \in Nat /\ message' \in BOOLEAN /\ UNCHANGED <<job, late, history, pushed>>
  BY DEF Honest, History!Deliver
<1>. QED  BY <1>2, <1>3 DEF Honest, Holding, Full, Whole

LEMMA TakingHonest ==
    ASSUME Honest, History!Take
    PROVE  Honest'
<1>1. Head(lineup) \in Deliveries /\ Tail(lineup) \in Seq(Deliveries)
  BY DEF Honest, History!Take
<1>2. Holding'
  BY <1>1 DEF History!Take, Holding
<1>. QED  BY <1>1, <1>2 DEF Honest, History!Take, History!Worker, Full, Whole

LEMMA ReadingHonest ==
    ASSUME Honest, History!Read
    PROVE  Honest'
<1>1. PICK d \in Deliveries : job = [pc |-> "read", item |-> d]
  BY DEF History!Read, Honest, Holding, Jobs, History!Idle
<1>. DEFINE e == [type |-> History!EventType(d, history), logical |-> History!Logical(d), stage |-> d.stage,
                  ok |-> d.ok, at |-> d.at]
<1>2. UNCHANGED <<message, tried, lineup, late, history, pushed>>
      /\ job' = [pc |-> "event", item |-> d, known |-> (history.first # 0), event |-> e]
  BY <1>1 DEF History!Read, History!Worker
<1>3. /\ History!Logical(d) \in Kinds
      /\ History!EventType(d, history) \in Kinds \cup {"failed_delivery", "retry"}
      /\ History!EventType(d, history) = "retry" => History!Retrying(d, history)
  <2>1. /\ History!EndUpdate["passed"] = "passed_update"
        /\ History!EndUpdate["cancelled"] = "cancellation_update"
    BY DEF History!EndUpdate
  <2>2. History!Logical(d) \in Kinds
    BY <2>1 DEF History!Logical, History!Ends, Kinds
  <2>3. History!Logical(d) # "retry"
    BY <2>2 DEF Kinds
  <2>. QED  BY <2>2, <2>3 DEF History!EventType
<1>4. e \in Events /\ e.logical = History!Logical(d) /\ e.ok = d.ok /\ e.type = History!EventType(d, history)
      /\ e.stage = d.stage
  <2>1. d.stage \in History!Stages /\ d.ok \in BOOLEAN /\ d.at \in Nat \ {0}
    BY DEF Deliveries
  <2>3. /\ e.type = History!EventType(d, history) /\ e.logical = History!Logical(d) /\ e.stage = d.stage
        /\ e.ok = d.ok /\ e.at = d.at
    OBVIOUS
  <2>4. \A t \in Kinds \cup {"failed_delivery", "retry"}, l \in Kinds, s \in History!Stages, ok \in BOOLEAN,
           instant \in Nat \ {0} :
          [type |-> t, logical |-> l, stage |-> s, ok |-> ok, at |-> instant] \in Events
    BY DEF Events
  <2>. QED  BY <1>3, <2>1, <2>3, <2>4
<1>. HIDE DEF e
<1>5. Grounded(e, pushed)
  <2>. SUFFICES ASSUME e.type = "retry"
                PROVE  FailedBefore(e, pushed, Len(pushed))
    BY <1>4 DEF Grounded
  <2>. DEFINE n == Len(pushed)
  <2>1. /\ pushed # <<>> /\ ~pushed[n].ok /\ pushed[n].logical = e.logical
        /\ pushed[n].stage = e.stage
    <3>1. ~history.last.ok /\ history.last.logical = e.logical /\ history.last.stage = e.stage
      BY <1>3, <1>4 DEF History!Retrying
    <3>. QED  BY <3>1 DEF Honest, Whole
  <2>2. n \in 1..n
    <3>1. pushed \in Seq(Events)
      BY DEF Honest, Told, Full, Histories
    <3>. QED  BY <2>1, <3>1
  <2>. QED  BY <2>1, <2>2 DEF FailedBefore
<1>6. job' \in Jobs /\ job'.pc = "event" /\ job'.event = e /\ job'.item = d
  BY <1>2, <1>4 DEF Jobs
<1>7. Holding'
  BY <1>2, <1>4, <1>5, <1>6 DEF Holding
<1>. QED  BY <1>2, <1>7 DEF Honest, Full, Whole

\* What the worker is about to write holds.
LEMMA AboutToWrite ==
    ASSUME Honest, job.pc \in {"event", "first"}
    PROVE  /\ job \in Jobs /\ Holds(History!Write, pushed)
           /\ History!Write.kind = job.pc /\ History!Write.event = job.event
           /\ job.event.ok = job.item.ok /\ job.event.logical = History!Logical(job.item)
           /\ Grounded(job.event, pushed) /\ (job.pc = "first" => IsTold(job.event, pushed))
<1>1. /\ job \in Jobs /\ job.event \in Events
      /\ job.event.ok = job.item.ok /\ job.event.logical = History!Logical(job.item)
      /\ Grounded(job.event, pushed) /\ (job.pc = "first" => IsTold(job.event, pushed))
  BY DEF Honest, Holding, Jobs, History!Idle
<1>. QED  BY <1>1 DEF Holds, History!Write

LEMMA WritingHonest ==
    ASSUME Honest, History!WriteDone
    PROVE  Honest'
<1>1. /\ job.pc \in {"event", "first"} /\ History!Lands(History!Write)
      /\ job' = [job EXCEPT !.pc = IF job.pc = "event" /\ History!IsFirst THEN "first" ELSE "photo"]
      /\ UNCHANGED <<message, tried, lineup, late>>
  BY DEF History!WriteDone, History!Worker
<1>2. /\ job \in Jobs /\ Holds(History!Write, pushed)
      /\ History!Write.kind = job.pc /\ History!Write.event = job.event
      /\ job.event.ok = job.item.ok /\ job.event.logical = History!Logical(job.item)
      /\ Grounded(job.event, pushed) /\ (job.pc = "first" => IsTold(job.event, pushed))
  BY <1>1, AboutToWrite
<1>3. /\ Grounded(job.event, pushed')
      /\ job.pc = "event" => \E i \in 1..Len(pushed') : pushed'[i] = job.event
  BY <1>1, <1>2, LandsWhole, AppliedHonestly DEF Honest, Jobs, Full
<1>4. /\ job' \in Jobs /\ job'.event = job.event /\ job'.item = job.item
      /\ job'.pc \in {"first", "photo"} /\ (job'.pc = "first" => job.pc = "event" /\ History!IsFirst)
  BY <1>1, <1>2 DEF Jobs
<1>5. job'.pc = "first" => IsTold(job'.event, pushed')
  <2>. SUFFICES ASSUME job'.pc = "first"
                PROVE  IsTold(job.event, pushed')
    BY <1>4
  <2>1. job.event \in Events /\ job.event.ok /\ job.event.logical = "first_notification"
    BY <1>2, <1>4 DEF History!IsFirst, History!Logical, Jobs
  <2>. QED  BY <1>3, <1>4, <2>1 DEF IsTold
<1>6. Holding'
  BY <1>2, <1>3, <1>4, <1>5 DEF Holding
<1>. QED  BY <1>1, <1>2, <1>6, WrittenHonestly

LEMMA EndingHonest ==
    ASSUME Honest, History!PhotoDone \/ History!Timeout \/ History!Land \/ History!Restart
    PROVE  Honest'
<1>1. CASE History!PhotoDone
  BY <1>1 DEF History!PhotoDone, History!Worker, Honest, Holding, Full, Whole
<1>2. CASE History!Timeout
  <2>1. UNCHANGED <<message, tried, lineup, history, pushed>> /\ job' = History!Idle
    BY <1>2 DEF History!Timeout, History!Worker
  <2>2. \A w \in late' : Holds(w, pushed)
    BY <1>2, AboutToWrite DEF History!Timeout, Honest
  <2>. QED  BY <2>1, <2>2 DEF Honest, Holding, Full, Whole
<1>3. CASE History!Land
  <2>1. PICK w \in late : History!Lands(w) /\ late' = late \ {w}
                          /\ UNCHANGED <<message, tried, lineup, job>>
    BY <1>3 DEF History!Land, History!Worker
  <2>2. Holds(w, pushed)
    BY DEF Honest
  <2>3. Holding'
    BY <2>1, <2>2, HoldsOn
  <2>. QED  BY <2>1, <2>2, <2>3, WrittenHonestly
<1>4. CASE History!Restart
  <2>1. <<>> \in Seq(Deliveries)
    OBVIOUS
  <2>. QED  BY <1>4, <2>1 DEF History!Restart, Honest, Holding, Full, Whole
<1>. QED  BY <1>1, <1>2, <1>3, <1>4

\* What the history says of an alert happened (worker/notification_telemetry.py).
THEOREM HistoryIsHonest == History!Spec => []History!HistoryHonest
<1>1. History!Init => Honest
  <2>. SUFFICES ASSUME History!Init  PROVE Honest
    OBVIOUS
  <2>1. /\ history = [events |-> <<>>, last |-> History!NoAttempt, first |-> 0, alerts |-> 0] /\ <<>> \in Seq(Events) /\ Len(<<>>) = 0
        /\ pushed = <<>> /\ lineup = <<>> /\ <<>> \in Seq(Deliveries)
    BY DEF History!Init, History!NewDoc
  <2>2. Told(Full) /\ Whole
    BY <2>1 DEF Told, Full, Histories, Whole, History!NoAttempt
  <2>. QED  BY <2>1, <2>2 DEF History!Init, Honest, Holding
<1>2. Honest /\ [History!Next]_(History!vars) => Honest'
  <2>. SUFFICES ASSUME Honest, [History!Next]_(History!vars)
                PROVE  Honest'
    OBVIOUS
  <2>1. CASE UNCHANGED History!vars
    BY <2>1 DEF History!vars, Honest, Holding, Full, Whole
  <2>. QED  BY <2>1, DeliveringHonest, TakingHonest, ReadingHonest, WritingHonest, EndingHonest DEF History!Next
<1>3. Honest => History!HistoryHonest
  <2>. SUFFICES ASSUME Honest  PROVE History!HistoryHonest
    OBVIOUS
  <2>1. Told(Full) /\ DOMAIN pushed = 1..Len(pushed)
    BY DEF Honest, Told, Full, Histories
  <2>. QED  BY <2>1 DEF Told, Full, FailedBefore, History!HistoryHonest
<1>. QED  BY <1>1, <1>2, <1>3, PTL DEF History!Spec
-----------------------------------------------------------------------------
(* What is learned of the feeds.                                            *)

Observations == [place : Regions, results : Results]
Lesson(d) ==
  /\ d = [seen |-> d.seen, target |-> d.target, complete |-> d.complete, selected |-> d.selected,
          found |-> d.found, false |-> d.false]
  /\ d.found \in [Feeds -> 0..Cap] /\ d.false \in [Feeds -> 0..Cap]
TakenUp(k) == k.place \in Regions /\ k.results \in Results /\ k = [stage |-> "taken", place |-> k.place, results |-> k.results]
Judged(k) ==
  /\ k.place \in Regions /\ k.results \in Results /\ Lesson(k.doc)
  /\ k = [stage |-> "judging", place |-> k.place, results |-> k.results, doc |-> k.doc]

LearningTypes ==
  /\ learned = [p \in Regions |-> learned[p]] /\ \A p \in Regions : Lesson(learned[p])
  /\ line \in Seq(Observations)
  /\ workers = [w \in Workers |-> workers[w]]
  /\ \A w \in Workers : workers[w] = Learner!Idle \/ TakenUp(workers[w]) \/ Judged(workers[w])

Busy(w) == workers[w].stage # "idle"
\* Of a region one observation is under way, and its key is reserved.
OneOfEach ==
  /\ \A i, j \in 1..Len(line) : line[i].place = line[j].place => i = j
  /\ \A i \in 1..Len(line) : line[i].place \in pending
  /\ \A w \in Workers : Busy(w) => /\ workers[w].place \in pending
                                   /\ \A i \in 1..Len(line) : line[i].place # workers[w].place
                                   /\ \A v \in Workers : Busy(v) /\ workers[v].place = workers[w].place => v = w

\* So what it read is still what the record counts, whatever a dislike did to the target.
SameCounts(d, e) == d.seen = e.seen /\ d.found = e.found /\ d.false = e.false
Current == \A w \in Workers : workers[w].stage = "judging" => SameCounts(workers[w].doc, learned[workers[w].place])

Alone == LearningTypes /\ OneOfEach /\ Current

More(d, e) ==
  /\ d.seen \subseteq e.seen
  /\ \A f \in Feeds : d.found[f] <= e.found[f] /\ d.false[f] <= e.false[f]
NoLess == \A p \in Regions : More(learned[p], learned'[p])

-----------------------------------------------------------------------------
LEMMA NoLessOfTheSame ==
    ASSUME NEW d, NEW e, Lesson(d), SameCounts(d, e)
    PROVE  More(d, e)
<1>1. \A f \in Feeds : d.found[f] \in Int /\ d.false[f] \in Int
  BY DEF Lesson
<1>. QED  BY <1>1 DEF SameCounts, More

LEMMA NothingTouched ==
    ASSUME Alone, learned' = learned
    PROVE  NoLess
BY NoLessOfTheSame DEF Alone, LearningTypes, SameCounts, NoLess

\* A worker ends: its key is free, those of the others stay reserved.
LEMMA DoneAlone ==
    ASSUME Alone, NEW w \in Workers, Busy(w), Learner!Done(w), UNCHANGED line
    PROVE  /\ OneOfEach' /\ workers' = [v \in Workers |-> workers'[v]]
           /\ \A v \in Workers : workers'[v] = IF v = w THEN Learner!Idle ELSE workers[v]
<1>1. \A v \in Workers : workers'[v] = IF v = w THEN Learner!Idle ELSE workers[v]
  BY DEF Learner!Done, Alone, LearningTypes
<1>2. workers' = [v \in Workers |-> workers'[v]]
  BY DEF Learner!Done, Alone, LearningTypes
<1>3. pending' = pending \ {workers[w].place}
  BY DEF Learner!Done
<1>4. \A v \in Workers : Busy(v)' => v # w /\ Busy(v) /\ workers'[v] = workers[v]
  BY <1>1 DEF Busy, Learner!Idle
<1>5. \A v \in Workers : v # w /\ Busy(v) => workers[v].place \in pending'
  BY <1>3 DEF Alone, OneOfEach
<1>6. \A i \in 1..Len(line) : line[i].place \in pending'
  BY <1>3 DEF Alone, OneOfEach
<1>7. OneOfEach'
  BY <1>4, <1>5, <1>6 DEF Alone, OneOfEach
<1>. QED  BY <1>1, <1>2, <1>7

LEMMA ObservingAlone ==
    ASSUME Alone, NEW p \in Regions, NEW r \in Results, Learner!Observe(p, r)
    PROVE  Alone'
<1>1. UNCHANGED <<learned, workers>> /\ p \notin pending
  BY DEF Learner!Observe
<1>2. CASE line' = line /\ pending' = pending
  BY <1>1, <1>2 DEF Alone, LearningTypes, OneOfEach, Current, Busy
<1>3. CASE line' = Append(line, [place |-> p, results |-> r]) /\ pending' = pending \cup {p}
  <2>. DEFINE new == [place |-> p, results |-> r]
  <2>1. new \in Observations /\ new.place = p
    BY DEF Observations
  <2>2. /\ line' \in Seq(Observations) /\ Len(line') = Len(line) + 1 /\ line'[Len(line) + 1] = new /\ Len(line) \in Nat
        /\ \A i \in 1..Len(line) : line'[i] = line[i]
    BY <1>3, <2>1 DEF Alone, LearningTypes
  <2>. HIDE DEF new
  <2>3. \A i \in 1..Len(line') : i \in 1..Len(line) \/ i = Len(line) + 1
    BY <2>2
  <2>4. \A i \in 1..Len(line) : line[i].place # p
    BY <1>1 DEF Alone, OneOfEach
  <2>5. \A i, j \in 1..Len(line') : line'[i].place = line'[j].place => i = j
    BY <2>1, <2>2, <2>3, <2>4 DEF Alone, OneOfEach
  <2>6. \A i \in 1..Len(line') : line'[i].place \in pending'
    BY <1>3, <2>1, <2>2, <2>3 DEF Alone, OneOfEach
  <2>7. \A w \in Workers : Busy(w) => workers[w].place # p
    BY <1>1 DEF Alone, OneOfEach
  <2>8. OneOfEach'
    BY <1>1, <1>3, <2>1, <2>2, <2>3, <2>5, <2>6, <2>7 DEF Alone, OneOfEach, Busy
  <2>. QED  BY <1>1, <2>2, <2>8 DEF Alone, LearningTypes, Current
<1>. QED  BY <1>2, <1>3 DEF Learner!Observe, Learner!Full

LEMMA TakingAlone ==
    ASSUME Alone, NEW w \in Workers, Learner!Take(w)
    PROVE  Alone'
<1>. DEFINE o == Head(line)
            k == [stage |-> "taken", place |-> o.place, results |-> o.results]
<1>1. workers[w] = Learner!Idle /\ line # <<>> /\ workers' = [workers EXCEPT ![w] = k] /\ line' = Tail(line)
      /\ UNCHANGED <<learned, pending>>
  BY DEF Learner!Take
<1>2. /\ line' \in Seq(Observations) /\ Len(line) \in Nat \ {0} /\ Len(line') = Len(line) - 1
      /\ \A i \in 1..Len(line') : line'[i] = line[i + 1] /\ i + 1 \in 1..Len(line) /\ i + 1 # 1
      /\ o = line[1] /\ 1 \in 1..Len(line) /\ o \in Observations
  BY <1>1 DEF Alone, LearningTypes
<1>. HIDE DEF o
<1>3. o.place \in Regions /\ o.results \in Results
  BY <1>2 DEF Observations
<1>4. /\ TakenUp(k) /\ k.stage = "taken" /\ k.place = o.place
  BY <1>3 DEF TakenUp
<1>. HIDE DEF k
<1>5. workers' = [v \in Workers |-> workers'[v]] /\ \A v \in Workers : workers'[v] = IF v = w THEN k ELSE workers[v]
  BY <1>1 DEF Alone, LearningTypes
<1>6. ~Busy(w) /\ o.place \in pending /\ \A v \in Workers : Busy(v) => workers[v].place # o.place
  BY <1>1, <1>2 DEF Alone, OneOfEach, Busy, Learner!Idle
<1>7. \A i \in 1..Len(line') : line'[i].place # o.place /\ line'[i].place \in pending
  BY <1>2 DEF Alone, OneOfEach
<1>8. \A i, j \in 1..Len(line') : line'[i].place = line'[j].place => i = j
  <2>. SUFFICES ASSUME NEW i \in 1..Len(line'), NEW j \in 1..Len(line'), line'[i].place = line'[j].place
                PROVE  i = j
    OBVIOUS
  <2>1. i + 1 \in 1..Len(line) /\ j + 1 \in 1..Len(line) /\ line[i + 1].place = line[j + 1].place
    BY <1>2
  <2>2. i + 1 = j + 1
    BY <2>1 DEF Alone, OneOfEach
  <2>. QED  BY <2>2
<1>9. \A v \in Workers, i \in 1..Len(line') : Busy(v) => line'[i].place # workers[v].place
  BY <1>2 DEF Alone, OneOfEach
<1>10. OneOfEach'
  <2>1. \A v \in Workers : Busy(v)' => \/ v = w /\ workers'[v].place = o.place
                                       \/ v # w /\ Busy(v) /\ workers'[v] = workers[v]
    BY <1>4, <1>5 DEF Busy
  <2>2. \A v \in Workers : Busy(v)' => workers'[v].place \in pending
    BY <1>6, <2>1 DEF Alone, OneOfEach
  <2>3. \A v \in Workers : Busy(v)' => \A i \in 1..Len(line') : line'[i].place # workers'[v].place
    BY <1>7, <1>9, <2>1
  <2>4. \A u, v \in Workers : Busy(u)' /\ Busy(v)' /\ workers'[u].place = workers'[v].place => u = v
    BY <1>6, <2>1 DEF Alone, OneOfEach
  <2>. QED  BY <1>1, <1>7, <1>8, <2>2, <2>3, <2>4 DEF OneOfEach
<1>11. LearningTypes'
  BY <1>1, <1>2, <1>4, <1>5 DEF Alone, LearningTypes
<1>12. Current'
  BY <1>1, <1>4, <1>5 DEF Alone, Current
<1>. QED  BY <1>10, <1>11, <1>12 DEF Alone

LEMMA ReadingAlone ==
    ASSUME Alone, NEW w \in Workers, Learner!Read(w)
    PROVE  Alone'
<1>1. workers[w].stage = "taken" /\ Busy(w) /\ UNCHANGED <<learned, line>>
  BY DEF Learner!Read, Busy
<1>2. CASE Learner!Done(w)
  <2>1. OneOfEach' /\ workers' = [v \in Workers |-> workers'[v]]
        /\ \A v \in Workers : workers'[v] = IF v = w THEN Learner!Idle ELSE workers[v]
    BY <1>1, <1>2, DoneAlone
  <2>2. LearningTypes'
    BY <1>1, <2>1 DEF Alone, LearningTypes
  <2>3. Current'
    BY <1>1, <2>1 DEF Alone, Current, Learner!Idle
  <2>. QED  BY <2>1, <2>2, <2>3 DEF Alone
<1>3. CASE ~Learner!Done(w)
  <2>. DEFINE k == [stage |-> "judging", place |-> workers[w].place, results |-> workers[w].results,
                    doc |-> learned[workers[w].place]]
  <2>1. workers' = [workers EXCEPT ![w] = k] /\ pending' = pending
    BY <1>3 DEF Learner!Read
  <2>2. workers[w].place \in Regions /\ workers[w].results \in Results
    BY <1>1 DEF Alone, LearningTypes, TakenUp, Judged, Learner!Idle
  <2>3. Judged(k) /\ k.stage = "judging" /\ k.place = workers[w].place /\ k.doc = learned[workers[w].place]
    BY <2>2 DEF Judged, Alone, LearningTypes
  <2>. HIDE DEF k
  <2>4. workers' = [v \in Workers |-> workers'[v]] /\ \A v \in Workers : workers'[v] = IF v = w THEN k ELSE workers[v]
    BY <2>1 DEF Alone, LearningTypes
  <2>5. \A v \in Workers : (Busy(v)' <=> Busy(v)) /\ (Busy(v) => workers'[v].place = workers[v].place)
    BY <1>1, <2>3, <2>4 DEF Busy
  <2>6. OneOfEach'
    BY <1>1, <2>1, <2>5 DEF Alone, OneOfEach
  <2>7. LearningTypes'
    BY <1>1, <2>3, <2>4 DEF Alone, LearningTypes
  <2>8. Current'
    BY <1>1, <2>3, <2>4 DEF Alone, Current, SameCounts
  <2>. QED  BY <2>6, <2>7, <2>8 DEF Alone
<1>. QED  BY <1>2, <1>3

LEMMA CardinalityOfLearner == \A S : Learner!Cardinality(S) = Cardinality(S)
BY DEF Learner!Cardinality, Cardinality

\* Counting stops at the bound and never goes back.
LEMMA CountedUp ==
    ASSUME Cap \in Nat, NEW n \in 0..Cap, NEW more \in Nat
    PROVE  Learner!Counted(n, more) \in 0..Cap /\ n <= Learner!Counted(n, more)
<1>. DEFINE least == IF n + more <= Cap THEN n + more ELSE Cap
<1>1. least \in {n + more, Cap} /\ \A y \in {n + more, Cap} : least <= y
  OBVIOUS
<1>2. \A x \in {n + more, Cap} : (\A y \in {n + more, Cap} : x <= y) => x = least
  OBVIOUS
<1>. HIDE DEF least
<1>3. (CHOOSE x \in {n + more, Cap} : \A y \in {n + more, Cap} : x <= y) = least
  BY <1>1, <1>2
<1>4. Learner!Counted(n, more) = least
  BY <1>3 DEF Learner!Counted, Learner!Min
<1>. QED  BY <1>4 DEF least

\* The verdicts of a poll add to what was counted.
LEMMA CreditedMore ==
    ASSUME Learner!LearningAssumption, NEW d, Lesson(d), NEW r \in Results, NEW lies
    PROVE  Lesson(Learner!Credited(d, r, lies)) /\ More(d, Learner!Credited(d, r, lies))
<1>. DEFINE real == Learner!Planes(r) \ lies
            found == [f \in Feeds |-> IF f \in DOMAIN r THEN Learner!Counted(d.found[f], Learner!Cardinality(r[f] \cap real))
                                      ELSE d.found[f]]
            false == [f \in Feeds |-> IF f \in DOMAIN r THEN Learner!Counted(d.false[f], Learner!Cardinality(r[f] \cap lies))
                                      ELSE d.false[f]]
            e == Learner!Credited(d, r, lies)
<1>1. Cap \in Nat /\ DOMAIN r \subseteq Feeds /\ \A f \in DOMAIN r : IsFiniteSet(r[f])
  <2>1. \A S : Learner!IsFiniteSet(S) <=> IsFiniteSet(S)
    BY DEF Learner!IsFiniteSet, IsFiniteSet
  <2>. QED  BY <2>1 DEF Learner!LearningAssumption
<1>2. \A f \in DOMAIN r : \A S : Learner!Cardinality(r[f] \cap S) \in Nat
  <2>. SUFFICES ASSUME NEW f \in DOMAIN r, NEW S
                PROVE  Cardinality(r[f] \cap S) \in Nat
    BY CardinalityOfLearner
  <2>1. r[f] \cap S \subseteq r[f] /\ IsFiniteSet(r[f])
    BY <1>1
  <2>2. IsFiniteSet(r[f] \cap S)
    BY <2>1, FS_Subset
  <2>. QED  BY <2>2, FS_CardinalityType
<1>3. e = [seen |-> d.seen \cup real, target |-> d.target, complete |-> d.complete, selected |-> d.selected,
           found |-> found, false |-> false]
  <2>1. e = [d EXCEPT !.seen = d.seen \cup real, !.found = found, !.false = false]
    BY DEF Learner!Credited, Lesson
  <2>. HIDE DEF e, found, false, real
  <2>. QED  BY <2>1 DEF Lesson
<1>4. \A f \in Feeds : /\ found[f] \in 0..Cap /\ d.found[f] <= found[f]
                       /\ false[f] \in 0..Cap /\ d.false[f] <= false[f]
  <2>. SUFFICES ASSUME NEW f \in Feeds
                PROVE  /\ found[f] \in 0..Cap /\ d.found[f] <= found[f]
                       /\ false[f] \in 0..Cap /\ d.false[f] <= false[f]
    OBVIOUS
  <2>1. d.found[f] \in 0..Cap /\ d.false[f] \in 0..Cap
    BY DEF Lesson
  <2>2. CASE f \in DOMAIN r
    BY <1>1, <1>2, <2>1, <2>2, CountedUp
  <2>3. CASE f \notin DOMAIN r
    BY <1>1, <2>1, <2>3
  <2>. QED  BY <2>2, <2>3
<1>. HIDE DEF e, real
<1>5. found \in [Feeds -> 0..Cap] /\ false \in [Feeds -> 0..Cap]
  BY <1>4
<1>. HIDE DEF found, false
<1>. QED  BY <1>3, <1>4, <1>5 DEF Lesson, More, e

\* The conclusion leaves the counts.
LEMMA ConcludedKeeps ==
    ASSUME NEW d, Lesson(d), NEW names, NEW e \in Learner!Concluded(d, names)
    PROVE  Lesson(e) /\ SameCounts(d, e)
<1>1. PICK c, s : e = [d EXCEPT !.complete = c, !.selected = s]
  BY DEF Learner!Concluded
<1>. QED  BY <1>1 DEF Lesson, SameCounts

LEMMA WritingAlone ==
    ASSUME Learner!LearningAssumption, Alone, NEW w \in Workers, Learner!Write(w)
    PROVE  Alone' /\ NoLess
<1>. DEFINE r == workers[w].results
            p == workers[w].place
<1>1. workers[w].stage = "judging" /\ Busy(w) /\ UNCHANGED line /\ Learner!Done(w)
  BY DEF Learner!Write, Busy
<1>2. p \in Regions /\ r \in Results /\ Lesson(workers[w].doc)
  BY <1>1 DEF Alone, LearningTypes, TakenUp, Judged, Learner!Idle
<1>3. PICK lies : \E e \in Learner!Concluded(Learner!Credited(workers[w].doc, r, lies), DOMAIN r) :
        learned' = [learned EXCEPT ![p] = e]
  BY DEF Learner!Write
<1>31. PICK e \in Learner!Concluded(Learner!Credited(workers[w].doc, r, lies), DOMAIN r) :
        learned' = [learned EXCEPT ![p] = e]
  BY <1>3
<1>4. Lesson(e) /\ More(workers[w].doc, e)
  <2>. DEFINE c == Learner!Credited(workers[w].doc, r, lies)
  <2>1. Lesson(c) /\ More(workers[w].doc, c)
    BY <1>2, CreditedMore
  <2>. HIDE DEF c
  <2>2. Lesson(e) /\ SameCounts(c, e)
    BY <1>31, <2>1, ConcludedKeeps DEF c
  <2>. QED  BY <2>1, <2>2 DEF More, SameCounts
<1>5. More(learned[p], e)
  BY <1>1, <1>4 DEF Alone, Current, More, SameCounts
<1>6. learned' = [q \in Regions |-> learned'[q]] /\ \A q \in Regions : learned'[q] = IF q = p THEN e ELSE learned[q]
  BY <1>2, <1>31 DEF Alone, LearningTypes
<1>7. OneOfEach' /\ workers' = [v \in Workers |-> workers'[v]]
      /\ \A v \in Workers : workers'[v] = IF v = w THEN Learner!Idle ELSE workers[v]
  BY <1>1, DoneAlone
<1>8. Current'
  <2>. SUFFICES ASSUME NEW v \in Workers, workers'[v].stage = "judging"
                PROVE  SameCounts(workers'[v].doc, learned'[workers'[v].place])
    BY DEF Current
  <2>1. v # w /\ workers'[v] = workers[v] /\ Busy(v)
    BY <1>7 DEF Learner!Idle, Busy
  <2>2. workers[v].place # p /\ workers[v].place \in Regions
    BY <1>1, <2>1 DEF Alone, OneOfEach, LearningTypes, TakenUp, Judged, Busy, Learner!Idle
  <2>. QED  BY <1>6, <2>1, <2>2 DEF Alone, Current
<1>9. LearningTypes'
  BY <1>1, <1>4, <1>6, <1>7 DEF Alone, LearningTypes
<1>10. NoLess
  <2>1. \A q \in Regions : q # p => More(learned[q], learned'[q])
    BY <1>6, NoLessOfTheSame DEF SameCounts, Alone, LearningTypes
  <2>. QED  BY <1>5, <1>6, <2>1 DEF NoLess
<1>. QED  BY <1>7, <1>8, <1>9, <1>10 DEF Alone

LEMMA FailingAlone ==
    ASSUME Alone, NEW w \in Workers, Learner!WorkFails(w)
    PROVE  Alone'
<1>1. Busy(w) /\ UNCHANGED <<learned, line>> /\ Learner!Done(w)
  BY DEF Learner!WorkFails, Busy
<1>2. OneOfEach' /\ workers' = [v \in Workers |-> workers'[v]]
      /\ \A v \in Workers : workers'[v] = IF v = w THEN Learner!Idle ELSE workers[v]
  BY <1>1, DoneAlone
<1>3. LearningTypes'
  BY <1>1, <1>2 DEF Alone, LearningTypes
<1>4. Current'
  BY <1>1, <1>2 DEF Alone, Current, Learner!Idle
<1>. QED  BY <1>2, <1>3, <1>4 DEF Alone

\* A dislike writes what nobody counts.
LEMMA RelearningAlone ==
    ASSUME Alone, Learner!Relearn
    PROVE  Alone' /\ NoLess
<1>. DEFINE p == dislike.place
<1>1. learned' = [learned EXCEPT ![p].complete = FALSE, ![p].target = dislike.target] /\ UNCHANGED <<pending, line, workers>>
  BY DEF Learner!Relearn
<1>2. learned' = [q \in Regions |-> learned'[q]]
  BY <1>1 DEF Alone, LearningTypes
<1>3. \A q \in Regions : Lesson(learned'[q]) /\ SameCounts(learned[q], learned'[q])
  <2>. SUFFICES ASSUME NEW q \in Regions
                PROVE  Lesson(learned'[q]) /\ SameCounts(learned[q], learned'[q])
    OBVIOUS
  <2>1. Lesson(learned[q])
    BY DEF Alone, LearningTypes
  <2>2. CASE q # p
    <3>1. learned'[q] = learned[q]
      BY <1>1, <2>2 DEF Alone, LearningTypes
    <3>. QED  BY <2>1, <3>1 DEF SameCounts
  <2>3. CASE q = p
    <3>1. learned'[q] = [learned[q] EXCEPT !.complete = FALSE, !.target = dislike.target]
      BY <1>1, <2>3 DEF Alone, LearningTypes
    <3>. QED  BY <2>1, <3>1 DEF Lesson, SameCounts
  <2>. QED  BY <2>2, <2>3
<1>4. \A w \in Workers : workers[w].stage = "judging" => workers[w].place \in Regions
  BY DEF Alone, LearningTypes, TakenUp, Judged, Learner!Idle
<1>5. Current'
  BY <1>1, <1>3, <1>4 DEF Alone, Current, SameCounts
<1>6. LearningTypes' /\ OneOfEach'
  BY <1>1, <1>2, <1>3 DEF Alone, LearningTypes, OneOfEach, Busy
<1>7. NoLess
  BY <1>3, NoLessOfTheSame DEF NoLess, Alone, LearningTypes
<1>. QED  BY <1>5, <1>6, <1>7 DEF Alone

\* What was learned stays: of one region one observation is under way at a time,
\* so no write of the whole record drops what another one counted
\* (app/aircraft/learner.py, cadence_guard_v423.py).
THEOREM LearnedStays ==
    ASSUME Learner!LearningAssumption
    PROVE  Learner!Spec => Learner!NothingUnlearned
<1>1. Learner!Init => Alone
  <2>. SUFFICES ASSUME Learner!Init  PROVE Alone
    OBVIOUS
  <2>1. /\ learned = [p \in Regions |-> Learner!NoDoc] /\ line = <<>> /\ <<>> \in Seq(Observations) /\ Len(line) = 0
        /\ workers = [w \in Workers |-> Learner!Idle]
    BY DEF Learner!Init
  <2>2. Lesson(Learner!NoDoc)
    <3>1. Cap \in Nat
      BY DEF Learner!LearningAssumption
    <3>. QED  BY <3>1 DEF Lesson, Learner!NoDoc, Learner!NoStats
  <2>3. LearningTypes
    BY <2>1, <2>2 DEF LearningTypes
  <2>4. OneOfEach /\ Current
    BY <2>1 DEF OneOfEach, Busy, Current, Learner!Idle
  <2>. QED  BY <2>3, <2>4 DEF Alone
<1>2. Alone /\ [Learner!Next]_(Learner!vars) => Alone' /\ NoLess
  <2>. SUFFICES ASSUME Alone, [Learner!Next]_(Learner!vars)
                PROVE  Alone' /\ NoLess
    OBVIOUS
  <2>1. CASE UNCHANGED Learner!vars
    BY <2>1, NothingTouched DEF Learner!vars, Alone, LearningTypes, OneOfEach, Current, Busy
  <2>2. ASSUME NEW p \in Regions, Learner!Dislike(p)
        PROVE  Alone' /\ NoLess
    BY <2>2, NothingTouched DEF Learner!Dislike, Alone, LearningTypes, OneOfEach, Current, Busy
  <2>3. CASE Learner!ReadTarget
    BY <2>3, NothingTouched DEF Learner!ReadTarget, Alone, LearningTypes, OneOfEach, Current, Busy
  <2>4. ASSUME NEW p \in Regions, NEW r \in Results, Learner!Observe(p, r)
        PROVE  Alone' /\ NoLess
    BY <2>4, ObservingAlone, NothingTouched DEF Learner!Observe
  <2>5. ASSUME NEW w \in Workers, Learner!Take(w) \/ Learner!Read(w) \/ Learner!WorkFails(w)
        PROVE  Alone' /\ NoLess
    <3>1. learned' = learned
      BY <2>5 DEF Learner!Take, Learner!Read, Learner!WorkFails
    <3>. QED  BY <2>5, <3>1, TakingAlone, ReadingAlone, FailingAlone, NothingTouched
  <2>. QED  BY <2>1, <2>2, <2>3, <2>4, <2>5, WritingAlone, RelearningAlone DEF Learner!Next
<1>3. Alone /\ [Learner!Next]_(Learner!vars) => Alone'
  BY <1>2
<1>4. Alone /\ [Learner!Next]_(Learner!vars) =>
        [\A p \in Regions : /\ learned[p].seen \subseteq learned'[p].seen
                            /\ \A f \in Feeds : learned[p].found[f] <= learned'[p].found[f]
                                                /\ learned[p].false[f] <= learned'[p].false[f]]_(Learner!vars)
  BY <1>2 DEF NoLess, More
<1>. QED  BY <1>1, <1>3, <1>4, PTL DEF Learner!Spec, Learner!NothingUnlearned
=============================================================================
