---------------------------- MODULE RouteObserver ----------------------------
(***************************************************************************)
(* Route samples wait in a bounded queue for a few workers, so that they    *)
(* never slow the alerts (app/intelligence/route_observe_guard_v44.py; the  *)
(* write is observe_route_volume of app/operational_volume_v561.py).  A set *)
(* of callsigns keeps two samples of one flight out of the queue; a         *)
(* callsign that stayed in it by mistake would never be sampled again.      *)
(***************************************************************************)
EXTENDS Naturals, Sequences

CONSTANTS
  Flights,   \* callsigns that are seen
  Workers,   \* the tasks of the queue
  Limit,     \* what fits into the queue
  MaxAge,    \* steps of time after which a sample in the queue is dropped
  Interval,  \* steps of time between two samples of a flight
  MaxDeaths  \* bound: workers that are cancelled from outside

VARIABLES
  queue,  \* samples that wait: callsign and age
  keys,   \* queued_keys
  work,   \* the callsign each worker writes
  alive,  \* workers that were created and did not end
  rested, \* steps since the last sample of each flight, up to Interval
  deaths

vars == <<queue, keys, work, alive, rested, deaths>>

Idle == "idle"
\* Of the constants; an instance assumes it.
ObserverAssumption == Idle \notin Flights /\ MaxAge \in Nat

TypeOK ==
  /\ Len(queue) <= Limit /\ keys \subseteq Flights
  /\ work \in [Workers -> Flights \cup {Idle}] /\ alive \subseteq Workers
  /\ rested \in [Flights -> 0..Interval] /\ deaths \in 0..MaxDeaths

Init ==
  /\ queue = <<>> /\ keys = {} /\ work = [w \in Workers |-> Idle] /\ alive = {}
  /\ rested = [f \in Flights |-> Interval] /\ deaths = 0

Writing == {work[w] : w \in Workers} \ {Idle}

\* A plausible bug: a sample that finds no room stays known.
OfferRemembered(f, known) ==
  /\ keys' = known \cup {f}
  /\ queue' = IF Len(queue) < Limit THEN Append(queue, [flight |-> f, age |-> 0]) ELSE queue
\* put_nowait, or the sample is dropped and forgotten.
Offer(f, known) ==
  IF Len(queue) < Limit
  THEN queue' = Append(queue, [flight |-> f, age |-> 0]) /\ keys' = known \cup {f}
  ELSE queue' = queue /\ keys' = known

\* observe_queued.  When a worker has ended all are created anew; those that
\* still write are cancelled and forget their sample.
Observe(f) ==
  /\ rested[f] = Interval
  /\ alive' = Workers
  /\ work' = IF alive = Workers THEN work ELSE [w \in Workers |-> Idle]
  /\ LET known == IF alive = Workers THEN keys ELSE keys \ Writing
     IN IF f \in keys THEN queue' = queue /\ keys' = known ELSE Offer(f, known)
  /\ UNCHANGED <<rested, deaths>>

\* A worker takes the oldest sample; one that is too old is dropped.
Take(w) ==
  /\ w \in alive /\ work[w] = Idle /\ queue # <<>>
  /\ queue' = Tail(queue)
  /\ IF Head(queue).age <= MaxAge
     THEN /\ work' = [work EXCEPT ![w] = Head(queue).flight]
          /\ rested' = [rested EXCEPT ![Head(queue).flight] = 0] /\ keys' = keys
     ELSE keys' = keys \ {Head(queue).flight} /\ UNCHANGED <<work, rested>>
  /\ UNCHANGED <<alive, deaths>>

\* A plausible bug: only a write that succeeded is forgotten.
ForgetWritten(w) == keys' \in {keys, keys \ {work[w]}}
Forget(w) == keys' = keys \ {work[w]}

\* The write succeeds, fails or times out.
Finish(w) ==
  /\ w \in alive /\ work[w] # Idle
  /\ Forget(w) /\ work' = [work EXCEPT ![w] = Idle]
  /\ UNCHANGED <<queue, alive, rested, deaths>>

Die(w) ==
  /\ w \in alive /\ deaths < MaxDeaths /\ deaths' = deaths + 1
  /\ alive' = alive \ {w} /\ work' = [work EXCEPT ![w] = Idle]
  /\ keys' = keys \ {work[w]}
  /\ UNCHANGED <<queue, rested>>

Tick ==
  /\ rested' = [f \in Flights |-> IF rested[f] < Interval THEN rested[f] + 1 ELSE Interval]
  /\ queue' = [i \in DOMAIN queue |-> [queue[i] EXCEPT !.age = IF @ > MaxAge THEN @ ELSE @ + 1]]
  /\ UNCHANGED <<keys, work, alive, deaths>>

Next ==
  \/ \E f \in Flights : Observe(f)
  \/ \E w \in Workers : Take(w) \/ Finish(w) \/ Die(w)
  \/ Tick

Spec ==
  /\ Init /\ [][Next]_vars
  /\ \A w \in Workers : WF_vars(Take(w) \/ Finish(w))
  /\ \A f \in Flights : WF_vars(Observe(f))

--------------------------------------------------------------------------------
(* A callsign is kept out of the queue exactly as long as a sample of it is  *)
(* on its way, whatever is dropped, fails or is cancelled; and it is on its  *)
(* way once.  Code: queued_keys, discarded in each of the paths.             *)
KeyIsOnItsWay ==
  /\ keys = {queue[i].flight : i \in DOMAIN queue} \cup Writing
  /\ \A i, j \in DOMAIN queue : queue[i].flight = queue[j].flight => i = j
  /\ \A i \in DOMAIN queue : queue[i].flight \notin Writing

(* No flight is forgotten: one that is due does not stay in the queue or     *)
(* with a worker for ever.                                                   *)
SampleEnds == \A f \in Flights : []<>(f \notin keys)
================================================================================
