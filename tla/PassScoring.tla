---------------------------- MODULE PassScoring ----------------------------
(***************************************************************************)
(* How the predictions of an aircraft are scored when it has passed: the     *)
(* snapshots and outcomes that worker/monitor.py hands to                    *)
(* app/prediction_lab_audit.py, the background work that records them        *)
(* (worker/optional_work.py) and the join of app/shadow_evaluation_v52.py.   *)
(*                                                                          *)
(* One user and one aircraft, which may come near more than once.  A         *)
(* snapshot is the moment it was captured and what it predicted.             *)
(***************************************************************************)
EXTENDS Integers, Sequences, FiniteSets, SequencesExt

CONSTANTS
  None,
  Paths,         \* the distances to the user, moment by moment
  Radius,
  Horizon,       \* bound: last moment, with which the paths end
  Throttle,      \* _SNAPSHOT_INTERVAL_S, also the ttl of the work
  Reset,         \* _CLOSEST_RESET_S, also the age of an alert that is forgotten
  Pause,         \* the three minutes after a pass
  Window,        \* the half hour of record_prediction_outcome
  Tolerance,     \* how far two distances of one approach may differ: 50 m, or 1 %
  Kept,          \* maxlen of _recent_snapshots
  Concurrency    \* of audit_work

\* Of the constants; an instance assumes it.
ScoringAssumption ==
  /\ {Radius, Horizon, Throttle, Reset, Pause, Window, Tolerance} \subseteq Nat /\ {Kept, Concurrency} \subseteq Nat \ {0}
  /\ Paths \subseteq Seq(Nat) /\ \A p \in Paths : Len(p) = Horizon + 1

VARIABLES
  now,
  path,      \* how far the aircraft is at each moment
  reports,   \* history: the moments a report of it was evaluated
  alert,     \* the alert's state: when it was written, its stage, the closest distance
  tracked,   \* _closest_observation: distance, its moment, when last seen
  throttled, \* _last_snapshot, by what is predicted
  cached,    \* until when audit_work has an entry of a key
  work,      \* audit_work's jobs, in the order they wait
  recent,    \* _recent_snapshots
  rows       \* the scores

vars == <<now, path, reports, alert, tracked, throttled, cached, work, recent, rows>>

Moments == 0..Horizon
JobKeys == BOOLEAN \X {"snapshot"} \cup {<<TRUE, "passed">>, <<TRUE, "cancelled">>}

TypeOK ==
  /\ now \in Moments /\ path \in Paths /\ reports \subseteq Moments
  /\ alert = None \/ (alert.at \in Moments /\ alert.stage \in {"candidate", "active", "passed", "cancelled"} /\ alert.km \in Range(path))
  /\ tracked = None \/ (tracked.km \in Range(path) /\ tracked.at \in Moments /\ tracked.seen \in Moments)
  /\ throttled \in [BOOLEAN -> Moments \cup {None}]
  /\ cached \in [JobKeys -> 0..(Horizon + Throttle)]
  /\ Len(recent) <= Kept /\ \A j \in Range(work) : j.key \in JobKeys
  /\ \A r \in rows : r.at \in Moments /\ r.eta \in Nat \cup {None}

Init ==
  /\ now = 0 /\ path \in Paths
  /\ reports = {} /\ alert = None /\ tracked = None
  /\ throttled = [s \in BOOLEAN |-> None] /\ cached = [k \in JobKeys |-> 0]
  /\ work = <<>> /\ recent = <<>> /\ rows = {}

Here == path[now + 1]
At(t) == path[t + 1]

--------------------------------------------------------------------------------
\* audit_work

\* OptionalCache.get: work on a key that waits or has just been done is not repeated.
Submitted(job) == IF cached[job.key] <= now /\ \A w \in Range(work) : w.key # job.key THEN <<job>> ELSE <<>>

\* A job starts when one of the places is free: its moment is what it records.
StartJob ==
  /\ \E i \in DOMAIN work :
       /\ work[i].started = None /\ \A j \in 1..(i - 1) : work[j].started # None
       /\ Cardinality({j \in DOMAIN work : work[j].started # None}) < Concurrency
       /\ LET stage == work[i].key[1]
          IN IF work[i].key[2] = "snapshot" /\ throttled[stage] # None /\ now - throttled[stage] < Throttle
             THEN /\ work' = RemoveAt(work, i) /\ cached' = [cached EXCEPT ![work[i].key] = now + Throttle]
                  /\ UNCHANGED throttled
             ELSE /\ work' = [work EXCEPT ![i].started = now] /\ UNCHANGED cached
                  /\ throttled' = IF work[i].key[2] = "snapshot" THEN [throttled EXCEPT ![stage] = now] ELSE throttled
  /\ UNCHANGED <<now, path, reports, alert, tracked, recent, rows>>

\* _scoreable_truth: the time from a snapshot to the closest point, if that came after it.
Eta(captured, closestAt) ==
  IF closestAt = None \/ closestAt < captured THEN None ELSE closestAt - captured

\* The rows of an outcome: one for each snapshot of the last half hour.  Only a pass
\* inside the radius is a truth to compare with.
Scores(job) ==
  IF job.key[2] # "passed" \/ job.closest > Radius THEN {}
  ELSE {[at |-> s.at, predicted |-> s.predicted, closest |-> job.closest, end |-> job.end,
         eta |-> Eta(s.at, job.closestAt)] : s \in {x \in Range(recent) : x.at >= job.started - Window}}

\* record_prediction_snapshot after the evidence was appended
Remember(job) ==
  LET all == Append(recent, [at |-> job.started, predicted |-> job.key[1]])
  IN /\ job.key[2] = "snapshot" /\ UNCHANGED rows
     /\ recent' = SubSeq(all, IF Len(all) > Kept THEN 2 ELSE 1, Len(all))

\* record_prediction_outcome after the evidence was appended
Score(job) == job.key[2] # "snapshot" /\ rows' = rows \cup Scores(job) /\ UNCHANGED recent

\* A job that failed or took too long leaves nothing behind but its entry.
FinishJob ==
  /\ \E i \in DOMAIN work :
       /\ work[i].started # None
       /\ work' = RemoveAt(work, i) /\ cached' = [cached EXCEPT ![work[i].key] = now + Throttle]
       /\ Remember(work[i]) \/ Score(work[i]) \/ UNCHANGED <<recent, rows>>
  /\ UNCHANGED <<now, path, reports, alert, tracked, throttled>>

--------------------------------------------------------------------------------
\* The monitor's evaluation of a report

\* Mutant of Closest: an equal distance seen later does not replace the earlier one.
ClosestFirst(km) ==
  IF tracked = None \/ now - tracked.seen > Reset \/ km < tracked.km
  THEN [km |-> km, at |-> now, seen |-> now] ELSE [tracked EXCEPT !.seen = now]

\* _track_closest_observation
Closest(km) ==
  IF tracked = None \/ now - tracked.seen > Reset \/ km <= tracked.km
  THEN [km |-> km, at |-> now, seen |-> now] ELSE [tracked EXCEPT !.seen = now]

\* enqueue_snapshot
Snapshot(predicted) == [key |-> <<predicted, "snapshot">>, started |-> None]

Agree(a, b) == a - b <= Tolerance /\ b - a <= Tolerance

\* enqueue_outcome: the moment of the closest point, if it may be the one the alert saw.
Outcome(outcome, km, track) ==
  [key |-> <<TRUE, outcome>>, started |-> None, end |-> now, closest |-> km,
   closestAt |-> IF Agree(track.km, km) THEN track.at ELSE None]

\* A snapshot of what is predicted now, and then what becomes of the alert: it ends with a
\* pass that was observed, or is cancelled, or is made or kept up to date, or left alone
\* (nothing to write, or the message of its end not delivered).  An alert that was passed
\* leaves the aircraft alone for Pause; the closest distance outlives it.
Evaluate ==
  /\ now \notin reports /\ reports' = reports \cup {now}
  /\ LET old == IF alert # None /\ now - alert.at > Reset THEN None ELSE alert
         km == IF old # None /\ old.km < Here THEN old.km ELSE Here
         active == old # None /\ old.stage = "active"
         track == Closest(Here)
         Written(stage) == [at |-> now, stage |-> stage, km |-> km]
         Ends(outcome) == /\ active /\ alert' = Written(outcome) /\ tracked' = None
     IN /\ ~(old # None /\ old.stage = "passed" /\ now - old.at < Pause)
        /\ \E predicted \in BOOLEAN :
             \/ /\ Ends("passed") /\ km <= Radius /\ Here > km
                /\ work' = work \o Submitted(Snapshot(predicted)) \o Submitted(Outcome("passed", km, track))
             \/ /\ Ends("cancelled") /\ ~predicted
                /\ work' = work \o Submitted(Snapshot(predicted)) \o Submitted(Outcome("cancelled", km, track))
             \/ /\ tracked' = track /\ work' = work \o Submitted(Snapshot(predicted))
                /\ \/ alert' = alert
                   \/ ~active /\ alert' = Written("candidate")
                   \/ (active \/ predicted) /\ alert' = Written("active")
  /\ UNCHANGED <<now, path, throttled, cached, recent, rows>>

\* The tables are full of other aircraft: an entry goes (_MAX_CLOSEST_KEYS).
Forget == tracked' = None /\ UNCHANGED <<now, path, reports, alert, throttled, cached, work, recent, rows>>

\* Time is counted in minutes and a job has seconds, so none is left when it goes on.
Move ==
  /\ work = <<>> /\ now < Horizon /\ now' = now + 1
  /\ UNCHANGED <<path, reports, alert, tracked, throttled, cached, work, recent, rows>>

Next == StartJob \/ FinishJob \/ Evaluate \/ Forget \/ Move

Spec == Init /\ [][Next]_vars

--------------------------------------------------------------------------------
\* A time to the closest point that a row is scored with leads from the snapshot to a
\* moment at which the aircraft was really seen at the distance of the outcome, up to the
\* tolerance, and after which it was only seen farther away until the outcome: never to an
\* earlier approach, to the moment of a lifecycle step, or to where an alert that carried its
\* distance over from an earlier pass did not see it.
\* src/app/prediction_lab_audit.py:267, src/app/shadow_evaluation_v52.py:143
EtaIsObserved ==
  \A r \in rows : r.eta # None =>
    LET closestAt == r.at + r.eta
    IN /\ closestAt \in reports /\ Agree(At(closestAt), r.closest)
       /\ \A t \in reports : t \in (closestAt + 1)..r.end => At(t) > At(closestAt)
=============================================================================
