--------------------------- MODULE ProviderLearning ---------------------------
(***************************************************************************)
(* Which feeds see the aircraft of a place (app/aircraft/learner.py), learned *)
(* from the polls by the background workers of cadence_guard_v423.py, and    *)
(* learned again when a user dislikes an alert (app/bot/feedback.py).        *)
(*                                                                          *)
(* A record belongs to a user at a place.  An observation reads the record,  *)
(* may ask the AI about an aircraft only one feed reports, and writes the     *)
(* whole record back; a dislike writes its target in between if it likes.    *)
(* What the AI answers, and whether it can be asked, is free.                *)
(***************************************************************************)
EXTENDS Integers, Sequences, FiniteSets, FiniteSetsExt, SequencesExt

CONSTANTS
  Places,        \* pairs of a user and a geohash
  Feeds,
  Results,       \* what polls answer: [queried feeds -> aircraft near the user]
  Workers,
  QueueLimit,    \* _PROVIDER_LEARNING_QUEUE_LIMIT
  Threshold,     \* learning_plane_threshold
  Extra,         \* extra_planes of a dislike
  MaxDislikes,   \* bound
  Cap            \* bound: reports that are counted of each feed

\* Of the constants; an instance assumes it.
LearningAssumption ==
  /\ {QueueLimit, Threshold, Extra} \subseteq Nat \ {0} /\ {MaxDislikes, Cap} \subseteq Nat
  /\ Workers # {}
  /\ \A r \in Results : /\ DOMAIN r \subseteq Feeds /\ DOMAIN r # {}
                        /\ \A f \in DOMAIN r : IsFiniteSet(r[f])

VARIABLES
  doc,       \* the record of each place in the database
  pending,   \* _learning_keys
  queue,     \* _learning_queue: place and snapshot of the results
  work,      \* what each worker does: nothing, or the record it read
  dislike,   \* a dislike that has read the record of its place
  dislikes

vars == <<doc, pending, queue, work, dislike, dislikes>>

NoStats == [f \in Feeds |-> 0]
NoDoc == [seen |-> {}, target |-> Threshold, complete |-> FALSE, selected |-> {},
          found |-> NoStats, false |-> NoStats]
Aircraft == UNION {UNION {r[f] : f \in DOMAIN r} : r \in Results}
Idle == [stage |-> "idle"]
NoDislike == [stage |-> "idle"]
Counts == [Feeds -> 0..Cap]

TypeOK ==
  /\ \A p \in Places :
       /\ doc[p].seen \subseteq Aircraft /\ doc[p].target \in Nat /\ doc[p].complete \in BOOLEAN
       /\ doc[p].selected \subseteq Feeds /\ {doc[p].found, doc[p].false} \subseteq Counts
  /\ pending \subseteq Places /\ Len(queue) <= QueueLimit
  /\ \A w \in Workers : work[w].stage \in {"idle", "taken", "judging"}
  /\ dislike.stage \in {"idle", "noted", "read"}

Init ==
  /\ doc = [p \in Places |-> NoDoc]
  /\ pending = {} /\ queue = <<>> /\ work = [w \in Workers |-> Idle]
  /\ dislike = NoDislike /\ dislikes = 0

--------------------------------------------------------------------------------
\* The queue

\* Mutant of Full: the key of an observation that was dropped stays reserved.
FullKeepsKey(p) == Len(queue) = QueueLimit /\ pending' = pending \cup {p} /\ UNCHANGED queue
Full(p) == Len(queue) = QueueLimit /\ UNCHANGED <<queue, pending>>

\* _record_cycle_observation_queued
Observe(p, r) ==
  /\ p \notin pending
  /\ \/ Full(p)
     \/ /\ Len(queue) < QueueLimit
        /\ queue' = Append(queue, [place |-> p, results |-> r]) /\ pending' = pending \cup {p}
  /\ UNCHANGED <<doc, work, dislike, dislikes>>

\* Mutant of Take: the key is released when the work begins.
TakeReleased(w) ==
  /\ work[w] = Idle /\ queue # <<>>
  /\ work' = [work EXCEPT ![w] = [stage |-> "taken", place |-> Head(queue).place, results |-> Head(queue).results]]
  /\ queue' = Tail(queue) /\ pending' = pending \ {Head(queue).place}
  /\ UNCHANGED <<doc, dislike, dislikes>>
Take(w) ==
  /\ work[w] = Idle /\ queue # <<>>
  /\ work' = [work EXCEPT ![w] = [stage |-> "taken", place |-> Head(queue).place, results |-> Head(queue).results]]
  /\ queue' = Tail(queue)
  /\ UNCHANGED <<doc, pending, dislike, dislikes>>

Done(w) == work' = [work EXCEPT ![w] = Idle] /\ pending' = pending \ {work[w].place}

--------------------------------------------------------------------------------
\* record_cycle_observation

Planes(r) == UNION {r[f] : f \in DOMAIN r}
Reporting(r, a) == {f \in DOMAIN r : a \in r[f]}
Missing(r, a) == DOMAIN r \ Reporting(r, a)
Suspicious(r, a) == Cardinality(Reporting(r, a)) = 1 /\ Cardinality(Missing(r, a)) >= 2

\* A record that is complete, or a poll without aircraft, ends the work at once.
Read(w) ==
  /\ work[w].stage = "taken"
  /\ LET job == work[w]
     IN IF doc[job.place].complete \/ Planes(job.results) = {} THEN Done(w)
        ELSE /\ work' = [work EXCEPT ![w] = [stage |-> "judging", place |-> job.place,
                                             results |-> job.results, doc |-> doc[job.place]]]
             /\ UNCHANGED pending
  /\ UNCHANGED <<doc, queue, dislike, dislikes>>

Counted(n, more) == Min({n + more, Cap})
\* The verdicts: lies are the suspicious aircraft that the AI calls false.
Credited(d, r, lies) ==
  LET real == Planes(r) \ lies
  IN [d EXCEPT !.seen = @ \cup real,
       !.found = [f \in Feeds |-> IF f \in DOMAIN r THEN Counted(@[f], Cardinality(r[f] \cap real)) ELSE @[f]],
       !.false = [f \in Feeds |-> IF f \in DOMAIN r THEN Counted(@[f], Cardinality(r[f] \cap lies)) ELSE @[f]]]

\* _finalize_selection: of the feeds of this poll, those without a false report
\* and the one that found most; all of them if that leaves none.
Selections(d, names) ==
  LET reliable == {f \in Feeds : d.false[f] = 0}
      best == {f \in Feeds : \A g \in Feeds : d.found[f] >= d.found[g]}
      chosen(b) == names \cap (reliable \cup {b})
  IN {IF chosen(b) = {} THEN names ELSE chosen(b) : b \in best}

Concluded(d, names) ==
  IF Cardinality(d.seen) >= d.target
  THEN {[d EXCEPT !.complete = TRUE, !.selected = s] : s \in Selections(d, names)}
  ELSE {[d EXCEPT !.complete = FALSE, !.selected = {}]}

Write(w) ==
  /\ work[w].stage = "judging"
  /\ LET job == work[w]
         r == job.results
     IN \E lies \in SUBSET {a \in Planes(r) : Suspicious(r, a)} :
        \E d \in Concluded(Credited(job.doc, r, lies), DOMAIN r) :
          doc' = [doc EXCEPT ![job.place] = d]
  /\ Done(w)
  /\ UNCHANGED <<queue, dislike, dislikes>>

\* The database fails: logged, and the key is released.
WorkFails(w) ==
  /\ work[w].stage \in {"taken", "judging"} /\ Done(w)
  /\ UNCHANGED <<doc, queue, dislike, dislikes>>

--------------------------------------------------------------------------------
\* _on_dislike, trigger_relearning

Dislike(p) ==
  /\ dislike = NoDislike /\ dislikes < MaxDislikes
  /\ dislike' = [stage |-> "noted", place |-> p] /\ dislikes' = dislikes + 1
  /\ UNCHANGED <<doc, pending, queue, work>>
ReadTarget ==
  /\ dislike.stage = "noted"
  /\ dislike' = [stage |-> "read", place |-> dislike.place,
                 target |-> Cardinality(doc[dislike.place].seen) + Extra]
  /\ UNCHANGED <<doc, pending, queue, work, dislikes>>
Relearn ==
  /\ dislike.stage = "read" /\ dislike' = NoDislike
  /\ LET p == dislike.place
     IN doc' = [doc EXCEPT ![p].complete = FALSE, ![p].target = dislike.target]
  /\ UNCHANGED <<pending, queue, work, dislikes>>

Next ==
  \/ \E p \in Places : Dislike(p) \/ \E r \in Results : Observe(p, r)
  \/ \E w \in Workers : Take(w) \/ Read(w) \/ Write(w) \/ WorkFails(w)
  \/ ReadTarget \/ Relearn

\* The workers are tasks of the event loop; the AI and the database have timeouts.
Proceed(w) == Take(w) \/ Read(w) \/ Write(w) \/ WorkFails(w)
Spec == Init /\ [][Next]_vars /\ \A w \in Workers : WF_vars(Proceed(w))

--------------------------------------------------------------------------------
\* Properties

\* Of one place only one observation is under way at a time, so no write of the
\* whole record drops an aircraft, a report or a lie that another one counted.
NothingUnlearned ==
  [][\A p \in Places : /\ doc[p].seen \subseteq doc'[p].seen
                       /\ \A f \in Feeds : doc[p].found[f] <= doc'[p].found[f]
                                           /\ doc[p].false[f] <= doc'[p].false[f]]_vars

\* A place whose observation was queued, dropped, failed or finished can be
\* observed again: no key stays reserved.
PlacesReopen == \A p \in Places : []<>(p \notin pending)
================================================================================
