--------------------------- MODULE LegacyRetirement ---------------------------
(***************************************************************************)
(* How telemetry left MongoDB for the volume: three tasks of the running    *)
(* program, each with a marker on the volume, that copy what is worth it    *)
(* and drop the old collections.                                            *)
(*   routes  app/operational_volume_v561.py: copies best-effort, the newer  *)
(*           of two days wins, and drops even after a failed read           *)
(*   labs    app/legacy_mongo_retirement_v562.py: drops                     *)
(*   notes   app/notification_volume_v563.py: copies all, compares counts,  *)
(*           drops its collection and that of the routes                    *)
(* Meanwhile the program writes route samples to the volume only            *)
(* (app/operational_storage_policy_v563.py).                                *)
(*                                                                          *)
(* A day of route samples is the set of its samples with the time of the    *)
(* last; every old day has one sample, older than any new one.              *)
(***************************************************************************)
EXTENDS Naturals, FiniteSets

CONSTANTS
  Days,       \* the days of flights in the old route collection
  Notes,      \* the notifications in the old collection
  MaxSamples, \* bound: samples written meanwhile
  MaxFaults   \* bound: failures of MongoDB or the volume, and crashes

Tasks == {"routes", "labs", "notes"}
\* What MongoDB still has; the routes may be dropped by two tasks.
Collections == Tasks

VARIABLES
  mongo,   \* collections that exist
  marker,  \* tasks whose marker says that they are done
  at,      \* where the task of each collection is
  cursor,  \* what the tasks have still to copy
  days,    \* the days on the volume: time of the last sample, samples
  notes,   \* the notifications on the volume
  samples, \* samples written so far, the time and the name of the last
  faults

vars == <<mongo, marker, at, cursor, days, notes, samples, faults>>

TypeOK ==
  /\ mongo \subseteq Collections /\ marker \subseteq Tasks
  /\ at \in [Tasks -> {"waits", "copies", "drops", "marks", "ended"}]
  /\ cursor.routes \subseteq Days /\ cursor.notes \subseteq Notes
  /\ days \in [Days -> [time : 0..MaxSamples, points : SUBSET (0..MaxSamples)]]
  /\ notes \subseteq Notes /\ samples \in [Days -> SUBSET (1..MaxSamples)]
  /\ faults \in 0..MaxFaults

None == [time |-> 0, points |-> {}]
Written == Cardinality(UNION {samples[d] : d \in Days})

Init ==
  /\ mongo = Collections /\ marker = {}
  /\ at = [t \in Tasks |-> "waits"] /\ cursor = [routes |-> {}, notes |-> {}]
  /\ days = [d \in Days |-> None] /\ notes = {} /\ samples = [d \in Days |-> {}] /\ faults = 0

Fault == faults < MaxFaults /\ faults' = faults + 1
Goes(t, where) == at' = [at EXCEPT ![t] = where]
Volume == <<days, notes, samples>>

\* A task ends at once when its marker is there.
Start(t) ==
  /\ at[t] = "waits"
  /\ Goes(t, IF t \in marker THEN "ended" ELSE IF t = "labs" THEN "drops" ELSE "copies")
  /\ cursor' = CASE t = "routes" -> [cursor EXCEPT !.routes = IF t \in mongo THEN Days ELSE {}]
                 [] t = "notes" -> [cursor EXCEPT !.notes = IF t \in mongo THEN Notes ELSE {}]
                 [] OTHER -> cursor
  /\ UNCHANGED <<mongo, marker, Volume, faults>>

\* A plausible bug: the old day replaces the new one.
OlderWins(day) == [time |-> day.time, points |-> {0}]
\* The upsert of _import_batch_sync: the points of the newer side, not both.
Imported(day) ==
  [time |-> day.time, points |-> IF day.time = 0 THEN {0} ELSE day.points]

\* The read may fail in the middle; the drop follows all the same.
CopyRoute ==
  /\ at["routes"] = "copies"
  /\ \/ \E d \in cursor.routes :
          /\ days' = [days EXCEPT ![d] = Imported(@)]
          /\ cursor' = [cursor EXCEPT !.routes = @ \ {d}] /\ UNCHANGED <<at, faults>>
     \/ /\ IF cursor.routes = {} THEN faults' = faults ELSE Fault
        /\ Goes("routes", "drops")
        /\ cursor' = [cursor EXCEPT !.routes = {}] /\ days' = days
  /\ UNCHANGED <<mongo, marker, notes, samples>>

\* A plausible bug: the notes are copied best-effort too.
CopyNoteBestEffort ==
  /\ at["notes"] = "copies"
  /\ \/ \E n \in cursor.notes :
          /\ notes' = notes \cup {n}
          /\ cursor' = [cursor EXCEPT !.notes = @ \ {n}] /\ UNCHANGED <<at, faults>>
     \/ /\ IF cursor.notes = {} THEN faults' = faults ELSE Fault
        /\ Goes("notes", "drops") /\ UNCHANGED <<cursor, notes>>
  /\ UNCHANGED <<mongo, marker, days, samples>>

\* Counts must agree before anything is dropped: a failed read starts anew.
CopyNote ==
  /\ at["notes"] = "copies"
  /\ IF cursor.notes = {} THEN Goes("notes", "drops") /\ UNCHANGED <<cursor, notes>>
     ELSE \E n \in cursor.notes :
            /\ notes' = notes \cup {n}
            /\ cursor' = [cursor EXCEPT !.notes = @ \ {n}] /\ at' = at
  /\ UNCHANGED <<mongo, marker, days, samples, faults>>

Drop(t) ==
  /\ at[t] = "drops"
  /\ IF t = "notes"
     THEN IF "notes" \in mongo THEN mongo' = mongo \ {"notes"} /\ at' = at
          ELSE mongo' = mongo \ {"routes"} /\ Goes(t, "marks")
     ELSE mongo' = mongo \ {t} /\ Goes(t, "marks")
  /\ UNCHANGED <<marker, cursor, Volume, faults>>

Mark(t) ==
  /\ at[t] = "marks" /\ Goes(t, "ended") /\ marker' = marker \cup {t}
  /\ UNCHANGED <<mongo, cursor, Volume, faults>>

\* A plausible bug: the task gives up.
GivesUp(t) == Goes(t, "ended")
\* The runner sleeps and starts again.
Retry(t) == Goes(t, "waits")

\* A read, a drop or the marker fails.
Fail(t) ==
  /\ at[t] \in {"copies", "drops", "marks"} /\ ~(t = "routes" /\ at[t] = "copies")
  /\ Fault /\ Retry(t)
  /\ UNCHANGED <<mongo, marker, cursor, Volume>>

\* append_route_sample: the sample joins those of its day.
Append(d) ==
  /\ Written < MaxSamples
  /\ LET s == Written + 1
     IN /\ days' = [days EXCEPT ![d] = [time |-> s, points |-> @.points \cup {s}]]
        /\ samples' = [samples EXCEPT ![d] = @ \cup {s}]
  /\ UNCHANGED <<mongo, marker, at, cursor, notes, faults>>

\* A restart: the tasks begin anew, the volume has what was committed.
Crash ==
  /\ Fault
  /\ at' = [t \in Tasks |-> "waits"] /\ cursor' = [routes |-> {}, notes |-> {}]
  /\ UNCHANGED <<mongo, marker, Volume>>

Work(t) ==
  \/ Start(t) \/ Drop(t) \/ Mark(t)
  \/ t = "routes" /\ CopyRoute
  \/ t = "notes" /\ CopyNote

Next ==
  \/ \E t \in Tasks : Work(t) \/ Fail(t)
  \/ \E d \in Days : Append(d)
  \/ Crash

Spec == Init /\ [][Next]_vars /\ \A t \in Tasks : WF_vars(Work(t))

--------------------------------------------------------------------------------
(* A marker tells the truth after any failure or restart: the collection is  *)
(* gone, and no notification was lost with it.                               *)
MarkersHonest == marker \cap mongo = {} /\ ("notes" \notin mongo => notes = Notes)

(* What the program sampled since is not overwritten by the copy of what is  *)
(* old.                                                                      *)
SamplesKept == \A d \in Days : samples[d] \subseteq days[d].points

(* What the tasks are for; they get there whatever failed before. *)
AllGone == mongo = {} /\ marker = Tasks
================================================================================
