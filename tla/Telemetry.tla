----------------------------- MODULE Telemetry -----------------------------
(***************************************************************************)
(* What is remembered of an alert's deliveries (worker/notifications.py,     *)
(* worker/notification_telemetry.py). Each delivery is put on a bounded       *)
(* queue; one worker reads the alert's document, decides what the delivery    *)
(* was and writes it, four seconds at most. A write that is timed out is a    *)
(* thread that goes on: it may land while the worker is at a later delivery.  *)
(***************************************************************************)
EXTENDS Integers, Sequences, FiniteSets

CONSTANTS
  QueueLimit,   \* _QUEUE_LIMIT
  KeptEvents,   \* the events of an alert that are kept, 64
  MaxEvents,    \* bound: deliveries of the alert
  MaxRestarts   \* bound: stops of the process

VARIABLES
  message,      \* the record's message id, if it has one
  alive,        \* the alert has not passed
  tried,        \* deliveries tried so far: the clock of this module
  queue,        \* _queue
  job,          \* what the worker is doing, to which delivery
  late,         \* writes of timed-out calls that have not landed
  doc,          \* the alert's document of notification_history
  pushed,       \* history: every event that was written to it
  restarts

vars == <<message, alive, tried, queue, job, late, doc, pushed, restarts>>

Ends == {"passed", "cancelled"}
EndUpdate == [passed |-> "passed_update", cancelled |-> "cancellation_update"]
Stages == {"prepare", "photo_now"} \cup Ends
Idle == [pc |-> "idle"]

(* events are the newest attempts; last is last_delivery_success and the other   *)
(* fields of the newest; first is first_notified_at, alerts is alert_count.    *)
NoAttempt == [ok |-> TRUE, logical |-> "none", stage |-> "none"]
NewDoc == [events |-> <<>>, last |-> NoAttempt, first |-> 0, alerts |-> 0]

Init ==
  /\ message = FALSE /\ alive = TRUE /\ tried = 0
  /\ queue = <<>> /\ job = Idle /\ late = {}
  /\ doc = NewDoc /\ pushed = <<>> /\ restarts = 0

-----------------------------------------------------------------------------
(* _logical_event_type: a delivery without an earlier message is the first.    *)
Logical(d) ==
  IF ~d.edit THEN "first_notification"
  ELSE IF d.stage \in Ends THEN EndUpdate[d.stage] ELSE "message_update"

(* _enqueue: put_nowait, and a full queue drops the delivery.                  *)
Enqueue(d) == queue' = IF Len(queue) < QueueLimit THEN Append(queue, d) ELSE queue

(* send_or_update_approach: the message is sent or edited, and the attempt is   *)
(* queued whatever its outcome. Only a delivered end ends the alert.           *)
Deliver(s, ok) ==
  /\ alive /\ tried < MaxEvents /\ (s \in Ends => message)
  /\ tried' = tried + 1
  /\ Enqueue([stage |-> s, edit |-> message, ok |-> ok, at |-> tried + 1])
  /\ message' = (message \/ ok) /\ alive' = ~(ok /\ s = "passed")
  /\ UNCHANGED <<job, late, doc, pushed, restarts>>

-----------------------------------------------------------------------------
Worker(rest) == /\ rest /\ UNCHANGED <<message, alive, tried, restarts>>

Take ==
  /\ job = Idle /\ queue # <<>>
  /\ job' = [pc |-> "read", item |-> Head(queue)] /\ queue' = Tail(queue)
  /\ Worker(UNCHANGED <<late, doc, pushed>>)

(* Mutant of Retrying: whatever the attempt that failed.                       *)
RetryingAny(d, seen) == ~seen.last.ok

(* _persist_event: find_one. A retry is an attempt like the last one recorded,   *)
(* when that one failed.                                                       *)
Retrying(d, seen) ==
  ~seen.last.ok /\ seen.last.logical = Logical(d) /\ seen.last.stage = d.stage

EventType(d, seen) ==
  IF ~d.ok THEN "failed_delivery" ELSE IF Retrying(d, seen) THEN "retry" ELSE Logical(d)

Read ==
  /\ job.pc = "read"
  /\ job' = [pc |-> "event", item |-> job.item, known |-> doc.first # 0,
             event |-> [type |-> EventType(job.item, doc), logical |-> Logical(job.item),
                        stage |-> job.item.stage, ok |-> job.item.ok, at |-> job.item.at]]
  /\ Worker(UNCHANGED <<queue, late, doc, pushed>>)

(* The two writes, as each is done by its own thread: the event is pushed, and  *)
(* the oldest gives way; the first delivery is marked if the document has no    *)
(* such mark.                                                                 *)
Newest(s) == SubSeq(s, IF Len(s) > KeptEvents THEN Len(s) - KeptEvents + 1 ELSE 1, Len(s))
MarkFirst(d, at) == IF d.first = 0 THEN [d EXCEPT !.first = at, !.alerts = @ + 1] ELSE d
Apply(w, d) ==
  IF w.kind = "event" THEN [d EXCEPT !.events = Newest(Append(@, w.event)), !.last = w.event]
  ELSE MarkFirst(d, w.event.at)
Lands(w) ==
  /\ doc' = Apply(w, doc)
  /\ pushed' = IF w.kind = "event" THEN Append(pushed, w.event) ELSE pushed

Write == [kind |-> job.pc, event |-> job.event]
IsFirst == job.item.ok /\ ~job.item.edit /\ ~job.known

WriteDone ==
  /\ job.pc \in {"event", "first"}
  /\ Lands(Write)
  /\ job' = [job EXCEPT !.pc = IF job.pc = "event" /\ IsFirst THEN "first" ELSE "photo"]
  /\ Worker(UNCHANGED <<queue, late>>)

(* The auxiliary work, the photo snapshot, is the end of the item.             *)
PhotoDone ==
  /\ job.pc = "photo" /\ job' = Idle
  /\ Worker(UNCHANGED <<queue, late, doc, pushed>>)

(* Mutant of Timeout: only the auxiliary work is timed.                        *)
TimeoutOfPhoto ==
  /\ job # Idle /\ job.pc = "photo" /\ job' = Idle
  /\ Worker(UNCHANGED <<queue, late, doc, pushed>>)

(* wait_for: the item is given up wherever it is, and nothing of it is tried    *)
(* again. The thread of a write that had started goes on.                      *)
Timeout ==
  /\ job # Idle /\ job' = Idle
  /\ \/ late' = late
     \/ job.pc \in {"event", "first"} /\ late' = late \cup {Write}
  /\ Worker(UNCHANGED <<queue, doc, pushed>>)

Land ==
  \E w \in late :
    /\ Lands(w) /\ late' = late \ {w}
    /\ Worker(UNCHANGED <<queue, job>>)

(* The process stops: what is queued is lost, and the record of the alert may  *)
(* be one from before its message was sent.                                   *)
Restart ==
  /\ restarts < MaxRestarts /\ restarts' = restarts + 1
  /\ queue' = <<>> /\ job' = Idle /\ late' = {}
  /\ message' \in {message, FALSE}
  /\ UNCHANGED <<alive, tried, doc, pushed>>

Next ==
  \/ \E s \in Stages, ok \in BOOLEAN : Deliver(s, ok)
  \/ Take \/ Read \/ WriteDone \/ PhotoDone \/ Timeout \/ Land \/ Restart

(* The event loop runs the worker and its timer; the database need not answer.  *)
Spec == Init /\ [][Next]_vars /\ WF_vars(Take) /\ WF_vars(Timeout)

-----------------------------------------------------------------------------
Delivery == [stage : Stages, edit : BOOLEAN, ok : BOOLEAN, at : 1..MaxEvents]
Event == [type : STRING, logical : STRING, stage : Stages, ok : BOOLEAN, at : 1..MaxEvents]

(* Every variable has its type.                                              *)
TypeOK ==
  /\ message \in BOOLEAN /\ alive \in BOOLEAN /\ tried \in 0..MaxEvents
  /\ Len(queue) <= QueueLimit /\ \A i \in DOMAIN queue : queue[i] \in Delivery
  /\ \/ job = Idle
     \/ job.pc = "read" /\ job.item \in Delivery
     \/ job.pc \in {"event", "first", "photo"} /\ job.event \in Event
  /\ \A w \in late : w.kind \in {"event", "first"}
  /\ doc.first \in 0..MaxEvents /\ Len(doc.events) <= KeptEvents
  /\ restarts \in 0..MaxRestarts

(* What the history says happened, whatever writes landed late or twice: an     *)
(* event called a retry was written after a failure of the same kind and stage, *)
(* kept or given up since, and the alert is counted once, for the first delivery *)
(* the mark names.                                                            *)
HistoryHonest ==
  /\ \A i \in DOMAIN pushed : pushed[i].type = "retry" =>
       \E j \in 1..(i - 1) : /\ ~pushed[j].ok
                             /\ pushed[j].logical = pushed[i].logical
                             /\ pushed[j].stage = pushed[i].stage
  /\ doc.alerts = IF doc.first = 0 THEN 0 ELSE 1
  /\ doc.first # 0 => \E i \in DOMAIN pushed :
       pushed[i].at = doc.first /\ pushed[i].ok /\ pushed[i].logical = "first_notification"

(* A database that does not answer delays the queue, it does not stop it: the  *)
(* worker is always at rest again with nothing queued.                         *)
Drained == []<>(queue = <<>> /\ job = Idle)
=============================================================================
