------------------------------ MODULE Lifespan ------------------------------
(***************************************************************************)
(* The life of the process (main.py): the database is connected, prepared    *)
(* and read before or after the tasks start, whichever it allows; Telegram's *)
(* updates are queued and answered; and on the way down everything that      *)
(* writes is stopped before the database is closed (database.py,             *)
(* optional_work.py, notification_telemetry.py).                             *)
(***************************************************************************)
EXTENDS Integers, FiniteSets, Sequences

CONSTANTS
  Updates,      \* the updates Telegram has for the bot
  QueueLimit,   \* size of the update queue
  Tries,        \* max_retries of connect_db at startup
  Modes,        \* the settings of PLANE_STORAGE_MAINTENANCE_BACKGROUND
  MaxWork,      \* bound: background works with something to do at one time
  MaxOutages    \* bound: how often the database goes away or comes back

VARIABLES
  stage,        \* where lifespan() is
  pc, tries,    \* where each caller of connect_db is, and its attempts
  creator,      \* the caller that opened the client, if it is not done
  client,       \* is there a client: _client, _db
  reachable, outages,  \* can the database be reached
  background,   \* is it prepared in the background
  prepared,     \* how much of _prepare_connected_database is done
  maintenance,  \* the background maintenance
  warm, loops,  \* storage runtime: configuration loaded; its loops run
  reading,      \* the monitor reads the configuration itself
  tasks, cancelled,    \* tasks alive, tasks told to end
  work,         \* background work with something to do
  bot, queue, recent,  \* the bot, its update queue, the ids it has seen
  acked, handled       \* history: updates answered 200; how often each was handled

boot == <<pc, tries, creator, client, prepared, maintenance>>
world == <<reachable, outages, background>>
storage == <<warm, loops, reading>>
telegram == <<bot, queue, recent, acked, handled>>
vars == <<stage, boot, world, storage, tasks, cancelled, work, telegram>>

Callers == {"main", "reconnect"}
Steps == 3  \* prediction lab, indexes, schema
Works == {"audit", "telemetry", "enrichment"}

Init ==
  /\ stage = "connect" /\ pc = [main |-> "connect", reconnect |-> "off"]
  /\ tries = [c \in Callers |-> 0] /\ creator = "none" /\ client = FALSE
  /\ prepared = 0 /\ maintenance = "off"
  /\ reachable \in BOOLEAN /\ outages = 0 /\ background \in Modes
  /\ warm = FALSE /\ loops = FALSE /\ reading = FALSE
  /\ tasks = {} /\ cancelled = {} /\ work = {}
  /\ bot = "none" /\ queue = <<>> /\ recent = {} /\ acked = {} /\ handled = [u \in Updates |-> 0]

Outage ==
  /\ outages < MaxOutages /\ outages' = outages + 1 /\ reachable' = ~reachable
  /\ UNCHANGED <<background, stage, boot, storage, tasks, cancelled, work, telegram>>

-----------------------------------------------------------------------------
Runs(c) == c = "reconnect" => "reconnect" \in tasks \ cancelled
At(c, p) == pc[c] = p /\ Runs(c)
Rest == UNCHANGED <<world, reading, cancelled, work, telegram>>
Calm == UNCHANGED <<warm, loops>>

(* The caller has failed: startup goes on without the database and leaves it *)
(* to the reconnect task, which sleeps and tries again.                      *)
GiveUp(c) ==
  IF c = "main"
  THEN /\ pc' = [main |-> "off", reconnect |-> "sleep"] /\ tasks' = tasks \cup {"reconnect"}
       /\ stage' = "tasks" /\ tries' = tries
  ELSE /\ pc' = [pc EXCEPT ![c] = "sleep"] /\ tries' = [tries EXCEPT ![c] = 0]
       /\ UNCHANGED <<tasks, stage>>

(* connect_db: an open client is used as it is, whoever opened it.           *)
Connect(c) ==
  /\ At(c, "connect")
  /\ IF client THEN pc' = [pc EXCEPT ![c] = "prepare"] /\ UNCHANGED <<client, creator>>
     ELSE pc' = [pc EXCEPT ![c] = "ping"] /\ client' = TRUE /\ creator' = c
  /\ UNCHANGED <<stage, tries, prepared, maintenance, tasks>> /\ Calm /\ Rest

Ping(c) ==
  /\ At(c, "ping") /\ reachable
  /\ pc' = [pc EXCEPT ![c] = "prepare"]
  /\ UNCHANGED <<stage, tries, creator, client, prepared, maintenance, tasks>> /\ Calm /\ Rest

(* What fails while the client is new closes it again. *)
Fail(c) ==
  /\ At(c, "ping") \/ (At(c, "prepare") /\ ~background /\ prepared < Steps)
  /\ ~reachable
  /\ client' = (client /\ creator # c)
  /\ creator' = IF creator = c THEN "none" ELSE creator
  /\ IF creator = c /\ c = "main" /\ tries[c] + 1 < Tries
     THEN tries' = [tries EXCEPT ![c] = @ + 1] /\ pc' = [pc EXCEPT ![c] = "connect"] /\ UNCHANGED <<stage, tasks>>
     ELSE GiveUp(c)
  /\ UNCHANGED <<prepared, maintenance>> /\ Calm /\ Rest

(* _prepare_or_schedule_connected_database. *)
Prepare(c) ==
  /\ At(c, "prepare")
  /\ \/ /\ background /\ maintenance' = IF maintenance = "running" THEN maintenance ELSE "running"
        /\ prepared' = prepared
     \/ /\ ~background /\ (prepared < Steps => reachable) /\ maintenance' = maintenance
        /\ prepared' = IF prepared < Steps THEN prepared + 1 ELSE prepared
  /\ IF background \/ prepared' = Steps
     THEN pc' = [pc EXCEPT ![c] = "warm"] /\ creator' = IF creator = c THEN "none" ELSE creator
     ELSE UNCHANGED <<pc, creator>>
  /\ UNCHANGED <<stage, tries, client, tasks>> /\ Calm /\ Rest

Warm(c) ==
  /\ At(c, "warm") /\ reachable
  /\ warm' = TRUE /\ loops' = TRUE
  /\ pc' = [pc EXCEPT ![c] = "off"]
  /\ IF c = "main" THEN stage' = "tasks" /\ tasks' = tasks ELSE stage' = stage /\ tasks' = tasks \ {c}
  /\ UNCHANGED <<tries, creator, client, prepared, maintenance>> /\ Rest

WarmFails(c) ==
  /\ At(c, "warm") /\ ~reachable
  /\ GiveUp(c)
  /\ UNCHANGED <<creator, client, prepared, maintenance>> /\ Calm /\ Rest

(* Mutant of Retry: the task ends with its first failure. *)
RetryNot ==
  /\ At("reconnect", "sleep") /\ tasks' = tasks \ {"reconnect"} /\ pc' = [pc EXCEPT !.reconnect = "off"]
  /\ UNCHANGED <<stage, tries, creator, client, prepared, maintenance>> /\ Calm /\ Rest

(* _reconnect_db_loop, until somebody has loaded the configuration. *)
Retry ==
  /\ At("reconnect", "sleep")
  /\ IF warm THEN tasks' = tasks \ {"reconnect"} /\ pc' = [pc EXCEPT !.reconnect = "off"]
     ELSE tasks' = tasks /\ pc' = [pc EXCEPT !.reconnect = "connect"]
  /\ UNCHANGED <<stage, tries, creator, client, prepared, maintenance>> /\ Calm /\ Rest

(* _background_storage_maintenance: again and again until it is done. *)
Maintain ==
  /\ maintenance = "running"
  /\ IF prepared < Steps THEN reachable /\ prepared' = prepared + 1 /\ maintenance' = maintenance
     ELSE prepared' = prepared /\ maintenance' = "ready"
  /\ UNCHANGED <<stage, pc, tries, creator, client, tasks>> /\ Calm /\ Rest

-----------------------------------------------------------------------------
Monitoring == "monitor" \in tasks \ cancelled
StartTasks ==
  /\ stage = "tasks" /\ stage' = "bot" /\ tasks' = tasks \cup {"monitor", "sentinel"}
  /\ UNCHANGED <<boot, world, storage, cancelled, work, telegram>>

(* A cold cycle reads the configuration with whatever client there is. *)
ColdRead ==
  /\ Monitoring /\ ~warm /\ client /\ ~reading
  /\ reading' = TRUE
  /\ UNCHANGED <<stage, boot, world, warm, loops, tasks, cancelled, work, telegram>>

ColdAnswer ==
  /\ Monitoring /\ reading /\ reading' = FALSE
  /\ IF reachable /\ client THEN warm' = TRUE /\ loops' = TRUE ELSE Calm
  /\ UNCHANGED <<stage, boot, world, tasks, cancelled, work, telegram>>

(* A cycle restarts loops that have ended and hands work to the background.  *)
Cycle ==
  /\ Monitoring /\ warm /\ ~reading
  /\ loops' = TRUE
  /\ work' \in {work} \cup {some \in {work \cup {w} : w \in Works} : Cardinality(some) <= MaxWork}
  /\ UNCHANGED <<stage, boot, world, warm, reading, tasks, cancelled, telegram>>

Work(w) ==
  /\ w \in work /\ work' = work \ {w}
  /\ UNCHANGED <<stage, boot, world, storage, tasks, cancelled, telegram>>

-----------------------------------------------------------------------------
(* Telegram cannot be reached at startup: the bot stays as it is.            *)
StartBot ==
  /\ stage = "bot" /\ stage' = "serving" /\ bot' \in {"running", "failed"}
  /\ UNCHANGED <<boot, world, storage, tasks, cancelled, work, queue, recent, acked, handled>>

(* Mutant of Webhook: the id is noted before there is room for the update. *)
WebhookNotesFirst(u) ==
  /\ stage = "serving" /\ u \notin acked
  /\ recent' = recent \cup {u}
  /\ queue' = IF u \notin recent /\ Len(queue) < QueueLimit THEN Append(queue, u) ELSE queue
  /\ acked' \in {acked, IF u \in recent \/ Len(queue) < QueueLimit THEN acked \cup {u} ELSE acked}
  /\ UNCHANGED <<stage, boot, world, storage, tasks, cancelled, work, bot, handled>>

(* telegram_webhook: an update that is queued, or was, is answered 200; one  *)
(* that finds the queue full 503.  Telegram sends it again until it hears    *)
(* the 200, which may be lost.                                               *)
Webhook(u) ==
  /\ stage = "serving" /\ u \notin acked
  /\ u \in recent \/ Len(queue) < QueueLimit
  /\ recent' = recent \cup {u}
  /\ queue' = IF u \in recent THEN queue ELSE Append(queue, u)
  /\ acked' \in {acked, acked \cup {u}}
  /\ UNCHANGED <<stage, boot, world, storage, tasks, cancelled, work, bot, handled>>

Handle ==
  /\ bot \in {"running", "stopping"} /\ queue # <<>>
  /\ queue' = Tail(queue) /\ handled' = [handled EXCEPT ![Head(queue)] = @ + 1]
  /\ UNCHANGED <<stage, boot, world, storage, tasks, cancelled, work, bot, recent, acked>>

-----------------------------------------------------------------------------
Down == UNCHANGED <<world, warm, reading, recent, acked, handled>>

Shutdown ==
  /\ stage = "serving" /\ stage' = "stop bot"
  /\ bot' = IF bot = "running" THEN "stopping" ELSE bot
  /\ UNCHANGED <<boot, loops, tasks, cancelled, work, queue>> /\ Down

(* Application.stop handles what is queued; an application that never ran    *)
(* raises, and startup's failure is only logged again.                       *)
StopBot ==
  /\ stage = "stop bot" /\ (bot = "stopping" => queue = <<>>)
  /\ stage' = "cancel" /\ bot' = IF bot = "stopping" THEN "stopped" ELSE bot
  /\ UNCHANGED <<boot, loops, tasks, cancelled, work, queue>> /\ Down

CancelTasks ==
  /\ stage = "cancel" /\ stage' = "join" /\ cancelled' = tasks
  /\ UNCHANGED <<boot, loops, tasks, work, bot, queue>> /\ Down

(* A task ends where it waits next. *)
End(t) ==
  /\ t \in cancelled /\ tasks' = tasks \ {t} /\ cancelled' = cancelled \ {t}
  /\ reading' = (reading /\ t # "monitor")
  /\ pc' = IF t = "reconnect" THEN [pc EXCEPT !.reconnect = "off"] ELSE pc
  /\ UNCHANGED <<stage, tries, creator, client, prepared, maintenance, world, warm, loops, work, telegram>>

(* Mutant of Join: the tasks are cancelled and not waited for. *)
JoinNot ==
  /\ stage = "join" /\ stage' = "audit"
  /\ UNCHANGED <<boot, loops, tasks, cancelled, work, bot, queue>> /\ Down

Join ==
  /\ stage = "join" /\ tasks = {} /\ stage' = "audit"
  /\ UNCHANGED <<boot, loops, tasks, cancelled, work, bot, queue>> /\ Down

After == [audit |-> "telemetry", telemetry |-> "enrichment", enrichment |-> "storage"]
CloseWork ==
  /\ stage \in Works /\ stage' = After[stage] /\ work' = work \ {stage}
  /\ UNCHANGED <<boot, loops, tasks, cancelled, bot, queue>> /\ Down

CloseStorage ==
  /\ stage = "storage" /\ stage' = "database" /\ loops' = FALSE
  /\ UNCHANGED <<boot, tasks, cancelled, work, bot, queue>> /\ Down

CloseDatabase ==
  /\ stage = "database" /\ stage' = "down"
  /\ client' = FALSE /\ maintenance' = "off" /\ prepared' = 0
  /\ UNCHANGED <<pc, tries, creator, loops, tasks, cancelled, work, bot, queue>> /\ Down

Closing == StopBot \/ CancelTasks \/ Join \/ CloseWork \/ CloseStorage \/ CloseDatabase \/ \E t \in cancelled : End(t)
Starting == StartTasks \/ StartBot
Connecting(c) == Connect(c) \/ Ping(c) \/ Fail(c) \/ Prepare(c) \/ Warm(c) \/ WarmFails(c)

Next ==
  \/ Outage \/ Shutdown \/ Starting \/ Closing
  \/ Retry \/ Maintain \/ ColdRead \/ ColdAnswer \/ Cycle \/ Handle
  \/ \E c \in Callers : Connecting(c)
  \/ \E w \in Works : Work(w)
  \/ \E u \in Updates : Webhook(u)

Spec == Init /\ [][Next]_vars /\ WF_vars(Starting \/ Closing) /\ WF_vars(Handle)
             /\ WF_vars(Retry \/ \E c \in Callers : Connecting(c))

-----------------------------------------------------------------------------
TypeOK ==
  /\ stage \in {"connect", "tasks", "bot", "serving", "stop bot", "cancel", "join",
                "audit", "telemetry", "enrichment", "storage", "database", "down"}
  /\ pc \in [Callers -> {"off", "connect", "ping", "prepare", "warm", "sleep"}]
  /\ tries \in [Callers -> 0..Tries] /\ creator \in Callers \cup {"none"}
  /\ client \in BOOLEAN /\ prepared \in 0..Steps /\ maintenance \in {"off", "running", "ready"}
  /\ reachable \in BOOLEAN /\ outages \in 0..MaxOutages /\ background \in BOOLEAN
  /\ warm \in BOOLEAN /\ loops \in BOOLEAN /\ reading \in BOOLEAN
  /\ tasks \subseteq {"monitor", "sentinel", "reconnect"} /\ cancelled \subseteq tasks
  /\ work \subseteq Works
  /\ bot \in {"none", "running", "failed", "stopping", "stopped"}
  /\ queue \in Seq(Updates) /\ Len(queue) <= QueueLimit
  /\ recent \subseteq Updates /\ acked \subseteq recent /\ handled \in [Updates -> Nat]

(* Once the database is closed nothing that lifespan() started still writes  *)
(* to it, and nothing closed on the way down has come back.                  *)
Stopped(s) ==
  CASE s = "telemetry" -> "audit" \notin work
    [] s = "enrichment" -> work \subseteq {"enrichment"}
    [] s \in {"storage", "database", "down"} -> work = {}
    [] OTHER -> TRUE
ClosedInOrder ==
  /\ Stopped(stage)
  /\ stage \in {"database", "down"} => ~loops
  /\ stage = "down" => tasks = {} /\ maintenance # "running" /\ bot \notin {"running", "stopping"} /\ ~client

(* An update answered with 200 waits in the queue or was handled, and no     *)
(* update is handled twice, however often Telegram sends it.                 *)
InQueue(u) == \E i \in 1..Len(queue) : queue[i] = u
AcceptedOnce ==
  \A u \in Updates :
    /\ u \in acked => InQueue(u) \/ handled[u] > 0
    /\ handled[u] + Cardinality({i \in 1..Len(queue) : queue[i] = u}) <= 1

(* A database that stays reachable is read, whatever failed before.          *)
Recovers == []<>(reachable => warm \/ stage \notin {"connect", "tasks", "bot", "serving"})
(* A bot that ran has handled what it accepted in the end, shutdown or not. *)
Handles == \A u \in Updates : []<>(bot \in {"running", "stopping", "stopped"} => ~InQueue(u))
=============================================================================
