# Plane Alerts: verification project

Plane Alerts watches ADS-B positions for its users and keeps one live Telegram
message per approaching aircraft. The hard part is not the geometry: it is that
one message is driven by noisy predictions through a chat service that fails,
from records that live in memory first and in a database later, by a process that
is restarted at any time. This directory models those parts in TLA+, checks them
with TLC and proves the most important facts with TLAPS.

Run a model with `tlc -config <Run>.cfg <module>`, the proofs of a component with
`tlapm <name>Proofs.tla`. `PROJECT.json` lists the runs and theorems, maps every
definition to the lines it stands for, and lists the hazards.

## 1. Inventory

| component | state | operations | talks to |
|---|---|---|---|
| **Storage runtime** (`app/storage_runtime_v48.py`) | approach records, their versions, dirty queue, pending status documents, back-off; cached users | warm, apply_approach_update, prune, enqueue_status_update, flush_once, close | called by the monitor through the storage guard; writes the database |
| **Storage guard, cadence guard** (`app/worker/storage_guard_v48.py`, `cadence_guard_v423.py`) | copy of a user's records for one cycle; learning queue | prefetch, update, coherent user loading, bounded poll | between monitor, runtime and poller |
| **Alert lifecycle** (`app/worker/monitor.py`, `app/intelligence/lifecycle.py`) | one record per user and aircraft: message id, stage, counters, CPA, observed minimum | one evaluation per cycle: skip, pass, cancel, hold, start over, qualify | predictors, route gate, delivery, storage |
| **Delivery and its telemetry** (`app/worker/notifications.py`, `notification_telemetry.py`) | the chat; a queue of attempts | edit, replace, send; record the attempt | Telegram, database |
| **Predictors** (`app/intelligence/trajectory*.py`, `prediction_v46.py`, ...) | history of samples | predict | lifecycle |
| **Route gate and sampling** (`app/intelligence/route_guard.py`, `route_observe_guard_v44.py`, airport modules) | cache of destinations, lookups under way; sampling queue | look up, decide, hold; sample | lifecycle, volume |
| **Shared polling** (`app/worker/v35.py`, `v36.py`, `scale_v53.py`, guards) | region snapshots, feed cursors, users' last evaluation | poll within a budget, reuse, continuity, partition | feeds, lifecycle |
| **Feeds and learning** (`app/aircraft/*.py`) | breaker of each feed, credentials, what was learned of a place | ask, fail, rest; set aside, reset; learn | polling, AI |
| **Aircraft selection** (`app/aircraft/filtering.py`, `profile_filter_guard_v43.py`) | rules of the profile | match, inherit, widen the radius | polling, lifecycle |
| **Profiles** (`app/alert_profiles.py`, profile guards) | profiles, active profile id, materialized preferences and location | create, save, activate, delete, synchronise | bot, database, configuration loader |
| **Telegram bot** (`app/bot/*.py`) | the conversation and its draft, a cache of it | menus and answers of two generations of handlers | profiles |
| **Local SQLite database** (`app/local_database_v55.py`) | documents, indexes, one connection and lock | Mongo-like operations in a thread | everything that stores |
| **Evidence and volume** (`app/prediction_lab_*.py`, `*_volume_*.py`, `legacy_mongo_retirement_v562.py`) | files, bundles, markers | append, compact, export, acknowledge; copy and drop old collections | a workflow outside |
| **Forecasts** (`app/bot/next60.py`, `next60_outcomes_v55.py`, `forecast_outcomes.py`, `prediction_lab_audit.py`) | expectations, outcomes, a checkpoint; snapshots of predictions | file, score, remember | sentinel loop, lifecycle |
| **Process** (`app/main.py`, `database.py`, `worker.py`) | client, tasks, update queue | connect, reconnect, serve, shut down | everything |
| **Vercel runtime** (`vercel_runtime/`) | a record of the current generation, a warm application | bootstrap, monitor, handle | database, Telegram |
| **Installer** (`scripts/community_installer_v55.py`, `app/doctor_v49.py`) | tree, environment, service, timer, backup | install, update, roll back, repair, uninstall | git, the doctor |
| Administration, sentinels' sampling, photography, offline scripts | see `PROJECT.json` | | off the alert path or plain I/O |

What is hard about it:

* **Interleaving.** Everything is asyncio: each `await` lets another task run. A
  flush of the storage runtime reads a version, awaits up to three database calls
  and compares the version again, while the monitor keeps changing the record;
  SQLite calls run in threads that outlive the call that was cancelled.
* **Unreliable calls.** A database or Telegram call that times out may not have
  happened, may have happened, or may happen later.
* **Restarts.** The stop does not flush; the next process continues from what is stored.
* **Noise.** Predictions jump, feeds repeat or lose samples, positions go stale; a
  message may be started, cancelled or declared a pass only on enough evidence.
* **Old buttons.** Every message ever sent can still be pressed.
* **Time.** Records expire, quiet periods end, the wall clock may step back; a poll
  has a budget, and a slow feed uses up that of others.
* **Limits.** Caches and queues evict or drop what they cannot hold, and must forget
  it everywhere.

What makes each part correct: a decision is in memory at once and reaches the
database in the end; a stored record only moves forward; a message starts, is
cancelled and passes on evidence only; no evaluation works with an older sky than it
states; what a menu shows is what is matched; a draft is saved once and to what it
was made from; nothing stored is lost when it is moved; a forecast is scored with
what was heard; an update that ends leaves something that was tested; what is begun
ends.

## 2. Modules

| module | models | checked in |
|---|---|---|
| `EncounterStore` | what the storage runtime promises about each record (abstract specification) | `StorageDurable` |
| `StorageRuntime` | `storage_runtime_v48.py`, the record copies of the storage guard, the TTL index; implements `EncounterStore` | `StorageDurable`, `StorageLimits`, `StorageLateWrite`, `Stores` |
| `AlertLifecycle` | `_match_user_aircraft`, `lifecycle.py`, `send_or_update_approach`: one aircraft and one user | `Alerts`, `AlertPassStale` |
| `AlertProfiles` | `alert_profiles.py`, the configuration loading of the storage guard, `refresh_config_once`, first setup: one user's configuration from the menu to the monitor | `ProfileFaults`, `ProfileLive` |
| `ProviderRotation` | the poll of one region: feeds, breakers, budget, source guard | `Feeds` |
| `SharedPolling` | the monitor cycle over regions: due users, snapshots, continuity | `Feeds` |
| `RouteGate` | the destination resolver and the hold of a first alert | `Feeds` |
| `RouteObserver` | the queue of route samples | `Feeds` |
| `DocumentStore` | what the program expects of a collection (abstract specification) | `Stores` |
| `LocalDatabase` | the SQLite store statement by statement; implements `DocumentStore` | `Stores` |
| `EvidenceSpool` | evidence files, compaction, export | `Stores` |
| `LegacyRetirement` | the moves out of MongoDB | `Stores` |
| `Dialogues` | the conversations that build a profile | `Decisions` |
| `AircraftFilter` | selection, rules and the radius they widen | `Decisions` |
| `SkyPartition` | the distribution of a snapshot among users | `Decisions`, `AcrossTheLine` |
| `AiCascade` | AI models and keys | `Decisions` |
| `PassScoring` | snapshots, outcomes and their join | `Decisions` |
| `VercelRuntime` | the serverless runtime | `Decisions` (safety), `Upkeep` (liveness) |
| `Lifespan` | the process from start to end | `Upkeep` |
| `Installation` | installer, updater, doctor | `Upkeep` |
| `Telemetry` | the history of deliveries | `Upkeep` |
| `KeyPool` | the OpenSky credentials | `Upkeep` |
| `ProviderLearning` | the learning of feeds | `Upkeep` |
| `ForecastLedger` | one-hour forecasts and their scoring | `Upkeep` |
| `MCStorageRuntime`, `MCAlertLifecycle`, `MCAlertScenarios`, `MCFeeds`, `MCStores`, `MCDecisions`, `MCUpkeep` | instances for TLC | |
| `StorageRuntimeProofs`, `AlertLifecycleProofs`, `AlertProfilesProofs`, `VercelRuntimeProofs` | theorems about the component of that name | by `tlapm` |
| `FeedsProofs`, `StoresProofs`, `DecisionsProofs`, `UpkeepProofs` | theorems about the components of the run of that name, one module extended, the others as named instances | by `tlapm` |

The head of each module says what it abstracts; what follows is what a reader of the
code needs to find their way.

### StorageRuntime

A record is abstracted to its sequence number (which decision it is), its
`updated_at`, its expiry and whether it is active. `approach`, `version`, `dirty`
are the three dictionaries of the runtime, `cycle` is the monitor's copy of a
cycle, `db` the collection. `pc` is where the flush waits: before a guarded
replace, before the find, before the replace by identity, or in the status
documents; every `await` is a place where other actions may happen.
`ApplyUpdate` is the whole of `apply_approach_update` with the insertion and the
prune of `_cache_state`; `Prune` expires, evicts and trims as `_prune_states`
does, leaving open which of the equal candidates dictionary order picks.
`FlushFail` is a timeout or failure of the awaited call: its effect is dropped,
happens anyhow, or is put in `late` and happens at any later time (`LateWrites`).
`Stop` forgets all memory. `StepBack` moves the wall clock back
(`ClockStepsBack`).

Abstracted: only the parts of a record the runtime looks at; the optional queue
(nothing enqueues into it); user configurations; delays (the back-off elapses at
any time).

### AlertLifecycle

One aircraft, one user. A prediction is any member of `Predictions` (state,
distance, CPA, ETA, trend, confidence, whether it enters the radius, staleness);
`Feasible` restricts them to what the predictors produce. A cycle is one step,
with the disjuncts of `_match_user_aircraft` in the code's order: `Skip` (three
minutes after a pass), `Pass`, `Cancel`, `Hold`, `StartOver`, `Ignore`,
`Qualify`. Cycles that send are split at the `await`: `pc = "sending"` until
`Edited`, `SentAnew` (first message or replacement), `Failed` or `AnswerLost`
(the chat changed although no answer came); `Answered` is the record write after
it. `Reconfigure` changes the settings or the callsign, `Save` and `Restart` are
the storage runtime reduced to what the lifecycle sees of it. Distances are metres
and both sides of a comparison are multiplied by 100, so every threshold of
`lifecycle.py` is exact.

The variables `trail`, `struck`, `entered`, `lost` are history: they record what
was observed independently of the record's counters, and only properties use them.

Abstracted: which stage the shooting window gives (any of `LiveStages`); the
candidate fields no decision reads; after a restart the sample history is empty,
so a sample may be older than the last one before it; whether the route gate
vetoes (any cycle that asks it, never inside the radius). Of a user that blocked
the bot no further cycle follows; every behaviour with that prefix is included.

### AlertProfiles

One user. `profiles` and `active` are what the user chose, `prefs` and `place` the
copy of the active profile in the two collections every other part reads, each
with the revision its writer gave it, and `image` is the configuration the monitor
works with. `task["bot"]` and `task["migration"]` are the two tasks that change
profiles: `at` names the database call that comes next. The bot handles one update
at a time, so it runs one operation (`Bot`); the migration runs once beside it
(`Migrate`). `load` is what the loader has read: the user, the two documents, and
on a cold process the profile it repairs a torn copy from (`BeginRepair` to
`Repaired`). `Fail` and `LoadFails` are a call that raises or times out, with or
without effect (`Ambiguous`), and the rollback it starts (`Undone`). `Restart`
stops every task; `Switch` is monitoring switched by the administrator or by
Telegram.

Abstracted: the content of a configuration is one number for both documents
(`Drafts`), 0 for nothing; a revision is fresh if nobody holds it, so revisions
are reused; reads at the head of an operation are one step, because only the
migration could come between them and it writes what the bot writes; names
are left out, and drafts and dialogues are in `Dialogues`. Left out are the single fields that are
changed in the copy alone (radius, elevation, `/spotting`); the hazards name them.

`crossed`, `met` and `disturbed` are history: an operation ran since a load began; the
bot and the migration were at work at once; they met, a repair used what was read before
an operation, or a failed call changed the profiles all the same. Properties that hold
only without such a disturbance name it, and section 4 says what happens with it.

### The feeds: ProviderRotation, SharedPolling, RouteGate, RouteObserver

`ProviderRotation` is one region. `poll` is where `SharedRegionPoller.poll` stands:
two public feeds in rotation, then OpenSky. A call answers at once or takes its
deadline; two of those use up the budget and `CutOff` ends the poll without a failure
being counted. `health` is the breaker, `guard` the source guard. `heard` is what the
poll gives to the lifecycle.

`SharedPolling` takes such a poll as one outcome and looks at the cycle: `Begin`
reads the settings once, `Visit` handles one region in the order of
`_region_order` (postponed, reused, fetched, continued or blank), and the age of a
snapshot and the time since the users' last evaluation go on meanwhile (`Elapse`).
The key of a region is who is in it, so a user who moves changes two keys.

`RouteGate` counts time in monitor cycles: `Evaluate` is the whole decision for one
flight (it never waits), `FetchStart` and `FetchEnd` are the lookups with their slots.
`RouteObserver` is the queue of `observe_queued` with its workers and the reserved
callsigns, including workers that die and are replaced.

### The stores: LocalDatabase, EvidenceSpool, LegacyRetirement

In `LocalDatabase` a step of a thread is one statement on the one connection;
`rows` is what the connection sees and `saved` what is committed. `Cancel` gives the
lock back while the thread goes on, so that its statements meet the next call's.
`DocumentStore` takes effect of a call once and whole, or not at all;
`saved` and the calls that have not ended refine it.

`EvidenceSpool` has the program, the compaction and the workflow outside as three
parties over one directory. `LegacyRetirement` has three tasks with a marker each,
restarted at any time (`Crash`), while new samples arrive.

### The decisions: Dialogues, AircraftFilter, SkyPartition, AiCascade, PassScoring

`Dialogues` keeps the conversation twice: `stored` in the database and `cached` for
the menus, which older handlers do not know of. Any button of any earlier message can
be pressed in any state. A save is several awaited writes: `SavedAsNew` and `SaveEdit`
are the first, which changes a profile, and `pending` names what the handler does next
(`Activated`, `Monitored`, `Ended`). Instead, `Interrupted` may come: the call that is
due fails, with or without effect, or the process stops; the draft is then left as it
is. `uses` counts the profiles made of the draft in hand, `failed` the handlers that
were interrupted after a profile was made or changed. One update of a user is handled
at a time.

`AircraftFilter` is one profile whose menus are pressed in any order, with three
readings of the same rules: what is polled, what is matched, what is shown; between poll
and match, `Candidates` is the partition of `scale_v53.py`, which goes by the radius of
the profile and its margin. `SkyPartition` is that partition on a ring of longitudes with
cells.
`AiCascade` interleaves questions at each request over shared cursors and cooldowns.
`PassScoring` has an aircraft that comes near more than once; two distances are those of
one approach if they differ by `Tolerance` at most (50 m or 1 % in the code).

### Around the alerts: Lifespan, VercelRuntime, Installation, Telemetry, KeyPool, ProviderLearning, ForecastLedger

`Lifespan`: `stage` is where `lifespan()` is; `pc["main"]` and `pc["reconnect"]` are
the two callers of `connect_db`, which share `client`. Outages come at any time.
`VercelRuntime`: each request starts two workflows; `path`, `imported` and `loaded`
are the process's idea of the commit it runs. A commit already running is deployed again
at another address (`Url`; the runs deploy at one). `Ensure` shuts down another generation's application under
the lock; a shutdown that raises is logged and the application forgotten (`torn`: it may
live on and may or may not still answer), and a failed download or connection drops the
update.
`Installation`: `at` is the command the updater is at; the service writes, dies and is
restarted between two commands.
`Telemetry`: `late` are writes of threads whose caller timed out. A record keeps the last
`KeptEvents` events (64 in the code) beside the `last_*` fields of the newest; `pushed`
is history, every event that was ever written.
`KeyPool`: `blamed` is history, the credentials something happened to.
`ProviderLearning`: a worker's copy of the record is in `work`, and a dislike writes
beside it.
`ForecastLedger`: `flight` is the true distance over time, chosen first among all that
are no faster than `Speed`; `heard` is when it was heard. `files` holds evidence of every
kind, outcomes included, and the resolver reads the newest `MaxFiles` of them. What the resolver concludes
from the points it has is compared with what happened in between.

## 3. Runs

| run | asks | bounds |
|---|---|---|
| `StorageDurable` | is a clean record the stored one, is no decision forgotten, does each key follow `EncounterStore`, does every queued record leave the queue? | 2 keys, room for both, 3 decisions, clock 0..3, lifetime 1, 1 failed flush, 1 stop, fairness |
| `StorageLimits` | `LimitsSound`: do the limits of cache and queue hold, does nothing in memory become older and is no status update lost, when records are evicted, writes come late and the clock steps back? | 2 keys for a cache and a queue of 1, 3 decisions, 1 status document updated twice, 1 failed flush |
| `StorageLateWrite` | finding: a late upsert replaces a newer record | 2 decisions, 1 failure |
| `Alerts` | does a first message need confirmation, is there ever a second one, do cancellation and pass need evidence, does a cancellation last? | scenario "beginning": approach, jump, inside, passed, uncertain, stale, clock 4, 1 message; "ending": approach, inside, receding, clear and near miss, uncertain, clock 5, 1 message; "changing": inside, receding, the settings or the callsign change once, clock 4, 2 messages; "failures": the same without the change, 1 failed or lost answer, 1 restart |
| `AlertPassStale` | finding: a pass is announced of an aircraft that turned away | as the scenario "ending" |
| `ProfileFaults` | is the copy the active profile after every operation, are two configurations never mixed unless the bot and the migration met, does a watched user stay watched? | new user, 2 profiles, 1 incident: a failed call with or without effect, or a switch |
| `ProfileLive` | is setup complete before monitoring goes on, does the monitor follow the active profile if the copy is whole? | user from before profiles, 1 profile, 1 incident: a failed call, a restart or a switch; fairness |
| `Feeds` | `SkyIsHonest`: is nobody evaluated with what is older than stated, or with a blanked sky, and is a source changed only when confirmed? `EvaluatedInTime`, `HoldBounded`, `KeyIsOnItsWay`; `FeedsRecover`: is an aircraft heard again, a hanging feed rested, a sample ended? | 3 public feeds and OpenSky, breaker threshold 2; 2 users, 2 places; 3 flights, 1 slot of 2 lookups; 3 flights, queue 2, 2 workers |
| `Stores` | `DatabaseSpec`: is the SQLite store a `DocumentStore`? `DatabaseSound`, `NothingLost`, `PersistedNeverOlder` with a clock that steps back, `StoresDrain` | 6 calls on 2 documents, 1 cancellation, 1 kill; 4 events in 2 days, one refused, 2 faults; 3 collections, 2 faults; 1 record, 3 decisions |
| `Decisions` | `DraftsAreSafe`, `SelectionSound`, `OptionalSound`, `OneApplication` | 2 profiles that are changed once or 3 that are not, 1 preset session; 2 types, 4 settings; aircraft within and beyond the radius of the profile; ring of 12, 4 aircraft, cap 2; 3 models, 3 keys, 2 questions; 2 approaches in 4 minutes, distances that agree up to 1; 2 deployments at one address, 2 updates |
| `Upkeep` | `LedgerHonest`, `ServerInOrder`, `WorkIsSafe` (scored once, left tested, retries that are retries, set aside for cause, nothing unlearned), `UpkeepEnds` (settled, recovered, handled, updated, drained, reset, reopened, superseded ended) | 2 forecasts in 5 steps, the newest 3 files, 1 fault; 2 updates, 2 tries, 2 outages; 3 releases of which 1 is broken, 2 faults; 3 deliveries, queue 1, 2 events kept; 3 credentials with 2 credits over 3 days; 2 places, 2 workers, queue 1; 2 deployments |
| `AcrossTheLine` | finding: a user beside the date line misses aircraft beyond it | 2 users, ring of 16 |

**Instances that hold several components.** `MCFeeds`, `MCStores`, `MCDecisions` and
`MCUpkeep` instantiate components that share no variable and do not call each other
(where they do, the caller takes any outcome: `SharedPolling` takes any poll). A
behaviour moves one of them, the one in `focus`, chosen initially; the others keep an
initial state. Every behaviour of every component is in the run, and their product is
not, which would say nothing more about any of them. The properties of a component are
stated for the behaviours with this focus. Safety properties of several components
with one purpose are one conjunction. One component of each is extended rather than
instantiated (`RouteObserver`, `StorageRuntime`, `Dialogues`, `ForecastLedger`), so that its
theorems state the very definition the run checks. A behaviour in which the clock of its component
reaches its bound ends there, so deadlock is not checked in these, nor in `Alerts`
(the bound on messages is reached while a further one is due) and `AcrossTheLine`.

**Why these bounds suffice.** Storage keys only interact through the limits, so two
keys show every interference of a flush with the monitor, and two keys for one place
an eviction; three decisions about a key let one be in flight, one queued and one
arrive; one stop lets a write be orphaned and the next process meet it. An alert
that starts inside at once needs three further samples to be cancelled, hence a clock
of five where alerts end; a start by confirmation needs three samples, and a gap or a
fresh one, hence four. Times are scaled (a gap of 1 tick, quiet 2, encounter 2) so
that each limit is crossed within the clock; what a run of the lifecycle checks with
these few messages and restarts is proved for any number of them (section 5).
Two profiles are what activation, rollback and deletion need; one incident tears a copy or meets the operation that
mends it. Three public feeds let the rotation pass over one that rests; two regions
let a slow one delay the other. Six calls of each kind with one cancellation let a
thread of the first meet the transaction of any other. Four events make a bundle of
two with one refused and leave one. Two deployments supersede one another in either
order. Three releases are one to come from, one that fails and one to reach
afterwards. The flight of the forecasts is near for one instant of six and heard
at four, so that there are windows with a pass, with a miss the points prove, and with
neither. Two workers and one place are the race on a record; a queue of one is at
its limit with the second. Each property has mutants of the code under which TLC finds
it violated in the same run.

**Fairness.** Where a run checks liveness, weak fairness is on the steps of tasks the
program itself keeps going, never on users, feeds or failures, which are finitely many
in the runs because otherwise they may go on forever, as in reality:

* the flush loop and the end of its back-off (`_flush_loop`; every call in it is
  bounded by `wait_for`); in `AlertProfiles` an operation that was started and the
  loader (`_refresh_loop`). `MonitorFollowsWhole` speaks of behaviours in which the
  user's operations come to an end with monitoring on;
* the monitor's polls, the workers of the sampling and learning queues, and that a
  flight that stays is seen again;
* the workflow that fetches evidence, and a compaction that has begun; each task that
  retires a collection (it retries after any failure);
* `lifespan()` and the reconnect loop, the application's update queue;
* the timer of the updater and an update that was started; a reboot interrupts it;
* the telemetry worker with its deadline; the date and the heartbeat of the monitor;
* the clock and the sentinel loop for forecasts; the platform that runs a workflow.

Fairness is on the component's own variables, for the component in focus. Liveness of
these is stated as `[]<>`: what was begun is over again and again.

## 4. Findings

Runs that expect a violation:

1. `StorageLateWrite`: the upsert after a missed find carries no newer-state
   filter, so an orphaned upsert that lands late overwrites a newer record, which
   `docs/releases/V4_8_0.md:9` rules out.
2. `AlertPassStale`: `observed_closest_km` survives the end of a pass; when the
   same record goes live again and the aircraft turns away outside the radius, the
   message says it passed.
3. `AcrossTheLine`: for a user just east of the date line the range of cells across it
   ends at 180.0, which wraps to the first column: the range is empty.

Seen with the models, beyond what the listed properties assert; each can be reproduced
by stating it in the module named:

* `StorageRuntime`: versions restart at 1 after an eviction, so a flush in flight can
  take a recreated record off the queue unwritten and uncounted
  (`storage_runtime_v48.py:394`; `V4_8_0.md:28` says drops are counted). When the wall
  clock steps back, the newer-state check of `_cache_state`, meant for background
  reads, discards live updates too.
* `AlertProfiles`: re-activating the active profile has nothing to roll back to, and a
  torn copy is not repaired while an older configuration is in use
  (`alert_profiles.py:258`, `storage_runtime_v48.py:197`). The loader's repair writes
  the profile it read before, over one saved or activated meanwhile; the migration and
  a first menu may both insert a profile; a commit that failed but took effect is
  rolled back in the copy only. The copy precedes the commit, so a stop between them
  leaves a coherent copy of something never committed. A refresh in flight resets the
  flag that a setup raised.
* `ProviderRotation`: with one feed down for good the other two alternate and the
  source guard never sees three observations of one in a row: the aircraft is not heard
  from them, against `runtime_recovery_hotfix.py:47`.
* `SharedPolling`: a postponed visit counts as an evaluation, so a region without
  priority may never be polled when its evaluation period is a multiple of three cycles.
* `AircraftFilter`, `SkyPartition`: the partition takes the radius of the profile
  (`scale_v53.py:86`), not the wider one of a rule that `profile_filter_guard_v43.py:50-53`
  says must be covered: an aircraft that only a rule's radius reaches is polled for and
  never handed out. In the run `Decisions` there is such an aircraft; `EvaluatedByBase`
  says what holds instead, that a user is evaluated for exactly those of the aircraft the
  menus ask for that are within the radius of the profile and the margin. An airline mode set on a narrower scope without a list inherits
  the list of the wider; limits are compared within one rule only.
* `EvidenceSpool`: a bundle that holds one refused object is refused as a whole, for
  ever (`prediction_lab_sync_bridge_v5610.py:169`).
* `LegacyRetirement`: a notification imported late replaces a newer document on the
  volume; the third task drops the collection of the first, which may still be copying.
* `Dialogues`: `/cancel` (`handlers.py:243`) clears the database only, and the menus go
  on with their cached conversation for five minutes (`interaction_v46.py:218`). The older
  setup's Done and location handlers write the copy only. A failed write after a new
  profile was made leaves the draft, so that a second press makes another
  (`profile_handlers.py:632-634`, `preset_session_v542.py:101-111`), and one after an edit
  leaves a draft that a later save puts over newer changes: `DraftsAreSafe` counts the
  first and excludes the second by `failed`.
* `KeyPool`: with two boxes, two 429 answers to requests of one credential set the next
  one aside as well (`Boxes` is one box in the run for this reason). Only the heartbeat
  resets the credentials of a new day.
* `ProviderLearning`: an observation under way writes the old target over that of a
  dislike; a dislike during the first learning lowers the target.
* `PassScoring`, `AiCascade`: snapshots of an earlier approach are scored again within
  half an hour; a 429 of the last key cools the model as well.
* `Telemetry`: a timeout between the two writes leaves the first delivery unmarked; a
  write that lands late leaves the fields of an older event.
* `ForecastLedger`: the state file is written with sorted keys, so that its trim drops
  the smallest ids and not the oldest: a case may be scored twice once more than
  `STATE_MAX_RESOLVED` are resolved, against the docstring (`next60_outcomes_v55.py:167`).
  A crash between an outcome and the checkpoint scores its case a second time. An
  expectation does not say where the observer was.
* `Lifespan`: with Telegram unreachable at startup the webhook answers 200 for updates
  nobody handles, then 503; updates in memory are lost with the process.
* `VercelRuntime`: an application whose shutdown raises is let go of, and lives on unless
  its state allows otherwise; `OneApplication` does not count it. The commit on `sys.path` need not be the one that is imported
  (`plane_runtime_support.py:131` against `:70`); a bootstrap during the first cycle
  of a monitor can leave a generation without a monitor or with two.
* `Installation`: with the local database the doctor of the update script is the MongoDB
  one, so every update is rolled back; the rollback copies the database under a service
  that may have it open, and its write-ahead log belongs to another state.

Statements that looked true in a small instance and are not, found when their proofs
failed or in a larger instance; the properties say so in their conditions:

* `AlertLifecycle`: after a restart the record is an older one, so the evidence for a
  first message or a cancellation may in part be counted twice: `FirstMessageConfirmed`
  and `CancelConfirmed` speak of one life of the process. A cancelled message can come
  back when an edit failed after the record was already made active again.
* `AlertProfiles`: an operation that meets the migration can leave the monitor with the
  location of one and the preferences of another configuration, as the migration reads
  the two documents one after the other (`alert_profiles.py:115`) and the bot may write a
  second profile's in between; `NeverMixed` ends where the two have met (`met`). After two incidents,
  or a restart in the middle of the copy, the copy is not the active profile between
  operations; a torn one is what the loader repairs.

## 5. Proofs

Each theorem is for every value of the constants that meets the named assumptions of
its module. `TypeCorrect` of a component is its type invariant with what the operators
of the module need. None of the safety properties below is inductive as it stands; what
is told of each is the strengthening.

### Storage: `StorageRuntimeProofs`

* `PersistedForward` (`PersistedNeverOlder`): without late writes no step replaces a
  stored record by an older one, even if the clock steps back. The unfiltered writes
  only ever meet a key without a record (`UnfilteredMeetsNothing`).
* `CleanDurable` (`CleanIsDurable`): with room for every record (`Roomy`), no late writes
  and a monotonic clock, a cached record that is not queued is the stored one unless it
  expired. A write that completes cleans the key, so one must know that what it wrote is
  what memory holds if the version is unchanged (`FlushCoherent`), that the queue names
  cached records at their version, and what a starting process has read
  (`WarmCoherent`). Their conjunction is `DurableInv`.
* `DecisionsRemembered`, `StoreImplemented` (`DecisionRemembered`, `StoreSpec`): under the
  same hypotheses the process never goes on from an older record than its last
  decision, and each key follows `EncounterStore`. `OrderInv` orders the copies of a
  record: monitor, memory, request in flight, database, what a start has read; every
  step of the runtime is then a step of the store or a stutter.
* `LimitsHold` (`LimitsSound`): with late writes, evictions and clock steps the limits
  hold, memory never becomes older, and a status document leaves its queue as it was
  written last (`LimitInv`).

The hypotheses exclude the finding `StorageLateWrite` and the evictions and clock steps
of section 4, where the statements are false.

### Alerts: `AlertLifecycleProofs`

`Sound` types every variable and ties the answer of a send to the record it is of. Each
theorem has an invariant that connects a counter of the record with the history the
property speaks of:

* `PassObserved`: `NeverInside`: if no sample was inside the radius, no record, saved or
  in memory, has an observed minimum within it.
* `ThreeSamples`: `StrikesCounted`: the strikes of a record are at most the different
  samples noted before its last observation, and a record with strikes has a message.
* `FirstConfirmed`: `RunRecorded`: a count of confirmations has the run of observations
  behind it that the code asks for, also while the message is on its way.
* `OneFirstMessage`: `OneMessage`: a visible message of the present identity is either
  older than the life of a record or the one that the record knows.
* `CancellationStays`: `StaysCancelled`: what shows a cancellation has a record that is
  closed, unless an edit failed.

### Configuration: `AlertProfilesProofs`

* `StaysWatched` (`KeepsMonitoring`): the loader repairs a copy only of a user it has no
  image of (`RepairInv`), so a repair that fails has nobody to drop.
* `MixedOnlyIfMet` (`NeverMixed`): of every behaviour, until the bot and the migration
  have been at work at the same time (`MetInv`; without this the statement is false): two documents with one revision have one content wherever they
  are, in the database, in a task or in the loader (`WholeInv`).
* `SetupReady` (`SetupIsReady`): as long as only one task is at work (`ApartInv`), what a
  setup has written at each of its steps (`ReadyInv`).
* `CopyActive` (`CopyIsActive`), with one incident at most and no restart: what the copy
  is at each step of each operation and of its rollback (`CopyInv`).

### The feeds: `FeedsProofs`

* `KeysAreHonest` (`KeyIsOnItsWay`) needs that a sample has one writer (`OneWriter`)
  and that a dead worker holds none (`DeadIsIdle`).
* `HeldBriefly` (`HoldBounded`): the bound is reached by the last candidate in a full
  queue of lookups, so `HeldShortly` counts for each waiting flight the lookups ahead of
  it, which the slots work off in rounds, and knows for how many cycles an answer is
  kept that ends a hold.
* `SkyAsPromised` (`ViewHonest`, `SkyNotBlanked`): `SkyKnown` ties the age of each
  snapshot to when the aircraft was last seen in its region; a blank one is old enough
  to be blank.
* `InTimeForEach` (`EvaluatedInTime`): in the middle of a cycle a user may have waited
  longer the later the region comes; `EachInTime` bounds the wait by the ticks spent and,
  for a region still to be visited, by the longest cycle. A region takes a tick at most,
  and there are no more regions than homes.
* `SwitchesConfirmed` (`SwitchConfirmed`): what the source guard has counted for a new
  source is what the aircraft showed in a row (`InARow`).

### The stores: `StoresProofs`

`DatabaseImplementsStore`: the SQLite store is a `DocumentStore`; the COMMIT is the step
that takes effect, a find its own, every other one stutters or refuses. The invariant
`Transactional` says that an open transaction has exactly one owner, whatever was
cancelled, since a cancelled thread keeps it; that before its first write the connection
shows what is committed less what expired; and that afterwards it shows a part of one
whole write of one call, of which the rest is what the thread still has to do. What
makes it work is that BEGIN fails within a transaction without rolling it back.
`DatabaseIsSound`: no transaction without a running owner, unique indexes.

`EvidenceNotLost` (`EvidenceKept`): an event is in a file or was pushed because what a
compaction removes is in a bundle by then, and what an acknowledgement removes is in the
repository (`KeptSomewhere`). `MoveLosesNothing` (`MarkersHonest`, `SamplesKept`): a task
that marks has its collection gone, and a day without a time has no samples that the
copy of the old one could replace (`Moved`).

### The decisions: `DecisionsProofs`, `VercelRuntimeProofs`

* `NoDraftMisused` (`DraftsAreSafe`) needs of the stored and of the cached conversation
  that its draft in hand is current as long as it may be saved (`Safe`): a press that
  ends a draft ends it in both. Between the writes of a save the draft is still there, so
  `Safe` excepts the handlers that are not over (`Dues`) and counts the interrupted ones
  (`Counted`).
* `SelectedAsSet` (`MatchesAsSet`, `PolledWideEnough`, `EvaluatedByBase`, `MenuIsHonest`) is mostly about the
  operators: that the setting of the merged rule is the most specific one
  (`SettingInForce`), and that the widest radius covers that of every rule. The
  invariant `Sound` adds that a snapshot reaches as far as its key says. `OneTypeToggled`
  (`TogglesOne`) is the case analysis of one press.
* `NearestHandedOut` (`ExactElsewhere`, `NearestAreKept`): the grid finds every user an
  aircraft is near, except across the line going west (`GridFindsThem`, from the order of
  cells and the shorter way round the ring), and what a user keeps is near, within the
  cap, and everything if below it (`Handed`).
* `EtaWasObserved` (`EtaIsObserved`): `Scored` says of the pass being tracked, of each job
  under way and of each row that the closest moment it names was seen by the reports up
  to its end, at its distance up to the tolerance, and not approached again; a report later
  than its end does not change that.
* `FailsForAReason` (`FailsOnlyWhenNoneCould`): a question that is still asking will come
  to every pair that could answer it all the time (`Reachable`): at its present model
  among the keys it has left, at a later one among all.
* `OneApplicationAlive` (`OneApplication`) needs that the one update that connects holds
  the lock, that an application which is there while it connects runs its commit, and
  that whichever was built and is not the present one is closed or torn (`Handover`). Without
  the lock the step does not go through.

### Around the alerts: `UpkeepProofs`

* `ProvenMissIsMiss`: where the code's rule for a miss holds (points on both sides of the
  window, and no room between two neighbours to come near and go away again), the flight
  was nowhere within the radius during the window. A flight may change its distance by
  at most `Speed` a step, which gives a lemma about what lies between two points.
* `LedgerIsHonest` (`LedgerHonest`): each outcome is true and no case is checkpointed
  without it. It needs, beyond types, that what a pass has done has its outcome already,
  that the points a pass judges by are points of the flight, and that where the observer
  was "here" when the pass began a judged window is over.
* `EachIsScoredOnce` (`ScoredOnce`): what has an outcome is resolved or done by the pass
  under way (`OnceInv`). It is true only if the state file has room for every case
  (`Enough`; section 4 tells what happens else) and of runs in which no pass was cut short.
* `ServerClosesInOrder` (`ServerInOrder`): who may still work at each stage of the shutdown
  (`InOrder`); an accepted update is in one place, the queue, the hands of the
  application or the past.
* `UpdaterEndsAtRest` (`AtRest`): at each command of an update the backup holds what was
  approved last, and each command of the rollback has restored its part (`Undoable`),
  whatever the installer, the service and the database did between two commands.
* `AsideForCause` (`SetAsideForCause`): what is under way is done with the current
  credential, so that what sets it aside is an answer to its own request (`ForCause`).
  This is so with one box (`OneBox`); with two the property is false (section 4).
* `HistoryIsHonest` (`HistoryHonest`): whatever may still be written of a delivery, in a
  worker or late in a thread, is grounded in the events written before it (`Honest`); these
  only grow, although the record keeps only the last of them.
* `LearnedStays` (`NothingUnlearned`): one observation of a place is queued or under way at
  a time, so the counts it read are those it adds to (`Alone`). What a dislike changes
  meanwhile is the target, as section 4 says.

The assumptions of modules that are instantiated are hypotheses of these theorems
(`ObserverAssumption`, `RouteAssumption`, `PollingAssumption`, `RotationAssumption`,
`StoreAssumption`, `DialogueAssumption`, `FilterAssumption`, `PartitionAssumption`,
`ScoringAssumption`, `CascadeAssumption`, `RequestsDeploy`, `KeyAssumption`,
`LearningAssumption`); the modules that instantiate them assume them of their values,
where TLC evaluates them. None of them bounds how often something happens: bounds like
the number of faults are parameters of the actions.

**Only model-checked.** All liveness (`FeedsRecover`, `StoresDrain`, `UpkeepEnds`,
`MonitorFollowsWhole` and that queued records leave the queue), which is out of the
prover's reach; the type invariants of the instances that hold several components, in
which each proof has the types it needs instead; and the statement of a run about
several components at once, whose parts are the theorems. Nothing is proved of what a
finding of section 4 refutes.

## 6. Not modelled, and the plan

Not modelled and why: see `components` in `PROJECT.json`. In short: geometry and
statistics over real numbers (predictors, terminals, runways, the envelope in latitude),
texts and keyboards, the parsing of answers of HTTP services, reports and forms, tables
of types and operators, the offline scripts, and the optional-document queue of the
storage runtime, into which nothing is put. No run has several processes on one database.

Plan for the next steps, in order of importance:

1. `AlertLifecycle` composed with `StorageRuntime` (the record of the one in the store
   of the other) for crashes between a decision and its write.
2. The fields changed in the copy alone, as a second content in `AlertProfiles`; the
   identity of a position report, for repeated reports with a rounded clock.
3. The sampling of the sentinel regions, backups and the rotation of the volume.
