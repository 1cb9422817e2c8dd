--------------------------- MODULE StorageRuntime ---------------------------
(***************************************************************************)
(* The in-process storage runtime of app/storage_runtime_v48.py: lifecycle *)
(* records of aircraft encounters are read from and written to memory by   *)
(* the five-second monitor, and a background flush loop persists them.     *)
(*                                                                         *)
(* A key is a (user, aircraft) pair. A record is abstracted to what decides *)
(* which of two records survives: its `updated_at` (at), its `expires_at`  *)
(* (exp) and its `active` flag; seq is a history field that tells apart the *)
(* lifecycle decisions, in the order the monitor took them.                *)
(*                                                                         *)
(* One asyncio thread runs everything in the process, so code between two  *)
(* awaits is one step. A database call is split where it matters: the      *)
(* request is sent (pc), and it takes effect in the step that handles its  *)
(* answer, or in FlushFail when the 1.25 s wait gives up first, or later   *)
(* still (late), because cancelling the awaiting task does not stop the    *)
(* driver's thread. Steps of the monitor between the effect and the answer *)
(* touch neither the database nor the job, so the two are one step here.   *)
(*                                                                         *)
(* The least recently used order of the OrderedDicts is abstracted to a    *)
(* free choice among the entries of the preferred class.                   *)
(***************************************************************************)
EXTENDS Naturals, FiniteSets

CONSTANTS
    Keys,           \* (user_id, aircraft_icao24) pairs
    NoDoc,          \* no record
    NoJob,          \* the flush loop has no request in flight
    StatusIds,      \* ids of system_status documents
    CacheMax,       \* _APPROACH_CACHE_MAX
    DirtyMax,       \* _APPROACH_DIRTY_MAX
    FlushBatch,     \* records a flush takes from the dirty queue (16)
    Ttl,            \* lifetime a qualifying write gives a record (2 h)
    LateWrites,     \* can a write that timed out reach the database later?
    ClockStepsBack, \* can the wall clock be set back?
    MaxSeq,         \* bound: lifecycle decisions
    MaxClock,       \* bound: wall clock
    MaxFailures,    \* bound: failed flushes
    MaxStops,       \* bound: process stops
    MaxStatus       \* bound: status updates per id

Doc == [seq : Nat, at : Nat, exp : Nat, active : BOOLEAN]
WriteOps == {"guarded", "upsert", "replace"}
Request == [op : WriteOps, key : Keys, doc : Doc]

ASSUME NoDocAssumption == NoDoc \notin Doc
ASSUME NoJobAssumption == NoJob \notin [key : Keys, ver : Nat, doc : Doc]
ASSUME KeysAssumption == IsFiniteSet(Keys)
ASSUME BoundsAssumption ==
    /\ CacheMax \in Nat \ {0}
    /\ DirtyMax \in Nat
    /\ FlushBatch \in Nat \ {0}
    /\ Ttl \in Nat
    /\ LateWrites \in BOOLEAN
    /\ ClockStepsBack \in BOOLEAN
    /\ {MaxSeq, MaxClock, MaxFailures, MaxStops, MaxStatus} \subseteq Nat

VARIABLES
    runtime,       \* "cold", "warming" or "live"
    approach,      \* _approach: the cached record of each key
    version,       \* _approach_versions (0: no entry)
    dirty,         \* _dirty: the version waiting to be persisted (0: clean)
    cycle,         \* the monitor's per-cycle copy of the records
    statusPending, \* _status_pending: the version waiting (0: none)
    statusVersion, \* _status_versions
    pc,            \* where flush_once is
    batch,         \* the <<key, version>> pairs flush_once still has to take
    statusBatch,   \* the <<id, version>> pairs flush_once still has to write
    job,           \* the record being persisted, with the version it was taken at
    backoff,       \* _next_flush_attempt_mono lies in the future
    db,            \* the approach_states collection
    late,          \* requests that timed out and may still take effect
    rows,          \* what warm has read
    now,           \* the wall clock
    seq, drops, failures, stops \* history: decisions, record_drop calls, ...

memory == <<approach, version, dirty, cycle>>
status == <<statusPending, statusVersion>>
flush  == <<pc, batch, statusBatch, job, backoff>>
vars   == <<runtime, memory, status, flush, db, late, rows, now,
            seq, drops, failures, stops>>

TypeOK ==
    /\ runtime \in {"cold", "warming", "live"}
    /\ approach \in [Keys -> Doc \cup {NoDoc}]
    /\ version \in [Keys -> Nat]
    /\ dirty \in [Keys -> Nat]
    /\ cycle \in [Keys -> Doc \cup {NoDoc}]
    /\ statusPending \in [StatusIds -> Nat]
    /\ statusVersion \in [StatusIds -> Nat]
    /\ pc \in {"idle", "next", "find", "status"} \cup WriteOps
    /\ batch \in SUBSET (Keys \X Nat)
    /\ statusBatch \in SUBSET (StatusIds \X Nat)
    /\ job \in [key : Keys, ver : Nat, doc : Doc] \cup {NoJob}
    /\ pc \in WriteOps \cup {"find"} <=> job # NoJob
    /\ backoff \in BOOLEAN
    /\ db \in [Keys -> Doc \cup {NoDoc}]
    /\ late \in SUBSET Request
    /\ rows \in [Keys -> Doc \cup {NoDoc}]
    /\ {now, seq, drops, failures, stops} \subseteq Nat

Nothing == [k \in Keys |-> NoDoc]
Zeros   == [k \in Keys |-> 0]

Init ==
    /\ runtime = "cold"
    /\ approach = Nothing /\ version = Zeros /\ dirty = Zeros
    /\ cycle = Nothing
    /\ statusPending = [i \in StatusIds |-> 0]
    /\ statusVersion = [i \in StatusIds |-> 0]
    /\ pc = "idle" /\ batch = {} /\ statusBatch = {} /\ job = NoJob
    /\ backoff = FALSE
    /\ db = Nothing /\ late = {} /\ rows = Nothing
    /\ now = 0 /\ seq = 0 /\ drops = 0 /\ failures = 0 /\ stops = 0

-----------------------------------------------------------------------------
(* The cache and its limits: _cache_state and _prune_states.               *)

Cached(app) == {k \in Keys : app[k] # NoDoc}
Queued(dty) == {k \in Keys : dty[k] > 0}
Inactive(app) == {k \in Cached(app) : ~app[k].active}

\* Records _prune_states lets go because they are over, expired and persisted.
Expired(app, dty) ==
    {k \in Inactive(app) : app[k].exp <= now /\ dty[k] = 0}

\* The classes over the limit, best first: the entry added last goes only
\* when it is alone in its class.
Victims(app, dty, new) ==
    LET clean == {k \in Inactive(app) : dty[k] = 0}
        class == IF clean # {} THEN clean
                 ELSE IF Inactive(app) # {} THEN Inactive(app)
                 ELSE Cached(app)
    IN  IF class = {new} THEN class ELSE class \ {new}

\* Mutant: the limit is compared with the size before the insertion.
OverflowOffByOne(app, dty, new) ==
    IF Cardinality(Cached(app)) <= CacheMax + 1
    THEN {{}}
    ELSE {{k} : k \in Victims(app, dty, new)}

Overflow(app, dty, new) ==
    IF Cardinality(Cached(app)) <= CacheMax
    THEN {{}}
    ELSE {{k} : k \in Victims(app, dty, new)}

\* Over the queue limit one key leaves the queue, inactive records first.
Trimmed(app, dty) ==
    IF Cardinality(Queued(dty)) <= DirtyMax
    THEN {{}}
    ELSE LET idle == {k \in Queued(dty) : app[k] = NoDoc \/ ~app[k].active}
         IN  {{k} : k \in IF idle # {} THEN idle ELSE Queued(dty)}

Without(f, S, none) == [k \in Keys |-> IF k \in S THEN none ELSE f[k]]

\* _prune_states on a cache app whose newest entry is new. An eviction is
\* counted unless the record was inactive and persisted.
Prune(app, ver, dty, new) ==
    LET gone == Expired(app, dty)
        kept == Without(app, gone, NoDoc)
    IN  \E evicted \in Overflow(kept, dty, new) :
            LET rest  == Without(kept, evicted, NoDoc)
                queue == Without(dty, evicted, 0)
            IN  \E trimmed \in Trimmed(rest, queue) :
                    /\ approach' = rest
                    /\ version' = Without(ver, gone \cup evicted, 0)
                    /\ dirty' = Without(queue, trimmed, 0)
                    /\ drops' = drops + Cardinality(trimmed)
                         + Cardinality({k \in evicted :
                                            app[k].active \/ dty[k] > 0})

Newer(left, right) == left.at > right.at

\* Mutants: whatever was read or decided replaces the cached record; a record
\* stamped within the same clock tick does not.
SupersedesAlways(k, doc) == TRUE
SupersedesStrictly(k, doc) == approach[k] = NoDoc \/ Newer(doc, approach[k])

\* A record yields only to one that is not older.
Supersedes(k, doc) == approach[k] = NoDoc \/ ~Newer(approach[k], doc)

-----------------------------------------------------------------------------
(* The monitor's side.                                                     *)

\* approach_states: the monitor copies the records at the start of a cycle.
Prefetch ==
    /\ runtime = "live"
    /\ LET gone == Expired(approach, dirty)
       IN  /\ approach' = Without(approach, gone, NoDoc)
           /\ version' = Without(version, gone, 0)
           /\ cycle' = approach'
    /\ UNCHANGED <<runtime, dirty, status, flush, db, late, rows, now,
                   seq, drops, failures, stops>>

\* What a lifecycle decision does to a record: a qualifying cycle activates
\* it and renews its lifetime, a held alert keeps both, an ended or reset one
\* becomes inactive. Only a qualifying cycle may create a record.
Decided(kind, existing) ==
    [seq    |-> seq + 1,
     at     |-> now,
     exp    |-> IF kind = "qualify" THEN now + Ttl ELSE existing.exp,
     active |-> CASE kind = "qualify" -> TRUE
                  [] kind = "hold"    -> existing.active
                  [] kind = "end"     -> FALSE]

\* apply_approach_update: memory first; the queue gets the new version.
ApplyUpdate(k, kind) ==
    LET existing == IF approach[k] # NoDoc THEN approach[k] ELSE cycle[k]
        doc      == Decided(kind, existing)
        v        == version[k] + 1
    IN  /\ runtime = "live" /\ seq < MaxSeq
        /\ existing # NoDoc \/ kind = "qualify"
        /\ kind = "hold" => existing.active
        /\ seq' = seq + 1
        /\ cycle' = [cycle EXCEPT ![k] = doc]
        /\ IF Supersedes(k, doc)
           THEN Prune([approach EXCEPT ![k] = doc], [version EXCEPT ![k] = v],
                      [dirty EXCEPT ![k] = v], k)
           ELSE UNCHANGED <<approach, version, dirty, drops>>
        /\ UNCHANGED <<runtime, status, flush, db, late, rows, now,
                       failures, stops>>

\* enqueue_status_update: heartbeat and metrics of a cycle merge by id.
EnqueueStatus(i) ==
    /\ runtime = "live" /\ statusVersion[i] < MaxStatus
    /\ statusVersion' = [statusVersion EXCEPT ![i] = @ + 1]
    /\ statusPending' = [statusPending EXCEPT ![i] = statusVersion'[i]]
    /\ UNCHANGED <<runtime, memory, flush, db, late, rows, now,
                   seq, drops, failures, stops>>

-----------------------------------------------------------------------------
(* The flush loop: flush_once, _persist_state and _persist_status.         *)

SmallSubsets(S, n) ==
    {T \in SUBSET S : Cardinality(T) = n \/ (Cardinality(S) < n /\ T = S)}

DirtyItems == {<<k, dirty[k]>> : k \in Queued(dirty)}
StatusItems == {<<i, statusPending[i]>> :
                    i \in {j \in StatusIds : statusPending[j] > 0}}

\* Mutant: a flush starts for status documents only.
FlushStartStatusOnly ==
    /\ runtime = "live" /\ pc = "idle" /\ ~backoff
    /\ StatusItems # {}
    /\ batch' \in SmallSubsets(DirtyItems, FlushBatch)
    /\ pc' = "next"
    /\ UNCHANGED <<runtime, memory, status, statusBatch, job, backoff, db,
                   late, rows, now, seq, drops, failures, stops>>

FlushStart ==
    /\ runtime = "live" /\ pc = "idle" /\ ~backoff
    /\ DirtyItems # {} \/ StatusItems # {}
    /\ batch' \in SmallSubsets(DirtyItems, FlushBatch)
    /\ pc' = "next"
    /\ UNCHANGED <<runtime, memory, status, statusBatch, job, backoff, db,
                   late, rows, now, seq, drops, failures, stops>>

\* The next pair of the batch; the record is read now, not when the batch was.
FlushTake ==
    /\ pc = "next"
    /\ \E item \in batch :
        LET k == item[1]
        IN  /\ batch' = batch \ {item}
            /\ IF approach[k] = NoDoc
               THEN /\ dirty' = [dirty EXCEPT ![k] = 0]
                    /\ UNCHANGED <<pc, job>>
               ELSE /\ pc' = "guarded"
                    /\ job' = [key |-> k, ver |-> item[2], doc |-> approach[k]]
                    /\ UNCHANGED dirty
    /\ UNCHANGED <<runtime, approach, version, cycle, status, statusBatch,
                   backoff, db, late, rows, now, seq, drops, failures, stops>>

\* Mutant: the first write is not filtered by updated_at.
EffectUnfiltered(op, k, doc) ==
    IF op = "upsert" \/ db[k] # NoDoc THEN [db EXCEPT ![k] = doc] ELSE db

\* What each write of _persist_state does to the collection.
Effect(op, k, doc) ==
    IF \/ op = "upsert"
       \/ op = "replace" /\ db[k] # NoDoc
       \/ op = "guarded" /\ db[k] # NoDoc /\ ~Newer(db[k], doc)
    THEN [db EXCEPT ![k] = doc]
    ELSE db

\* Mutants: the key is clean whatever happened to it meanwhile; the finished job
\* stays behind.
PersistedBlindly ==
    /\ dirty' = [dirty EXCEPT ![job.key] = 0]
    /\ pc' = "next" /\ job' = NoJob
    /\ UNCHANGED <<approach, version, cycle, drops>>

PersistedJobKept ==
    /\ dirty' = [dirty EXCEPT ![job.key] =
                    IF version[job.key] = job.ver THEN 0 ELSE @]
    /\ pc' = "next" /\ job' = job
    /\ UNCHANGED <<approach, version, cycle, drops>>

\* A write succeeded: the key is clean unless it changed meanwhile.
Persisted ==
    /\ dirty' = [dirty EXCEPT ![job.key] =
                    IF version[job.key] = job.ver THEN 0 ELSE @]
    /\ pc' = "next" /\ job' = NoJob
    /\ UNCHANGED <<approach, version, cycle, drops>>

\* replace_one with the newer-state filter, upsert=False.
FlushGuarded ==
    /\ pc = "guarded"
    /\ db' = Effect("guarded", job.key, job.doc)
    /\ IF db'[job.key] = job.doc
       THEN Persisted
       ELSE pc' = "find" /\ UNCHANGED <<memory, job, drops>>
    /\ UNCHANGED <<runtime, status, batch, statusBatch, backoff, late, rows,
                   now, seq, failures, stops>>

\* _cache_state of a record read back. Its key is cached already, so the prune
\* that follows finds the cache within its limits.
Adopt(k, doc) ==
    IF Supersedes(k, doc)
    THEN LET app  == [approach EXCEPT ![k] = doc]
             gone == Expired(app, dirty)
         IN  /\ approach' = Without(app, gone, NoDoc)
             /\ version' = Without(version, gone, 0)
    ELSE UNCHANGED <<approach, version>>

\* find_one after a miss: adopt a newer persisted record, else write again.
FlushFind ==
    LET k == job.key
        existing == db[k]
    IN  /\ pc = "find"
        /\ IF existing # NoDoc /\ Newer(existing, job.doc)
           THEN /\ pc' = "next" /\ job' = NoJob
                /\ IF version[k] # job.ver
                   THEN UNCHANGED <<approach, version, dirty, drops>>
                   ELSE /\ Adopt(k, existing)
                        /\ dirty' = [dirty EXCEPT ![k] = 0]
                        /\ UNCHANGED drops
           ELSE /\ pc' = IF existing = NoDoc THEN "upsert" ELSE "replace"
                /\ UNCHANGED <<job, approach, version, dirty, drops>>
        /\ UNCHANGED <<runtime, cycle, status, batch, statusBatch, backoff, db,
                       late, rows, now, seq, failures, stops>>

\* replace_one by identity alone, with or without upsert.
FlushUnguarded ==
    /\ pc \in {"upsert", "replace"}
    /\ db' = Effect(pc, job.key, job.doc)
    /\ Persisted
    /\ UNCHANGED <<runtime, status, batch, statusBatch, backoff, late, rows,
                   now, seq, failures, stops>>

\* Lifecycle records are done: take the pending status documents.
FlushStatusStart ==
    /\ pc = "next" /\ batch = {}
    /\ pc' = "status"
    /\ statusBatch' = StatusItems
    /\ UNCHANGED <<runtime, memory, status, batch, job, backoff, db, late,
                   rows, now, seq, drops, failures, stops>>

\* Mutant: the document leaves the queue whatever was merged into it meanwhile.
FlushStatusBlindly ==
    /\ pc = "status"
    /\ \E item \in statusBatch :
        /\ statusBatch' = statusBatch \ {item}
        /\ statusPending' = [statusPending EXCEPT ![item[1]] = 0]
    /\ UNCHANGED <<runtime, memory, statusVersion, pc, batch, job, backoff, db,
                   late, rows, now, seq, drops, failures, stops>>

FlushStatus ==
    /\ pc = "status"
    /\ \E item \in statusBatch :
        /\ statusBatch' = statusBatch \ {item}
        /\ statusPending' = [statusPending EXCEPT ![item[1]] =
                                IF @ = item[2] THEN 0 ELSE @]
    /\ UNCHANGED <<runtime, memory, statusVersion, pc, batch, job, backoff, db,
                   late, rows, now, seq, drops, failures, stops>>

FlushEnd ==
    /\ pc = "status" /\ statusBatch = {}
    /\ pc' = "idle"
    /\ UNCHANGED <<runtime, memory, status, batch, statusBatch, job, backoff,
                   db, late, rows, now, seq, drops, failures, stops>>

\* The fate of a request nobody waits for any more: it never took effect, it
\* took effect although the answer was lost, or it will take effect later.
Orphaned ==
    IF pc \notin WriteOps
    THEN UNCHANGED <<db, late>>
    ELSE \/ UNCHANGED <<db, late>>
         \/ db' = Effect(pc, job.key, job.doc) /\ UNCHANGED late
         \/ /\ LateWrites
            /\ late' = late \cup {[op |-> pc, key |-> job.key, doc |-> job.doc]}
            /\ UNCHANGED db

\* Any database call of the flush times out or fails: the flush gives up.
FlushFail ==
    /\ pc \in WriteOps \cup {"find"} \/ (pc = "status" /\ statusBatch # {})
    /\ failures < MaxFailures
    /\ failures' = failures + 1
    /\ backoff' = TRUE
    /\ pc' = "idle" /\ batch' = {} /\ statusBatch' = {} /\ job' = NoJob
    /\ Orphaned
    /\ UNCHANGED <<runtime, memory, status, rows, now, seq, drops, stops>>

BackoffElapses ==
    /\ backoff /\ backoff' = FALSE
    /\ UNCHANGED <<runtime, memory, status, pc, batch, statusBatch, job, db,
                   late, rows, now, seq, drops, failures, stops>>

-----------------------------------------------------------------------------
(* The database, the clock and the process.                                *)

\* The TTL index on expires_at; it does not look at `active`.
DbExpire(k) ==
    /\ db[k] # NoDoc /\ db[k].exp <= now
    /\ db' = [db EXCEPT ![k] = NoDoc]
    /\ UNCHANGED <<runtime, memory, status, flush, late, rows, now,
                   seq, drops, failures, stops>>

LateLands ==
    /\ \E r \in late :
        /\ db' = Effect(r.op, r.key, r.doc)
        /\ late' = late \ {r}
    /\ UNCHANGED <<runtime, memory, status, flush, rows, now,
                   seq, drops, failures, stops>>

Tick ==
    /\ now < MaxClock
    /\ now' = now + 1
    /\ UNCHANGED <<runtime, memory, status, flush, db, late, rows,
                   seq, drops, failures, stops>>

StepBack ==
    /\ ClockStepsBack /\ now > 0
    /\ now' = now - 1
    /\ UNCHANGED <<runtime, memory, status, flush, db, late, rows,
                   seq, drops, failures, stops>>

\* close, or the process dying: nothing is flushed on the way out.
Stop ==
    /\ runtime # "cold" /\ stops < MaxStops
    /\ runtime' = "cold" /\ stops' = stops + 1
    /\ approach' = Nothing /\ version' = Zeros /\ dirty' = Zeros
    /\ cycle' = Nothing
    /\ statusPending' = [i \in StatusIds |-> 0]
    /\ statusVersion' = [i \in StatusIds |-> 0]
    /\ pc' = "idle" /\ batch' = {} /\ statusBatch' = {} /\ job' = NoJob
    /\ backoff' = FALSE /\ rows' = Nothing
    /\ Orphaned
    /\ UNCHANGED <<now, seq, drops, failures>>

\* Mutant: only active records are restored, ended ones are forgotten.
RestorableActiveOnly == {k \in Keys : db[k] # NoDoc /\ db[k].active}

\* _load_restart_states: active or unexpired records, at most CacheMax.
Restorable == {k \in Keys : db[k] # NoDoc /\ (db[k].active \/ db[k].exp > now)}

WarmRead ==
    /\ runtime = "cold"
    /\ runtime' = "warming"
    /\ \E S \in SmallSubsets(Restorable, CacheMax) :
           rows' = [k \in Keys |-> IF k \in S THEN db[k] ELSE NoDoc]
    /\ UNCHANGED <<memory, status, flush, db, late, now,
                   seq, drops, failures, stops>>

\* warm publishes what it read; records that expired meanwhile are pruned.
WarmDone ==
    /\ runtime = "warming"
    /\ runtime' = "live"
    /\ approach' = Without(rows, Expired(rows, Zeros), NoDoc)
    /\ rows' = Nothing
    /\ UNCHANGED <<version, dirty, cycle, status, flush, db, late, now,
                   seq, drops, failures, stops>>

WarmFail ==
    /\ runtime = "warming"
    /\ runtime' = "cold" /\ rows' = Nothing
    /\ UNCHANGED <<memory, status, flush, db, late, now,
                   seq, drops, failures, stops>>

-----------------------------------------------------------------------------
Flush == \/ FlushStart \/ FlushTake \/ FlushGuarded \/ FlushFind
         \/ FlushUnguarded \/ FlushStatusStart \/ FlushStatus \/ FlushEnd

Next ==
    \/ Prefetch
    \/ \E k \in Keys, kind \in {"qualify", "hold", "end"} : ApplyUpdate(k, kind)
    \/ \E i \in StatusIds : EnqueueStatus(i)
    \/ Flush \/ FlushFail \/ BackoffElapses
    \/ \E k \in Keys : DbExpire(k)
    \/ LateLands \/ Tick \/ StepBack
    \/ Stop \/ WarmRead \/ WarmDone \/ WarmFail

Spec == Init /\ [][Next]_vars

\* The flush loop and its backoff timer keep running while the process does;
\* the database answers a call sooner or later, or the call fails.
FairSpec == Spec /\ WF_vars(Flush) /\ WF_vars(BackoffElapses)
-----------------------------------------------------------------------------
(* Properties.                                                             *)

\* The dirty queue only names cached records, at their current version, and
\* the cache and the queue keep within their limits whatever is evicted,
\* flushed, adopted or trimmed in between (_cache_state, _prune_states).
CacheCoherent ==
    /\ \A k \in Keys : dirty[k] > 0 => approach[k] # NoDoc /\ dirty[k] = version[k]
    /\ Cardinality(Cached(approach)) <= CacheMax
    /\ Cardinality(Queued(dirty)) <= DirtyMax

\* A record the runtime no longer intends to write is in the database as it
\* is in memory, unless its lifetime ended and the TTL index removed it.
CleanIsDurable ==
    runtime = "live" =>
        \A k \in Cached(approach) :
            dirty[k] = 0 => \/ db[k] = approach[k]
                            \/ db[k] = NoDoc /\ approach[k].exp <= now

\* There is room for a record of every key: nothing is evicted or trimmed.
Roomy == Cardinality(Keys) <= CacheMax /\ Cardinality(Keys) <= DirtyMax

InFlight == pc \in WriteOps \cup {"find"}

\* Without late writes the unfiltered write of _persist_state only ever meets
\* a key that has no record, so skipping the newer-state filter is harmless.
UnfilteredMeetsNothing ==
    /\ late = {}
    /\ pc = "find" => db[job.key] = NoDoc \/ Newer(db[job.key], job.doc)
    /\ pc = "upsert" => db[job.key] = NoDoc
    /\ pc # "replace"

\* What the flush works on is still queued, once, at that version or a later
\* one; if at that version, the record in flight is the one in memory.
FlushCoherent ==
    /\ \A item \in batch : 0 < item[2] /\ item[2] <= dirty[item[1]]
    /\ \A i, j \in batch : i[1] = j[1] => i = j
    /\ InFlight =>
        /\ 0 < job.ver /\ job.ver <= dirty[job.key]
        /\ \A item \in batch : item[1] # job.key
        /\ version[job.key] = job.ver => approach[job.key] = job.doc

\* Outside a live process nothing is queued or in flight, and what warm has
\* read is still what the database holds.
WarmCoherent ==
    runtime # "live" =>
        /\ ~InFlight /\ batch = {}
        /\ \A k \in Keys : dirty[k] = 0 /\ (runtime = "cold" => rows[k] = NoDoc)
        /\ \A k \in Cached(rows) :
               db[k] = rows[k] \/ (db[k] = NoDoc /\ rows[k].exp <= now)

\* The inductive invariant behind CleanIsDurable.
DurableInv ==
    /\ UnfilteredMeetsNothing
    /\ \A k \in Keys : dirty[k] > 0 => approach[k] # NoDoc /\ dirty[k] = version[k]
    /\ FlushCoherent
    /\ WarmCoherent
    /\ CleanIsDurable

\* The persisted record of a key never becomes an older one (V4_8_0.md:9).
PersistedNeverOlder ==
    [][\A k \in Keys : db[k] # NoDoc /\ db'[k] # NoDoc => ~Newer(db[k], db'[k])]_vars

\* While a record stays cached it is never replaced by an older one, neither
\* by a live update nor by one read back from the database (_cache_state).
MemoryNeverOlder ==
    [][runtime = "live" /\ runtime' = "live" =>
        \A k \in Keys : approach[k] # NoDoc /\ approach'[k] # NoDoc
                            => ~Newer(approach[k], approach'[k])]_vars

\* A lifecycle decision is in memory as soon as it is taken: no cached record
\* is behind the copy the monitor works with (apply_approach_update).
DecisionRemembered ==
    \A k \in Keys : approach[k] # NoDoc /\ cycle[k] # NoDoc
                        => approach[k].seq >= cycle[k].seq

\* A status document leaves its queue only at the version that was written: an
\* update enqueued while the write was in flight stays (_persist_status).
StatusUpdateKept ==
    [][\A i \in StatusIds :
        runtime = "live" /\ runtime' = "live" /\ statusPending'[i] # statusPending[i]
            => \/ statusPending'[i] = statusVersion'[i]
               \/ <<i, statusVersion[i]>> \in statusBatch]_vars

\* Whatever is evicted, fails or comes late and however the clock is set, the
\* cache and the queue keep their limits and stay coherent, nothing in memory
\* becomes an older one, and no update of a status document is lost.
LimitsSound == []CacheCoherent /\ MemoryNeverOlder /\ StatusUpdateKept

\* Every queued record is flushed, dropped or gone with its process, however
\* often a flush failed before (_flush_loop, backoff).
DirtyIsFlushed == \A k \in Keys : dirty[k] > 0 ~> dirty[k] = 0

\* What the runtime promises about each key: see EncounterStore.
Remembered(k) ==
    CASE runtime = "live"    -> approach[k]
      [] runtime = "warming" -> rows[k]
      [] runtime = "cold"    -> NoDoc

SeqOf(doc) == IF doc = NoDoc THEN 0 ELSE doc.seq
Over(doc)  == doc # NoDoc /\ doc.exp <= now

Store == INSTANCE EncounterStore WITH
    latest <- [k \in Keys |-> SeqOf(Remembered(k))],
    stored <- [k \in Keys |-> SeqOf(db[k])],
    safe   <- [k \in Keys |-> dirty[k] = 0],
    ended  <- [k \in Keys |->
                  {c \in {"latest", "stored"} :
                      Over(IF c = "latest" THEN Remembered(k) ELSE db[k])}]

\* The runtime implements EncounterStore (V4_8_0.md:7-11).
StoreSpec == Store!Spec
=============================================================================
