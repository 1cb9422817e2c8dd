------------------------ MODULE StorageRuntimeProofs ------------------------
(***************************************************************************)
(* Theorems about StorageRuntime for every set of keys, every limit and    *)
(* every bound; the last part shows that it implements EncounterStore if   *)
(* there is room for every record, no request lands after its wait gave up *)
(* and the clock is never set back.                                        *)
(***************************************************************************)
EXTENDS StorageRuntime, FiniteSetTheorems, TLAPS

-----------------------------------------------------------------------------
(* Type correctness.                                                       *)

\* An eviction or a trim concerns at most one key.
LEMMA OneVictim ==
    ASSUME NEW app, NEW dty, NEW new,
           NEW S \in Overflow(app, dty, new) \cup Trimmed(app, dty)
    PROVE  IsFiniteSet(S)
<1>1. S = {} \/ \E k : S = {k}
  BY DEF Overflow, Trimmed
<1>. QED  BY <1>1, FS_EmptySet, FS_Singleton

\* _prune_states keeps the types of the cache, the versions and the queue.
LEMMA PruneType ==
    ASSUME NEW app \in [Keys -> Doc \cup {NoDoc}], NEW ver \in [Keys -> Nat],
           NEW dty \in [Keys -> Nat], NEW new, drops \in Nat,
           Prune(app, ver, dty, new)
    PROVE  /\ approach' \in [Keys -> Doc \cup {NoDoc}]
           /\ version' \in [Keys -> Nat]
           /\ dirty' \in [Keys -> Nat]
           /\ drops' \in Nat
<1>. DEFINE gone == Expired(app, dty)
            kept == Without(app, gone, NoDoc)
<1>1. PICK evicted \in Overflow(kept, dty, new) :
        \E trimmed \in Trimmed(Without(kept, evicted, NoDoc), Without(dty, evicted, 0)) :
            /\ approach' = Without(kept, evicted, NoDoc)
            /\ version' = Without(ver, gone \cup evicted, 0)
            /\ dirty' = Without(Without(dty, evicted, 0), trimmed, 0)
            /\ drops' = drops + Cardinality(trimmed)
                 + Cardinality({k \in evicted : app[k].active \/ dty[k] > 0})
  BY DEF Prune
<1>2. PICK trimmed \in Trimmed(Without(kept, evicted, NoDoc), Without(dty, evicted, 0)) :
            /\ approach' = Without(kept, evicted, NoDoc)
            /\ version' = Without(ver, gone \cup evicted, 0)
            /\ dirty' = Without(Without(dty, evicted, 0), trimmed, 0)
            /\ drops' = drops + Cardinality(trimmed)
                 + Cardinality({k \in evicted : app[k].active \/ dty[k] > 0})
  BY <1>1
<1>3. approach' \in [Keys -> Doc \cup {NoDoc}] /\ version' \in [Keys -> Nat]
  BY <1>2 DEF Without
<1>4. dirty' \in [Keys -> Nat]
  BY <1>2 DEF Without
<1>5. IsFiniteSet(evicted) /\ IsFiniteSet(trimmed)
  BY OneVictim
<1>6. IsFiniteSet({k \in evicted : app[k].active \/ dty[k] > 0})
  BY <1>5, FS_Subset
<1>7. drops' \in Nat
  <2>1. Cardinality(trimmed) \in Nat
    BY <1>5, FS_CardinalityType
  <2>2. Cardinality({k \in evicted : app[k].active \/ dty[k] > 0}) \in Nat
    BY <1>6, FS_CardinalityType
  <2>. QED  BY <1>2, <2>1, <2>2
<1>. QED  BY <1>3, <1>4, <1>7

\* A lifecycle decision makes a record, whatever it starts from.
LEMMA DecidedType ==
    ASSUME TypeOK, NEW kind \in {"qualify", "hold", "end"},
           NEW existing \in Doc \cup {NoDoc}, kind # "qualify" => existing # NoDoc
    PROVE  Decided(kind, existing) \in Doc
<1>1. seq + 1 \in Nat /\ now \in Nat /\ now + Ttl \in Nat
  BY BoundsAssumption DEF TypeOK
<1>2. CASE kind = "qualify"
  BY <1>1, <1>2 DEF Decided, Doc
<1>3. CASE kind # "qualify"
  <2>1. existing.exp \in Nat /\ existing.active \in BOOLEAN
    BY <1>3 DEF Doc
  <2>2. CASE kind = "hold"
    BY <1>1, <2>1, <2>2 DEF Decided, Doc
  <2>3. CASE kind = "end"
    BY <1>1, <2>1, <2>3 DEF Decided, Doc
  <2>. QED  BY <1>3, <2>2, <2>3
<1>. QED  BY <1>2, <1>3

\* The collection keeps its type whatever write takes effect.
LEMMA EffectType ==
    ASSUME TypeOK, NEW op, NEW k \in Keys, NEW doc \in Doc
    PROVE  Effect(op, k, doc) \in [Keys -> Doc \cup {NoDoc}]
  BY DEF TypeOK, Effect

\* A request is in flight exactly when the flush waits for one.
LEMMA JobType ==
    ASSUME TypeOK, pc \in WriteOps \cup {"find"}
    PROVE  job.key \in Keys /\ job.ver \in Nat /\ job.doc \in Doc
  BY DEF TypeOK

\* An abandoned request leaves the collection and the late requests typed.
LEMMA OrphanedType ==
    ASSUME TypeOK, Orphaned
    PROVE  /\ db' \in [Keys -> Doc \cup {NoDoc}]
           /\ late' \in SUBSET Request
<1>1. CASE pc \notin WriteOps
  BY <1>1 DEF TypeOK, Orphaned
<1>2. CASE pc \in WriteOps
  <2>1. job.key \in Keys /\ job.doc \in Doc
    BY <1>2, JobType
  <2>2. Effect(pc, job.key, job.doc) \in [Keys -> Doc \cup {NoDoc}]
    BY <2>1, EffectType
  <2>3. [op |-> pc, key |-> job.key, doc |-> job.doc] \in Request
    BY <1>2, <2>1 DEF Request
  <2>. QED  BY <1>2, <2>2, <2>3 DEF TypeOK, Orphaned
<1>. QED  BY <1>1, <1>2

\* The initial state is well typed.
LEMMA InitType == Init => TypeOK
<1>. SUFFICES ASSUME Init  PROVE TypeOK
  OBVIOUS
<1>1. Nothing \in [Keys -> Doc \cup {NoDoc}] /\ Zeros \in [Keys -> Nat]
  BY DEF Nothing, Zeros
<1>2. pc \in WriteOps \cup {"find"} <=> job # NoJob
  BY DEF Init, WriteOps
<1>3. [i \in StatusIds |-> 0] \in [StatusIds -> Nat]
  OBVIOUS
<1>4. pc \in {"idle", "next", "find", "status"} \cup WriteOps /\ backoff \in BOOLEAN
  BY DEF Init
<1>5. {now, seq, drops, failures, stops} \subseteq Nat
  BY DEF Init
<1>6. batch \in SUBSET (Keys \X Nat) /\ statusBatch \in SUBSET (StatusIds \X Nat)
      /\ late \in SUBSET Request
  BY DEF Init
<1>. QED  BY <1>1, <1>2, <1>3, <1>4, <1>5, <1>6 DEF Init, TypeOK

\* Every step keeps the state well typed.
LEMMA StepType == TypeOK /\ [Next]_vars => TypeOK'
<1>. SUFFICES ASSUME TypeOK, [Next]_vars  PROVE TypeOK'
  OBVIOUS
<1>. USE NoDocAssumption, NoJobAssumption
<1>1. CASE Prefetch
  BY <1>1 DEF TypeOK, Prefetch, Without, status, flush
<1>2. ASSUME NEW k \in Keys, NEW kind \in {"qualify", "hold", "end"},
             ApplyUpdate(k, kind)
      PROVE  TypeOK'
  <2>. DEFINE existing == IF approach[k] # NoDoc THEN approach[k] ELSE cycle[k]
              doc == Decided(kind, existing)
              v   == version[k] + 1
  <2>1. existing \in Doc \cup {NoDoc} /\ (kind # "qualify" => existing # NoDoc)
    BY <1>2 DEF TypeOK, ApplyUpdate
  <2>2. doc \in Doc
    BY <2>1, DecidedType
  <2>3. /\ seq' = seq + 1
        /\ cycle' = [cycle EXCEPT ![k] = doc]
        /\ \/ Prune([approach EXCEPT ![k] = doc], [version EXCEPT ![k] = v],
                    [dirty EXCEPT ![k] = v], k)
           \/ UNCHANGED <<approach, version, dirty, drops>>
        /\ UNCHANGED <<runtime, status, flush, db, late, rows, now,
                       failures, stops>>
    BY <1>2 DEF ApplyUpdate
  <2>4. /\ approach' \in [Keys -> Doc \cup {NoDoc}]
        /\ version' \in [Keys -> Nat]
        /\ dirty' \in [Keys -> Nat]
        /\ drops' \in Nat
    <3>1. CASE UNCHANGED <<approach, version, dirty, drops>>
      BY <3>1 DEF TypeOK
    <3>2. CASE Prune([approach EXCEPT ![k] = doc], [version EXCEPT ![k] = v],
                     [dirty EXCEPT ![k] = v], k)
      <4>1. [approach EXCEPT ![k] = doc] \in [Keys -> Doc \cup {NoDoc}]
        BY <2>2 DEF TypeOK
      <4>2. [version EXCEPT ![k] = v] \in [Keys -> Nat]
        BY DEF TypeOK
      <4>3. [dirty EXCEPT ![k] = v] \in [Keys -> Nat] /\ drops \in Nat
        BY DEF TypeOK
      <4>. QED  BY <3>2, <4>1, <4>2, <4>3, PruneType
    <3>. QED  BY <2>3, <3>1, <3>2
  <2>5. cycle' \in [Keys -> Doc \cup {NoDoc}] /\ seq' \in Nat
    BY <2>2, <2>3 DEF TypeOK
  <2>. QED  BY <2>3, <2>4, <2>5 DEF TypeOK, status, flush
<1>3. ASSUME NEW i \in StatusIds, EnqueueStatus(i)  PROVE TypeOK'
  BY <1>3 DEF TypeOK, EnqueueStatus, memory, flush
<1>4. CASE FlushStart
  <2>1. batch' \in SUBSET (Keys \X Nat)
    BY <1>4 DEF TypeOK, FlushStart, SmallSubsets, DirtyItems, Queued
  <2>. QED  BY <1>4, <2>1 DEF TypeOK, FlushStart, memory, status, WriteOps
<1>5. CASE FlushTake
  <2>1. PICK item \in batch :
            /\ batch' = batch \ {item}
            /\ IF approach[item[1]] = NoDoc
               THEN /\ dirty' = [dirty EXCEPT ![item[1]] = 0]
                    /\ UNCHANGED <<pc, job>>
               ELSE /\ pc' = "guarded"
                    /\ job' = [key |-> item[1], ver |-> item[2],
                               doc |-> approach[item[1]]]
                    /\ UNCHANGED dirty
    BY <1>5 DEF FlushTake
  <2>2. item[1] \in Keys /\ item[2] \in Nat
    BY DEF TypeOK
  <2>3. CASE approach[item[1]] = NoDoc
    BY <1>5, <2>1, <2>2, <2>3 DEF TypeOK, FlushTake, status
  <2>4. CASE approach[item[1]] # NoDoc
    <3>1. job' \in [key : Keys, ver : Nat, doc : Doc]
      BY <2>1, <2>2, <2>4 DEF TypeOK
    <3>. QED  BY <1>5, <2>1, <2>2, <2>4, <3>1 DEF TypeOK, FlushTake, status, WriteOps
  <2>. QED  BY <2>3, <2>4
<1>6. CASE FlushGuarded
  <2>1. job.key \in Keys /\ job.ver \in Nat /\ job.doc \in Doc /\ job # NoJob
    BY <1>6, JobType DEF FlushGuarded, WriteOps, TypeOK
  <2>2. db' \in [Keys -> Doc \cup {NoDoc}]
    BY <1>6, <2>1, EffectType DEF FlushGuarded
  <2>. QED  BY <1>6, <2>1, <2>2
            DEF TypeOK, FlushGuarded, Persisted, memory, status, WriteOps
<1>7. CASE FlushFind
  <2>1. job.key \in Keys /\ job.ver \in Nat /\ job.doc \in Doc /\ job # NoJob
    BY <1>7, JobType DEF FlushFind, TypeOK
  <2>2. /\ approach' \in [Keys -> Doc \cup {NoDoc}]
        /\ version' \in [Keys -> Nat]
        /\ dirty' \in [Keys -> Nat]
        /\ drops' \in Nat
    BY <1>7, <2>1 DEF TypeOK, FlushFind, Adopt, Without
  <2>. QED  BY <1>7, <2>1, <2>2 DEF TypeOK, FlushFind, status, WriteOps
<1>8. CASE FlushUnguarded
  <2>1. job.key \in Keys /\ job.ver \in Nat /\ job.doc \in Doc /\ job # NoJob
    BY <1>8, JobType DEF FlushUnguarded, WriteOps, TypeOK
  <2>2. db' \in [Keys -> Doc \cup {NoDoc}]
    BY <1>8, <2>1, EffectType DEF FlushUnguarded
  <2>. QED  BY <1>8, <2>1, <2>2
            DEF TypeOK, FlushUnguarded, Persisted, status, WriteOps
<1>9. CASE FlushStatusStart
  <2>1. statusBatch' \in SUBSET (StatusIds \X Nat)
    BY <1>9 DEF TypeOK, FlushStatusStart, StatusItems
  <2>. QED  BY <1>9, <2>1 DEF TypeOK, FlushStatusStart, memory, status, WriteOps
<1>10. CASE FlushStatus
  BY <1>10 DEF TypeOK, FlushStatus, memory
<1>11. CASE FlushEnd
  BY <1>11 DEF TypeOK, FlushEnd, memory, status, WriteOps
<1>12. CASE FlushFail
  <2>1. db' \in [Keys -> Doc \cup {NoDoc}] /\ late' \in SUBSET Request
    BY <1>12, OrphanedType DEF FlushFail
  <2>. QED  BY <1>12, <2>1 DEF TypeOK, FlushFail, memory, status, WriteOps
<1>13. CASE BackoffElapses
  BY <1>13 DEF TypeOK, BackoffElapses, memory, status
<1>14. ASSUME NEW k \in Keys, DbExpire(k)  PROVE TypeOK'
  BY <1>14 DEF TypeOK, DbExpire, memory, status, flush
<1>15. CASE LateLands
  <2>1. PICK r \in late : db' = Effect(r.op, r.key, r.doc) /\ late' = late \ {r}
    BY <1>15 DEF LateLands
  <2>2. r.key \in Keys /\ r.doc \in Doc
    BY DEF TypeOK, Request
  <2>3. db' \in [Keys -> Doc \cup {NoDoc}]
    BY <2>1, <2>2, EffectType
  <2>. QED  BY <1>15, <2>1, <2>3 DEF TypeOK, LateLands, memory, status, flush
<1>16. CASE Tick \/ StepBack
  <2>1. now \in Nat
    BY DEF TypeOK
  <2>2. now' \in Nat
    <3>1. CASE Tick
      BY <2>1, <3>1 DEF Tick
    <3>2. CASE StepBack
      BY <2>1, <3>2 DEF StepBack
    <3>. QED  BY <1>16, <3>1, <3>2
  <2>. QED  BY <1>16, <2>2 DEF TypeOK, Tick, StepBack, memory, status, flush
<1>17. CASE Stop
  <2>1. db' \in [Keys -> Doc \cup {NoDoc}] /\ late' \in SUBSET Request
    BY <1>17, OrphanedType DEF Stop
  <2>2. Nothing \in [Keys -> Doc \cup {NoDoc}] /\ Zeros \in [Keys -> Nat]
        /\ [i \in StatusIds |-> 0] \in [StatusIds -> Nat]
    BY DEF Nothing, Zeros
  <2>3. pc' \in {"idle", "next", "find", "status"} \cup WriteOps
        /\ backoff' \in BOOLEAN /\ runtime' \in {"cold", "warming", "live"}
    BY <1>17 DEF Stop
  <2>4. (pc \in WriteOps \cup {"find"} <=> job # NoJob)'
    BY <1>17 DEF Stop, WriteOps
  <2>5. {now, seq, drops, failures, stops}' \subseteq Nat
    BY <1>17 DEF Stop, TypeOK
  <2>6. (batch \in SUBSET (Keys \X Nat) /\ statusBatch \in SUBSET (StatusIds \X Nat))'
    BY <1>17 DEF Stop
  <2>. QED  BY <1>17, <2>1, <2>2, <2>3, <2>4, <2>5, <2>6 DEF TypeOK, Stop
<1>18. CASE WarmRead
  <2>1. rows' \in [Keys -> Doc \cup {NoDoc}]
    BY <1>18 DEF TypeOK, WarmRead
  <2>. QED  BY <1>18, <2>1 DEF TypeOK, WarmRead, memory, status, flush
<1>19. CASE WarmDone
  BY <1>19 DEF TypeOK, WarmDone, Without, Nothing, status, flush
<1>20. CASE WarmFail
  BY <1>20 DEF TypeOK, WarmFail, Nothing, memory, status, flush
<1>21. CASE UNCHANGED vars
  BY <1>21 DEF TypeOK, vars, memory, status, flush
<1>. QED
  BY <1>1, <1>2, <1>3, <1>4, <1>5, <1>6, <1>7, <1>8, <1>9, <1>10, <1>11, <1>12,
     <1>13, <1>14, <1>15, <1>16, <1>17, <1>18, <1>19, <1>20, <1>21 DEF Next, Flush

\* Every reachable state is well typed: in particular a request is in flight
\* exactly when the flush waits for its answer (_persist_state).
THEOREM TypeCorrect == Spec => []TypeOK
  BY InitType, StepType, PTL DEF Spec

-----------------------------------------------------------------------------
(* The stored record of a key never becomes older.                         *)

\* A write that skips the filter finds no record: the reason why it cannot
\* overtake a newer one. LateWrites is the assumption that makes it true.
LEMMA UnfilteredStep ==
    ASSUME ~LateWrites, TypeOK, UnfilteredMeetsNothing, [Next]_vars
    PROVE  UnfilteredMeetsNothing'
<1>. USE DEF UnfilteredMeetsNothing
<1>1. CASE FlushGuarded
  <2>1. job.key \in Keys /\ job.doc \in Doc
    BY <1>1, JobType DEF FlushGuarded, WriteOps
  <2>2. CASE db'[job.key] = job.doc
    BY <1>1, <2>2 DEF FlushGuarded, Persisted
  <2>3. CASE db'[job.key] # job.doc
    <3>1. db[job.key] = NoDoc \/ Newer(db[job.key], job.doc)
      BY <1>1, <2>1, <2>3 DEF FlushGuarded, Effect, TypeOK
    <3>2. db' = db
      BY <1>1, <3>1 DEF FlushGuarded, Effect
    <3>. QED  BY <1>1, <2>3, <3>1, <3>2 DEF FlushGuarded, Newer
  <2>. QED  BY <2>2, <2>3
<1>2. CASE FlushFind
  BY <1>2 DEF FlushFind
<1>3. CASE FlushTake
  BY <1>3 DEF FlushTake
<1>4. CASE FlushUnguarded
  BY <1>4 DEF FlushUnguarded, Persisted
<1>5. CASE FlushFail \/ Stop
  BY <1>5 DEF FlushFail, Stop, Orphaned
<1>6. ASSUME NEW k \in Keys, DbExpire(k)  PROVE UnfilteredMeetsNothing'
  BY <1>6 DEF DbExpire, flush, TypeOK, Newer
<1>7. CASE LateLands
  BY <1>7 DEF LateLands
<1>8. CASE FlushStart \/ FlushStatusStart \/ FlushStatus \/ FlushEnd
  BY <1>8 DEF FlushStart, FlushStatusStart, FlushStatus, FlushEnd
<1>9. CASE Prefetch \/ BackoffElapses \/ Tick \/ StepBack \/ WarmRead
           \/ WarmDone \/ WarmFail \/ UNCHANGED vars
  BY <1>9 DEF Prefetch, BackoffElapses, Tick, StepBack, WarmRead, WarmDone,
             WarmFail, vars, flush, Newer
<1>10. ASSUME NEW k \in Keys, NEW kind \in {"qualify", "hold", "end"},
              ApplyUpdate(k, kind)
       PROVE  UnfilteredMeetsNothing'
  BY <1>10 DEF ApplyUpdate, flush, Newer
<1>11. ASSUME NEW i \in StatusIds, EnqueueStatus(i)
       PROVE  UnfilteredMeetsNothing'
  BY <1>11 DEF EnqueueStatus, flush, Newer
<1>. QED
  BY <1>1, <1>2, <1>3, <1>4, <1>5, <1>6, <1>7, <1>8, <1>9, <1>10, <1>11
     DEF Next, Flush

\* What a write that takes effect does to a stored record is never to age it.
LEMMA EffectNeverOlder ==
    ASSUME TypeOK, UnfilteredMeetsNothing, pc \in WriteOps,
           db' = Effect(pc, job.key, job.doc),
           NEW k \in Keys, db[k] # NoDoc, db'[k] # NoDoc
    PROVE  ~Newer(db[k], db'[k])
<1>1. job.key \in Keys /\ job.doc \in Doc
  BY JobType
<1>2. \/ db'[k] = db[k]
      \/ k = job.key /\ db'[k] = job.doc /\ ~Newer(db[k], job.doc)
  BY <1>1 DEF Effect, TypeOK, UnfilteredMeetsNothing, WriteOps
<1>3. db[k].at \in Nat
  BY DEF TypeOK, Doc
<1>. QED  BY <1>2, <1>3 DEF Newer

\* No step ages a stored record.
LEMMA NeverOlderStep ==
    ASSUME TypeOK, UnfilteredMeetsNothing, [Next]_vars,
           NEW k \in Keys, db[k] # NoDoc, db'[k] # NoDoc
    PROVE  ~Newer(db[k], db'[k])
<1>1. CASE db' = db
  <2>1. db[k].at \in Nat
    BY DEF TypeOK, Doc
  <2>. QED  BY <1>1, <2>1 DEF Newer
<1>2. CASE pc \in WriteOps /\ db' = Effect(pc, job.key, job.doc)
  BY <1>2, EffectNeverOlder
<1>3. ASSUME NEW x \in Keys, DbExpire(x)  PROVE ~Newer(db[k], db'[k])
  <2>1. x # k
    BY <1>3 DEF DbExpire, TypeOK
  <2>2. db'[k] = db[k] /\ db[k].at \in Nat
    BY <1>3, <2>1 DEF DbExpire, TypeOK, Doc
  <2>. QED  BY <2>2 DEF Newer
<1>4. \/ db' = db
      \/ pc \in WriteOps /\ db' = Effect(pc, job.key, job.doc)
      \/ \E x \in Keys : DbExpire(x)
  <2>1. FlushGuarded \/ FlushUnguarded \/ FlushFail \/ Stop
           => db' = db \/ (pc \in WriteOps /\ db' = Effect(pc, job.key, job.doc))
    BY DEF FlushGuarded, FlushUnguarded, FlushFail, Stop, Orphaned, WriteOps
  <2>2. ~LateLands
    BY DEF LateLands, UnfilteredMeetsNothing
  <2>3. Prefetch \/ FlushStart \/ FlushTake \/ FlushFind \/ FlushStatusStart
          \/ FlushStatus \/ FlushEnd \/ BackoffElapses \/ Tick \/ StepBack
          \/ WarmRead \/ WarmDone \/ WarmFail \/ UNCHANGED vars => db' = db
    BY DEF Prefetch, FlushStart, FlushTake, FlushFind, FlushStatusStart, FlushStatus,
           FlushEnd, BackoffElapses, Tick, StepBack, WarmRead, WarmDone, WarmFail, vars
  <2>4. (\E x \in Keys, kind \in {"qualify", "hold", "end"} : ApplyUpdate(x, kind))
          => db' = db
    BY DEF ApplyUpdate
  <2>5. (\E i \in StatusIds : EnqueueStatus(i)) => db' = db
    BY DEF EnqueueStatus
  <2>. QED  BY <2>1, <2>2, <2>3, <2>4, <2>5 DEF Next, Flush
<1>. QED  BY <1>1, <1>2, <1>3, <1>4

\* If the driver lets no write take effect after its wait gave up, the stored
\* record of a key never becomes older, however the clock is set, whatever
\* fails and however often the process stops (_persist_state).
THEOREM PersistedForward ==
    ASSUME ~LateWrites  PROVE  Spec => PersistedNeverOlder
<1>1. Init => UnfilteredMeetsNothing
  BY DEF Init, UnfilteredMeetsNothing
<1>2. TypeOK /\ UnfilteredMeetsNothing /\ [Next]_vars => UnfilteredMeetsNothing'
  BY UnfilteredStep
<1>3. TypeOK /\ UnfilteredMeetsNothing /\ [Next]_vars
        => [\A k \in Keys : db[k] # NoDoc /\ db'[k] # NoDoc
                               => ~Newer(db[k], db'[k])]_vars
  BY NeverOlderStep
<1>. QED
  BY <1>1, <1>2, <1>3, TypeCorrect, PTL DEF Spec, PersistedNeverOlder

-----------------------------------------------------------------------------
(* A record that is not queued is the stored one.                          *)

\* When every key has room, pruning only drops what is over and persisted.
LEMMA PruneRoomy ==
    ASSUME Roomy, NEW app \in [Keys -> Doc \cup {NoDoc}],
           NEW ver \in [Keys -> Nat], NEW dty \in [Keys -> Nat], NEW new,
           Prune(app, ver, dty, new)
    PROVE  /\ approach' = Without(app, Expired(app, dty), NoDoc)
           /\ version' = Without(ver, Expired(app, dty), 0)
           /\ dirty' = dty
<1>1. ASSUME NEW S \in SUBSET Keys
      PROVE  Cardinality(S) <= CacheMax /\ Cardinality(S) <= DirtyMax
  <2>1. IsFiniteSet(S) /\ Cardinality(S) <= Cardinality(Keys)
    BY KeysAssumption, FS_Subset
  <2>2. Cardinality(S) \in Nat /\ Cardinality(Keys) \in Nat
    BY <2>1, KeysAssumption, FS_CardinalityType
  <2>. QED  BY <2>1, <2>2, BoundsAssumption DEF Roomy
<1>2. \A a, d, n : Overflow(a, d, n) = {{}}
  BY <1>1 DEF Overflow, Cached
<1>3. \A a, d : Trimmed(a, d) = {{}}
  BY <1>1 DEF Trimmed, Queued
<1>4. \A f, none : DOMAIN f = Keys /\ f = [k \in Keys |-> f[k]] => Without(f, {}, none) = f
  BY DEF Without
<1>5. dty = [k \in Keys |-> dty[k]] /\ DOMAIN dty = Keys
  OBVIOUS
<1>6. Without(dty, {}, 0) = dty
  BY <1>4, <1>5
<1>7. Without(Without(app, Expired(app, dty), NoDoc), {}, NoDoc)
        = Without(app, Expired(app, dty), NoDoc)
  BY DEF Without
<1>8. Expired(app, dty) \cup {} = Expired(app, dty)
  OBVIOUS
<1>. QED  BY <1>2, <1>3, <1>6, <1>7, <1>8 DEF Prune

\* A new process starts with nothing cached, queued or in flight.
LEMMA DurableInit == Init => DurableInv
  BY DEF Init, DurableInv, UnfilteredMeetsNothing, FlushCoherent, WarmCoherent,
         CleanIsDurable, InFlight, WriteOps, Cached, Nothing, Zeros

\* A monitor update queues its key at a new version and drops nothing else
\* that is not over and persisted.
LEMMA DurableUpdate ==
    ASSUME Roomy, TypeOK, DurableInv,
           NEW x \in Keys, NEW kind \in {"qualify", "hold", "end"},
           ApplyUpdate(x, kind), UnfilteredMeetsNothing'
    PROVE  DurableInv'
<1>. DEFINE existing == IF approach[x] # NoDoc THEN approach[x] ELSE cycle[x]
            doc == Decided(kind, existing)
            app == [approach EXCEPT ![x] = doc]
            ver == [version EXCEPT ![x] = version[x] + 1]
            dty == [dirty EXCEPT ![x] = version[x] + 1]
<1>1. /\ \/ Prune(app, ver, dty, x)
         \/ UNCHANGED <<approach, version, dirty>>
      /\ runtime = "live"
      /\ UNCHANGED <<runtime, flush, db, late, rows, now>>
      /\ existing # NoDoc \/ kind = "qualify"
  BY DEF ApplyUpdate
<1>2. doc \in Doc
  BY <1>1, DecidedType DEF TypeOK
<1>3. CASE UNCHANGED <<approach, version, dirty>>
  BY <1>1, <1>3 DEF DurableInv, FlushCoherent, WarmCoherent, CleanIsDurable,
                    InFlight, Cached, flush
<1>4. CASE Prune(app, ver, dty, x)
  <2>1. /\ app \in [Keys -> Doc \cup {NoDoc}] /\ ver \in [Keys -> Nat]
        /\ dty \in [Keys -> Nat]
    BY <1>2 DEF TypeOK
  <2>2. /\ approach' = Without(app, Expired(app, dty), NoDoc)
        /\ version' = Without(ver, Expired(app, dty), 0)
        /\ dirty' = dty
    BY <1>4, <2>1, PruneRoomy
  <2>3. \A k \in Keys : dty[k] > 0 => approach'[k] = app[k] /\ version'[k] = ver[k]
    BY <2>1, <2>2 DEF Without, Expired
  <2>4. dty[x] > version[x] /\ dty[x] > 0 /\ app[x] # NoDoc /\ ver[x] = dty[x]
    BY <1>2, NoDocAssumption DEF TypeOK
  <2>5. \A k \in Keys : dirty'[k] > 0 => approach'[k] # NoDoc /\ dirty'[k] = version'[k]
    BY <2>2, <2>3, <2>4 DEF DurableInv, TypeOK
  <2>6. \A k \in Keys : dirty[k] > 0 => dirty[k] <= dirty'[k]
    BY <2>2, <2>4 DEF DurableInv, TypeOK
  <2>7. FlushCoherent'
    <3>1. \A item \in batch : 0 < item[2] /\ item[2] <= dirty'[item[1]]
      <4>1. ASSUME NEW item \in batch
            PROVE  item[1] \in Keys /\ item[2] \in Nat /\ 0 < item[2]
                   /\ item[2] <= dirty[item[1]]
        BY DEF DurableInv, FlushCoherent, TypeOK
      <4>2. dirty \in [Keys -> Nat] /\ dirty' \in [Keys -> Nat]
        BY <2>1, <2>2 DEF TypeOK
      <4>. QED  BY <4>1, <4>2, <2>6
    <3>2. ASSUME InFlight
          PROVE  /\ 0 < job.ver /\ job.ver <= dirty'[job.key]
                 /\ version'[job.key] = job.ver => approach'[job.key] = job.doc
      <4>1. job.key \in Keys /\ job.ver \in Nat
        BY <3>2, JobType DEF InFlight
      <4>2. 0 < job.ver /\ job.ver <= dirty[job.key]
            /\ (version[job.key] = job.ver => approach[job.key] = job.doc)
        BY <3>2 DEF DurableInv, FlushCoherent
      <4>3. dirty \in [Keys -> Nat] /\ dirty' \in [Keys -> Nat] /\ version \in [Keys -> Nat]
        BY <2>1, <2>2 DEF TypeOK
      <4>4. dirty[job.key] > 0 /\ dirty[job.key] = version[job.key]
        BY <4>1, <4>2, <4>3 DEF DurableInv
      <4>5. CASE job.key = x
        <5>1. version'[x] = version[x] + 1
          BY <2>3, <2>4, <4>3
        <5>. QED  BY <4>1, <4>2, <4>3, <4>4, <4>5, <5>1, <2>6
      <4>6. CASE job.key # x
        <5>1. approach'[job.key] = approach[job.key]
              /\ version'[job.key] = version[job.key]
          BY <2>3, <4>1, <4>3, <4>4, <4>6 DEF TypeOK
        <5>. QED  BY <4>1, <4>2, <4>3, <4>4, <5>1, <2>6
      <4>. QED  BY <4>5, <4>6
    <3>. QED  BY <1>1, <3>1, <3>2 DEF DurableInv, FlushCoherent, InFlight, flush
  <2>8. CleanIsDurable'
    <3>. SUFFICES ASSUME NEW k \in Keys, approach'[k] # NoDoc, dirty'[k] = 0
                  PROVE  \/ db[k] = approach'[k]
                         \/ db[k] = NoDoc /\ approach'[k].exp <= now
      BY <1>1 DEF CleanIsDurable, Cached
    <3>1. k # x /\ dirty[k] = 0
      BY <2>2, <2>4 DEF TypeOK
    <3>2. approach'[k] = approach[k]
      BY <2>2, <3>1 DEF TypeOK, Without
    <3>. QED  BY <1>1, <3>1, <3>2 DEF DurableInv, CleanIsDurable, Cached
  <2>9. WarmCoherent'
    BY <1>1 DEF WarmCoherent
  <2>. QED  BY <2>5, <2>7, <2>8, <2>9 DEF DurableInv
<1>. QED  BY <1>1, <1>3, <1>4

\* The key in flight is queued and cached at its queued version, so whatever
\* its write does, the key is not clean before the write is acknowledged.
LEMMA JobQueued ==
    ASSUME TypeOK, DurableInv, InFlight
    PROVE  /\ job.key \in Keys /\ job.ver \in Nat /\ job.doc \in Doc
           /\ dirty[job.key] > 0 /\ approach[job.key] # NoDoc
           /\ runtime = "live"
<1>1. job.key \in Keys /\ job.ver \in Nat /\ job.doc \in Doc
  BY JobType DEF InFlight
<1>2. 0 < job.ver /\ job.ver <= dirty[job.key] /\ dirty[job.key] \in Nat
  BY <1>1 DEF DurableInv, FlushCoherent, TypeOK
<1>3. dirty[job.key] > 0
  BY <1>1, <1>2
<1>4. runtime = "live"
  BY DEF DurableInv, WarmCoherent
<1>. QED  BY <1>1, <1>3, <1>4 DEF DurableInv

\* A write of the flush that took effect only changes the stored record of the
\* key in flight, which stays queued.
LEMMA DurableEffect ==
    ASSUME TypeOK, DurableInv, InFlight, NEW op,
           db' = Effect(op, job.key, job.doc),
           UNCHANGED <<runtime, approach, dirty, now>>
    PROVE  CleanIsDurable'
<1>1. job.key \in Keys /\ dirty[job.key] > 0
  BY JobQueued
<1>2. \A k \in Keys : k # job.key => db'[k] = db[k]
  BY DEF Effect, TypeOK
<1>. QED  BY <1>1, <1>2 DEF DurableInv, CleanIsDurable, Cached

\* An acknowledged write: the key is clean only if the record in memory is the
\* one that was written.
LEMMA DurablePersisted ==
    ASSUME TypeOK, DurableInv, InFlight, db'[job.key] = job.doc,
           \A k \in Keys : k # job.key => db'[k] = db[k],
           Persisted, UNCHANGED <<runtime, batch, now, rows, late>>
    PROVE  DurableInv'
<1>1. /\ job.key \in Keys /\ job.ver \in Nat /\ job.doc \in Doc
      /\ dirty[job.key] > 0 /\ approach[job.key] # NoDoc
      /\ runtime = "live"
  BY JobQueued
<1>2. \A k \in Keys : k # job.key => dirty'[k] = dirty[k]
  BY DEF Persisted, TypeOK
<1>3. dirty'[job.key] = IF version[job.key] = job.ver THEN 0 ELSE dirty[job.key]
  BY <1>1 DEF Persisted, TypeOK
<1>4. approach' = approach /\ version' = version /\ pc' = "next"
  BY DEF Persisted
<1>5. UnfilteredMeetsNothing'
  BY <1>4 DEF DurableInv, UnfilteredMeetsNothing
<1>6. \A k \in Keys : dirty'[k] > 0 => approach'[k] # NoDoc /\ dirty'[k] = version'[k]
  BY <1>2, <1>3, <1>4 DEF DurableInv
<1>7. FlushCoherent'
  <2>1. ~InFlight'
    BY <1>4 DEF InFlight, WriteOps
  <2>2. \A item \in batch : item[1] \in Keys /\ item[1] # job.key
    BY DEF DurableInv, FlushCoherent, TypeOK
  <2>. QED  BY <1>2, <2>1, <2>2 DEF DurableInv, FlushCoherent
<1>8. WarmCoherent'
  BY <1>1 DEF WarmCoherent
<1>9. CleanIsDurable'
  <2>1. version[job.key] = job.ver => approach[job.key] = job.doc
    BY DEF DurableInv, FlushCoherent
  <2>2. ASSUME NEW k \in Cached(approach'), dirty'[k] = 0
        PROVE  db'[k] = approach'[k] \/ (db'[k] = NoDoc /\ approach'[k].exp <= now)
    <3>1. CASE k = job.key
      BY <1>1, <1>3, <1>4, <2>1, <2>2, <3>1
    <3>2. CASE k # job.key
      BY <1>1, <1>2, <1>4, <2>2, <3>2 DEF DurableInv, CleanIsDurable, Cached
    <3>. QED  BY <3>1, <3>2
  <2>. QED  BY <1>4, <2>2 DEF CleanIsDurable
<1>. QED  BY <1>5, <1>6, <1>7, <1>8, <1>9 DEF DurableInv

\* A newer stored record takes the place of the one in memory: a clean key at
\* the stored state.
LEMMA DurableFind ==
    ASSUME TypeOK, DurableInv, FlushFind, UnfilteredMeetsNothing'
    PROVE  DurableInv'
<1>. DEFINE k == job.key
            existing == db[k]
            app == [approach EXCEPT ![k] = existing]
            gone == Expired(app, dirty)
<1>0. InFlight /\ UNCHANGED <<runtime, batch, db, now, rows>>
  BY DEF FlushFind, InFlight
<1>1. /\ k \in Keys /\ job.ver \in Nat /\ job.doc \in Doc
      /\ dirty[k] > 0 /\ approach[k] # NoDoc
      /\ runtime = "live"
  BY <1>0, JobQueued
<1>2. WarmCoherent'
  BY <1>0, <1>1 DEF WarmCoherent
<1>3. \A item \in batch : item[1] \in Keys /\ item[1] # k
  BY <1>0 DEF DurableInv, FlushCoherent, TypeOK
<1>4. CASE UNCHANGED <<job, approach, version, dirty>> /\ InFlight'
  BY <1>0, <1>2, <1>4 DEF DurableInv, FlushCoherent, CleanIsDurable, Cached
<1>5. CASE UNCHANGED <<approach, version, dirty>> /\ pc' = "next"
  <2>1. ~InFlight'
    BY <1>5 DEF InFlight, WriteOps
  <2>. QED  BY <1>0, <1>2, <1>5, <2>1 DEF DurableInv, FlushCoherent, CleanIsDurable, Cached
<1>6. CASE /\ existing # NoDoc /\ Newer(existing, job.doc)
           /\ version[k] = job.ver /\ Adopt(k, existing)
           /\ dirty' = [dirty EXCEPT ![k] = 0] /\ pc' = "next"
  <2>1. existing \in Doc /\ approach[k] = job.doc
    BY <1>0, <1>1, <1>6 DEF DurableInv, FlushCoherent, TypeOK
  <2>2. Supersedes(k, existing)
    BY <1>1, <1>6, <2>1 DEF Supersedes, Newer, Doc
  <2>3. approach' = Without(app, gone, NoDoc) /\ version' = Without(version, gone, 0)
    BY <1>6, <2>2 DEF Adopt
  <2>4. k \notin gone /\ \A x \in gone : dirty[x] = 0
    BY <1>1 DEF Expired
  <2>5. approach'[k] = db[k]
    BY <1>1, <2>3, <2>4 DEF Without, TypeOK
  <2>6. \A x \in Keys \ {k} : /\ dirty'[x] = dirty[x]
                              /\ approach'[x] # NoDoc => approach'[x] = approach[x]
                              /\ dirty[x] > 0 => approach'[x] = approach[x]
                                                 /\ version'[x] = version[x]
    <3>. SUFFICES ASSUME NEW x \in Keys, x # k
                  PROVE  /\ dirty'[x] = dirty[x]
                         /\ approach'[x] # NoDoc => approach'[x] = approach[x]
                         /\ dirty[x] > 0 => approach'[x] = approach[x]
                                            /\ version'[x] = version[x]
      OBVIOUS
    <3>1. dirty'[x] = dirty[x]
      BY <1>6 DEF TypeOK
    <3>2. app[x] = approach[x]
      BY DEF TypeOK
    <3>3. approach'[x] = IF x \in gone THEN NoDoc ELSE app[x]
      BY <2>3 DEF Without
    <3>4. version'[x] = IF x \in gone THEN 0 ELSE version[x]
      BY <2>3 DEF Without
    <3>. HIDE DEF gone, app
    <3>. QED  BY <3>1, <3>2, <3>3, <3>4, <2>4
  <2>7. dirty'[k] = 0
    BY <1>1, <1>6 DEF TypeOK
  <2>8. \A x \in Keys : dirty'[x] > 0 => approach'[x] # NoDoc /\ dirty'[x] = version'[x]
    BY <2>6, <2>7 DEF DurableInv
  <2>9. FlushCoherent'
    <3>1. ~InFlight'
      BY <1>6 DEF InFlight, WriteOps
    <3>. QED  BY <1>0, <1>3, <2>6, <3>1 DEF DurableInv, FlushCoherent
  <2>10. CleanIsDurable'
    <3>1. ASSUME NEW x \in Keys, approach'[x] # NoDoc, dirty'[x] = 0
          PROVE  db[x] = approach'[x] \/ (db[x] = NoDoc /\ approach'[x].exp <= now)
      BY <1>1, <2>5, <2>6, <3>1 DEF DurableInv, CleanIsDurable, Cached
    <3>. QED  BY <1>0, <3>1 DEF CleanIsDurable, Cached
  <2>. QED  BY <1>2, <2>8, <2>9, <2>10 DEF DurableInv
<1>. QED
  BY <1>0, <1>4, <1>5, <1>6 DEF FlushFind, InFlight, WriteOps

\* The steps that send the flush to its next record, its statuses or its end.
LEMMA DurableFlush ==
    ASSUME ~LateWrites, TypeOK, DurableInv, UnfilteredMeetsNothing', Flush
    PROVE  DurableInv'
<1>1. CASE FlushStart
  <2>1. \A item \in batch' : \E k \in Keys : item = <<k, dirty[k]>> /\ dirty[k] > 0
    BY <1>1 DEF FlushStart, SmallSubsets, DirtyItems, Queued
  <2>2. dirty \in [Keys -> Nat]
    BY DEF TypeOK
  <2>3. FlushCoherent'
    BY <1>1, <2>1, <2>2 DEF FlushStart, FlushCoherent, InFlight, WriteOps, memory
  <2>. QED
    BY <1>1, <2>3 DEF FlushStart, DurableInv, WarmCoherent, CleanIsDurable, Cached,
                      memory, InFlight, WriteOps
<1>2. CASE FlushTake
  <2>1. PICK item \in batch :
          /\ batch' = batch \ {item}
          /\ IF approach[item[1]] = NoDoc
             THEN dirty' = [dirty EXCEPT ![item[1]] = 0] /\ UNCHANGED <<pc, job>>
             ELSE /\ pc' = "guarded" /\ UNCHANGED dirty
                  /\ job' = [key |-> item[1], ver |-> item[2], doc |-> approach[item[1]]]
    BY <1>2 DEF FlushTake
  <2>2. item[1] \in Keys /\ item[2] \in Nat /\ 0 < item[2] /\ item[2] <= dirty[item[1]]
    BY DEF TypeOK, DurableInv, FlushCoherent
  <2>3. dirty[item[1]] \in Nat
    BY <2>2 DEF TypeOK
  <2>4. approach[item[1]] # NoDoc
    BY <2>2, <2>3 DEF DurableInv
  <2>5. FlushCoherent'
    BY <1>2, <2>1, <2>2, <2>4 DEF FlushTake, DurableInv, FlushCoherent
  <2>6. runtime = "live"
    BY DEF DurableInv, WarmCoherent
  <2>. QED
    BY <1>2, <2>1, <2>4, <2>5, <2>6
       DEF FlushTake, DurableInv, WarmCoherent, CleanIsDurable, Cached
<1>3. CASE FlushGuarded
  <2>1. InFlight /\ pc \in WriteOps
    BY <1>3 DEF FlushGuarded, InFlight, WriteOps
  <2>2. \A k \in Keys : k # job.key => db'[k] = db[k]
    BY <1>3 DEF FlushGuarded, Effect, TypeOK
  <2>3. CASE db'[job.key] = job.doc
    BY <1>3, <2>1, <2>2, <2>3, DurablePersisted DEF FlushGuarded
  <2>4. CASE db'[job.key] # job.doc
    <3>1. /\ pc' = "find" /\ db' = Effect("guarded", job.key, job.doc)
          /\ UNCHANGED <<runtime, approach, version, dirty, job, batch, rows, now>>
      BY <1>3, <2>4 DEF FlushGuarded, memory
    <3>2. CleanIsDurable'
      BY <2>1, <3>1, DurableEffect
    <3>3. runtime = "live"
      BY <2>1, JobQueued
    <3>. QED
      BY <2>1, <3>1, <3>2, <3>3 DEF DurableInv, FlushCoherent, WarmCoherent, InFlight
  <2>. QED  BY <2>3, <2>4
<1>4. CASE FlushFind
  BY <1>4, DurableFind
<1>5. CASE FlushUnguarded
  <2>1. InFlight /\ pc = "upsert"
    BY <1>5 DEF FlushUnguarded, InFlight, WriteOps, DurableInv, UnfilteredMeetsNothing
  <2>2. job.key \in Keys
    BY <2>1, JobQueued
  <2>3. db' = [db EXCEPT ![job.key] = job.doc]
    BY <1>5, <2>1 DEF FlushUnguarded, Effect
  <2>4. db'[job.key] = job.doc /\ \A k \in Keys : k # job.key => db'[k] = db[k]
    BY <2>2, <2>3 DEF TypeOK
  <2>. QED  BY <1>5, <2>1, <2>4, DurablePersisted DEF FlushUnguarded
<1>6. CASE FlushStatusStart \/ FlushStatus \/ FlushEnd
  <2>1. /\ ~InFlight'
        /\ UNCHANGED <<runtime, approach, version, dirty, batch, db, rows, now>>
    BY <1>6 DEF FlushStatusStart, FlushStatus, FlushEnd, InFlight, WriteOps, memory
  <2>. QED  BY <2>1 DEF DurableInv, FlushCoherent, WarmCoherent, CleanIsDurable, Cached
<1>. QED  BY <1>1, <1>2, <1>3, <1>4, <1>5, <1>6 DEF Flush


\* Everything but the flush loop's own steps and the monitor's updates.
LEMMA DurableRest ==
    ASSUME ~LateWrites, ~ClockStepsBack, TypeOK, DurableInv, UnfilteredMeetsNothing',
           \/ Prefetch \/ FlushFail \/ BackoffElapses \/ LateLands \/ Tick
           \/ StepBack \/ Stop \/ WarmRead \/ WarmDone \/ WarmFail
           \/ (\E k \in Keys : DbExpire(k))
           \/ (\E i \in StatusIds : EnqueueStatus(i))
           \/ UNCHANGED vars
    PROVE  DurableInv'
<1>1. CASE Prefetch
  <2>. DEFINE gone == Expired(approach, dirty)
  <2>1. \A k \in gone : dirty[k] = 0
    BY DEF Expired
  <2>2. ASSUME NEW k \in Keys
        PROVE  /\ dirty'[k] = dirty[k]
               /\ approach'[k] # NoDoc => approach'[k] = approach[k]
               /\ dirty[k] > 0 => approach'[k] = approach[k] /\ version'[k] = version[k]
    <3>1. /\ dirty' = dirty
          /\ approach'[k] = IF k \in gone THEN NoDoc ELSE approach[k]
          /\ version'[k] = IF k \in gone THEN 0 ELSE version[k]
      BY <1>1 DEF Prefetch, Without
    <3>. HIDE DEF gone
    <3>. QED  BY <3>1, <2>1
  <2>3. UNCHANGED <<runtime, flush, dirty, db, rows, now>> /\ runtime = "live"
    BY <1>1 DEF Prefetch
  <2>4. FlushCoherent'
    <3>1. InFlight => job.key \in Keys /\ dirty[job.key] > 0
      BY JobQueued
    <3>. QED  BY <2>2, <2>3, <3>1 DEF DurableInv, FlushCoherent, InFlight, flush
  <2>5. CleanIsDurable'
    BY <2>2, <2>3 DEF DurableInv, CleanIsDurable, Cached
  <2>. QED  BY <2>2, <2>3, <2>4, <2>5 DEF DurableInv, WarmCoherent
<1>2. CASE FlushFail
  <2>1. /\ UNCHANGED <<runtime, approach, version, dirty, rows, now>>
        /\ pc' = "idle" /\ batch' = {}
        /\ db' = db \/ (pc \in WriteOps /\ db' = Effect(pc, job.key, job.doc))
    BY <1>2 DEF FlushFail, Orphaned, memory
  <2>2. CASE db' = db
    BY <2>1, <2>2 DEF DurableInv, FlushCoherent, WarmCoherent, CleanIsDurable, Cached,
                      InFlight, WriteOps
  <2>3. CASE pc \in WriteOps /\ db' = Effect(pc, job.key, job.doc)
    <3>1. InFlight
      BY <2>3 DEF InFlight
    <3>2. runtime = "live" /\ CleanIsDurable'
      BY <2>1, <2>3, <3>1, JobQueued, DurableEffect
    <3>. QED  BY <2>1, <3>2 DEF DurableInv, FlushCoherent, WarmCoherent, InFlight, WriteOps
  <2>. QED  BY <2>1, <2>2, <2>3
<1>3. CASE Stop
  BY <1>3 DEF Stop, DurableInv, FlushCoherent, WarmCoherent, CleanIsDurable, Cached,
              InFlight, WriteOps, Nothing, Zeros
<1>4. CASE WarmRead
  <2>1. /\ runtime = "cold" /\ runtime' = "warming"
        /\ UNCHANGED <<memory, flush, db, now>>
        /\ \A k \in Keys : rows'[k] = db[k] \/ rows'[k] = NoDoc
    BY <1>4 DEF WarmRead
  <2>2. WarmCoherent'
    BY <2>1 DEF DurableInv, WarmCoherent, InFlight, Cached, memory, flush
  <2>. QED
    BY <2>1, <2>2 DEF DurableInv, FlushCoherent, CleanIsDurable, InFlight, memory, flush
<1>5. CASE WarmDone
  <2>1. /\ runtime = "warming" /\ runtime' = "live"
        /\ UNCHANGED <<version, dirty, flush, db, now>>
        /\ \A k \in Keys : approach'[k] = rows[k] \/ approach'[k] = NoDoc
    BY <1>5 DEF WarmDone, Without
  <2>2. ~InFlight /\ batch = {} /\ \A k \in Keys : dirty[k] = 0
    BY <2>1 DEF DurableInv, WarmCoherent
  <2>3. CleanIsDurable'
    BY <2>1 DEF DurableInv, WarmCoherent, CleanIsDurable, Cached
  <2>. QED
    BY <2>1, <2>2, <2>3 DEF DurableInv, FlushCoherent, WarmCoherent, InFlight, flush
<1>6. CASE WarmFail
  BY <1>6 DEF WarmFail, DurableInv, FlushCoherent, WarmCoherent, CleanIsDurable, Cached,
              InFlight, Nothing, memory, flush
<1>7. ASSUME NEW x \in Keys, DbExpire(x)  PROVE DurableInv'
  <2>1. /\ db[x] # NoDoc /\ db[x].exp <= now /\ db'[x] = NoDoc
        /\ \A k \in Keys : k # x => db'[k] = db[k]
        /\ UNCHANGED <<runtime, memory, flush, rows, now>>
    BY <1>7 DEF DbExpire, TypeOK
  <2>2. CleanIsDurable'
    BY <2>1 DEF DurableInv, CleanIsDurable, Cached, memory
  <2>3. WarmCoherent'
    BY <2>1 DEF DurableInv, WarmCoherent, Cached, InFlight, memory, flush
  <2>. QED  BY <2>1, <2>2, <2>3 DEF DurableInv, FlushCoherent, InFlight, memory, flush
<1>8. CASE Tick
  <2>1. now' = now + 1 /\ UNCHANGED <<runtime, memory, flush, db, rows>>
    BY <1>8 DEF Tick
  <2>2. \A t \in Nat : t <= now => t <= now'
    BY <2>1 DEF TypeOK
  <2>3. \A k \in Keys : /\ approach[k] # NoDoc => approach[k].exp \in Nat
                        /\ rows[k] # NoDoc => rows[k].exp \in Nat
    BY DEF TypeOK, Doc
  <2>4. CleanIsDurable'
    BY <2>1, <2>2, <2>3 DEF DurableInv, CleanIsDurable, Cached, memory
  <2>5. WarmCoherent'
    BY <2>1, <2>2, <2>3 DEF DurableInv, WarmCoherent, Cached, InFlight, memory, flush
  <2>. QED  BY <2>1, <2>4, <2>5 DEF DurableInv, FlushCoherent, InFlight, memory, flush
<1>9. CASE \/ BackoffElapses \/ (\E i \in StatusIds : EnqueueStatus(i)) \/ UNCHANGED vars
  <2>1. UNCHANGED <<runtime, approach, version, dirty, pc, batch, job, db, rows, now>>
    BY <1>9 DEF BackoffElapses, EnqueueStatus, vars, memory, flush
  <2>. QED
    BY <2>1 DEF DurableInv, FlushCoherent, WarmCoherent, CleanIsDurable, Cached, InFlight
<1>10. ~LateLands /\ ~StepBack
  BY DEF LateLands, StepBack, DurableInv, UnfilteredMeetsNothing
<1>. QED  BY <1>1, <1>2, <1>3, <1>4, <1>5, <1>6, <1>7, <1>8, <1>9, <1>10

\* The invariant behind CleanIsDurable is kept by every step.
LEMMA DurableAlways ==
    ASSUME Roomy, ~LateWrites, ~ClockStepsBack  PROVE Spec => []DurableInv
<1>1. TypeOK /\ DurableInv /\ [Next]_vars => DurableInv'
  <2>. SUFFICES ASSUME TypeOK, DurableInv, [Next]_vars  PROVE DurableInv'
    OBVIOUS
  <2>1. UnfilteredMeetsNothing'
    BY UnfilteredStep DEF DurableInv
  <2>2. ASSUME NEW k \in Keys, NEW kind \in {"qualify", "hold", "end"},
               ApplyUpdate(k, kind)
        PROVE  DurableInv'
    BY <2>1, <2>2, DurableUpdate
  <2>3. CASE Flush
    BY <2>1, <2>3, DurableFlush
  <2>. QED  BY <2>1, <2>2, <2>3, DurableRest DEF Next
<1>. QED  BY <1>1, DurableInit, TypeCorrect, PTL DEF Spec

\* If there is room for every key, no write lands after its wait gave up and
\* the clock is never set back, then a record the runtime no longer intends to
\* write is in the database as it is in memory, through any failed flush, any
\* stop and any update made during a write (_persist_state, close, warm).
THEOREM CleanDurable ==
    ASSUME Roomy, ~LateWrites, ~ClockStepsBack  PROVE Spec => []CleanIsDurable
<1>1. DurableInv => CleanIsDurable
  BY DEF DurableInv
<1>. QED  BY <1>1, DurableAlways, PTL

-----------------------------------------------------------------------------
(* The limits of the cache and of the queue, in every setting: late writes,  *)
(* clocks that step back and caches that are too small included.             *)

\* What the limits rest on: only cached records have a version, a process that
\* does not run has nothing, and what a flush works on has a version.
LimitInv ==
    /\ CacheCoherent
    /\ \A k \in Keys : version[k] > 0 => approach[k] # NoDoc
    /\ Cardinality(Cached(rows)) <= CacheMax
    /\ runtime # "live" =>
          /\ \A k \in Keys : approach[k] = NoDoc /\ version[k] = 0 /\ dirty[k] = 0
          /\ ~InFlight
    /\ InFlight => job.ver > 0
    /\ \A item \in batch : item[2] > 0
    /\ \A i \in StatusIds : statusPending[i] # 0 => statusPending[i] = statusVersion[i]

\* The sets that are counted are finite.
LEMMA KeySets ==
    ASSUME NEW S \in SUBSET Keys
    PROVE  IsFiniteSet(S) /\ Cardinality(S) \in Nat
  BY KeysAssumption, FS_Subset, FS_CardinalityType

LEMMA FewerKeys ==
    ASSUME NEW S \in SUBSET Keys, NEW T \in SUBSET S
    PROVE  Cardinality(T) <= Cardinality(S)
  BY KeySets, FS_Subset

\* A set that is one too large is within its limit without one of its elements.
LEMMA OneLess ==
    ASSUME NEW S \in SUBSET Keys, NEW x \in S, NEW n \in Nat, Cardinality(S) <= n + 1
    PROVE  Cardinality(S \ {x}) <= n
<1>1. IsFiniteSet(S) /\ Cardinality(S) \in Nat
  BY KeySets
<1>2. Cardinality(S \ {x}) = Cardinality(S) - 1
  BY <1>1, FS_RemoveElement
<1>. QED  BY <1>1, <1>2

\* A set within a limit is at most one too large with one more element.
LEMMA OneMore ==
    ASSUME NEW S \in SUBSET Keys, NEW x \in Keys, NEW n \in Nat, Cardinality(S) <= n
    PROVE  Cardinality(S \cup {x}) <= n + 1
<1>1. IsFiniteSet(S) /\ Cardinality(S) \in Nat
  BY KeySets
<1>2. Cardinality(S \cup {x}) = IF x \in S THEN Cardinality(S) ELSE Cardinality(S) + 1
  BY <1>1, FS_AddElement
<1>. QED  BY <1>1, <1>2

\* _prune_states brings a cache and a queue that are one too large back within
\* their limits, and keeps them coherent.
LEMMA PruneLimits ==
    ASSUME NEW app \in [Keys -> Doc \cup {NoDoc}], NEW ver \in [Keys -> Nat],
           NEW dty \in [Keys -> Nat], NEW new,
           Cardinality(Cached(app)) <= CacheMax + 1,
           Cardinality(Queued(dty)) <= DirtyMax + 1,
           \A k \in Keys : /\ dty[k] > 0 => app[k] # NoDoc /\ dty[k] = ver[k]
                           /\ ver[k] > 0 => app[k] # NoDoc,
           Prune(app, ver, dty, new)
    PROVE  /\ CacheCoherent'
           /\ \A k \in Keys : /\ version'[k] > 0 => approach'[k] # NoDoc
                              /\ approach'[k] = app[k] \/ approach'[k] = NoDoc
<1>. DEFINE gone == Expired(app, dty)
            kept == Without(app, gone, NoDoc)
<1>1. PICK evicted \in Overflow(kept, dty, new) :
        \E trimmed \in Trimmed(Without(kept, evicted, NoDoc), Without(dty, evicted, 0)) :
            /\ approach' = Without(kept, evicted, NoDoc)
            /\ version' = Without(ver, gone \cup evicted, 0)
            /\ dirty' = Without(Without(dty, evicted, 0), trimmed, 0)
  BY DEF Prune
<1>. DEFINE rest  == Without(kept, evicted, NoDoc)
            queue == Without(dty, evicted, 0)
<1>2. PICK trimmed \in Trimmed(rest, queue) :
            /\ approach' = rest /\ version' = Without(ver, gone \cup evicted, 0)
            /\ dirty' = Without(queue, trimmed, 0)
  BY <1>1
<1>3. \A k \in Keys : /\ kept[k] = IF k \in gone THEN NoDoc ELSE app[k]
                      /\ rest[k] = IF k \in evicted THEN NoDoc ELSE kept[k]
                      /\ queue[k] = IF k \in evicted THEN 0 ELSE dty[k]
                      /\ k \in gone => dty[k] = 0
                      /\ approach'[k] = rest[k]
                      /\ version'[k] = IF k \in gone \cup evicted THEN 0 ELSE ver[k]
                      /\ dirty'[k] = IF k \in trimmed THEN 0 ELSE queue[k]
  BY <1>2 DEF Without, Expired
<1>4. Cached(kept) \subseteq Cached(app) /\ Cached(app) \subseteq Keys
      /\ Cached(rest) = Cached(kept) \ evicted
      /\ Queued(queue) = Queued(dty) \ evicted /\ Queued(dty) \subseteq Keys
      /\ Queued(dirty') = Queued(queue) \ trimmed /\ approach' = rest
  BY <1>2, <1>3 DEF Cached, Queued
<1>5. \/ evicted = {} /\ Cardinality(Cached(kept)) <= CacheMax
      \/ \E v \in Cached(kept) : evicted = {v}
  BY DEF Overflow, Victims, Inactive
<1>6. \/ trimmed = {} /\ Cardinality(Queued(queue)) <= DirtyMax
      \/ \E v \in Queued(queue) : trimmed = {v}
  BY DEF Trimmed
<1>. HIDE DEF gone, kept, rest, queue
<1>7. Cardinality(Cached(approach')) <= CacheMax
  <2>1. Cardinality(Cached(kept)) <= CacheMax + 1
    <3>1. Cardinality(Cached(kept)) <= Cardinality(Cached(app))
      BY <1>4, FewerKeys
    <3>2. Cardinality(Cached(kept)) \in Nat /\ Cardinality(Cached(app)) \in Nat
      BY <1>4, KeySets
    <3>. QED  BY <3>1, <3>2, BoundsAssumption
  <2>2. CASE evicted = {} /\ Cardinality(Cached(kept)) <= CacheMax
    BY <1>4, <2>2
  <2>3. CASE \E v \in Cached(kept) : evicted = {v}
    BY <1>4, <2>1, <2>3, OneLess, BoundsAssumption
  <2>. QED  BY <1>5, <2>2, <2>3
<1>8. Cardinality(Queued(dirty')) <= DirtyMax
  <2>1. Cardinality(Queued(queue)) <= DirtyMax + 1
    <3>1. Cardinality(Queued(queue)) <= Cardinality(Queued(dty))
      BY <1>4, FewerKeys
    <3>2. Cardinality(Queued(queue)) \in Nat /\ Cardinality(Queued(dty)) \in Nat
      BY <1>4, KeySets
    <3>. QED  BY <3>1, <3>2, BoundsAssumption
  <2>2. CASE trimmed = {} /\ Cardinality(Queued(queue)) <= DirtyMax
    BY <1>4, <2>2
  <2>3. CASE \E v \in Queued(queue) : trimmed = {v}
    BY <1>4, <2>1, <2>3, OneLess, BoundsAssumption
  <2>. QED  BY <1>6, <2>2, <2>3
<1>9. \A k \in Keys : /\ dirty'[k] > 0 => approach'[k] # NoDoc /\ dirty'[k] = version'[k]
                      /\ version'[k] > 0 => approach'[k] # NoDoc
                      /\ approach'[k] = app[k] \/ approach'[k] = NoDoc
  BY <1>3
<1>. QED  BY <1>7, <1>8, <1>9 DEF CacheCoherent

\* A queue that loses entries stays within its limit and coherent.
LEMMA QueueShrinks ==
    ASSUME TypeOK, CacheCoherent, NEW k \in Keys,
           dirty' = [dirty EXCEPT ![k] = 0] \/ dirty' = dirty,
           UNCHANGED <<approach, version>>
    PROVE  CacheCoherent'
<1>1. \A j \in Keys : dirty'[j] = dirty[j] \/ dirty'[j] = 0
  BY DEF TypeOK
<1>2. Queued(dirty') \subseteq Queued(dirty) /\ Queued(dirty) \subseteq Keys
  BY <1>1 DEF Queued
<1>3. Cardinality(Queued(dirty')) <= DirtyMax
  <2>1. Cardinality(Queued(dirty')) <= Cardinality(Queued(dirty))
    BY <1>2, FewerKeys
  <2>2. Cardinality(Queued(dirty')) \in Nat /\ Cardinality(Queued(dirty)) \in Nat
    BY <1>2, KeySets
  <2>. QED  BY <2>1, <2>2, BoundsAssumption DEF CacheCoherent
<1>. QED  BY <1>1, <1>3 DEF CacheCoherent

\* A cache that loses clean entries stays within its limit and coherent.
LEMMA CacheShrinks ==
    ASSUME TypeOK, NEW app \in [Keys -> Doc \cup {NoDoc}],
           Cardinality(Cached(app)) <= CacheMax,
           \A k \in Keys : dirty[k] > 0 => app[k] # NoDoc /\ dirty[k] = version[k],
           \A k \in Keys : version[k] > 0 => app[k] # NoDoc,
           Cardinality(Queued(dirty)) <= DirtyMax,
           approach' = Without(app, Expired(app, dirty), NoDoc),
           version' = Without(version, Expired(app, dirty), 0),
           dirty' = dirty
    PROVE  /\ CacheCoherent'
           /\ \A k \in Keys : version'[k] > 0 => approach'[k] # NoDoc
<1>1. \A k \in Keys :
        /\ approach'[k] = IF k \in Expired(app, dirty) THEN NoDoc ELSE app[k]
        /\ version'[k] = IF k \in Expired(app, dirty) THEN 0 ELSE version[k]
        /\ k \in Expired(app, dirty) => dirty[k] = 0
  BY DEF Without, Expired
<1>2. Cached(approach') \subseteq Cached(app) /\ Cached(app) \subseteq Keys
  BY <1>1 DEF Cached
<1>3. Cardinality(Cached(approach')) <= CacheMax
  <2>1. Cardinality(Cached(approach')) <= Cardinality(Cached(app))
    BY <1>2, FewerKeys
  <2>2. Cardinality(Cached(approach')) \in Nat /\ Cardinality(Cached(app)) \in Nat
    BY <1>2, KeySets
  <2>. QED  BY <2>1, <2>2, BoundsAssumption
<1>. QED  BY <1>1, <1>3 DEF CacheCoherent

\* A monitor update adds at most one record and one entry of the queue.
LEMMA LimitUpdate ==
    ASSUME TypeOK, LimitInv, NEW x \in Keys, NEW kind \in {"qualify", "hold", "end"},
           ApplyUpdate(x, kind)
    PROVE  /\ LimitInv'
           /\ \A k \in Keys : approach[k] # NoDoc /\ approach'[k] # NoDoc
                                => ~Newer(approach[k], approach'[k])
<1>. DEFINE existing == IF approach[x] # NoDoc THEN approach[x] ELSE cycle[x]
            doc == Decided(kind, existing)
            app == [approach EXCEPT ![x] = doc]
            ver == [version EXCEPT ![x] = version[x] + 1]
            dty == [dirty EXCEPT ![x] = version[x] + 1]
<1>1. /\ IF Supersedes(x, doc)
         THEN Prune(app, ver, dty, x)
         ELSE UNCHANGED <<approach, version, dirty, drops>>
      /\ runtime = "live" /\ runtime' = "live"
      /\ existing # NoDoc \/ kind = "qualify"
      /\ UNCHANGED <<rows, pc, job, batch, statusPending, statusVersion>>
  BY DEF ApplyUpdate, flush, status
<1>2. doc \in Doc /\ doc # NoDoc /\ approach \in [Keys -> Doc \cup {NoDoc}]
      /\ version \in [Keys -> Nat] /\ dirty \in [Keys -> Nat]
  BY <1>1, DecidedType, NoDocAssumption DEF TypeOK
<1>3. \A d \in Doc : d.at \in Nat
  BY DEF Doc
<1>. HIDE DEF doc
<1>4. CASE Supersedes(x, doc) /\ Prune(app, ver, dty, x)
  <2>1. app \in [Keys -> Doc \cup {NoDoc}] /\ ver \in [Keys -> Nat] /\ dty \in [Keys -> Nat]
    BY <1>2
  <2>2. Cached(app) = Cached(approach) \cup {x} /\ Queued(dty) = Queued(dirty) \cup {x}
        /\ Cached(approach) \subseteq Keys /\ Queued(dirty) \subseteq Keys
    BY <1>2 DEF Cached, Queued
  <2>3. /\ Cardinality(Cached(app)) <= CacheMax + 1
        /\ Cardinality(Queued(dty)) <= DirtyMax + 1
    <3>1. /\ Cardinality(Cached(approach)) <= CacheMax
          /\ Cardinality(Queued(dirty)) <= DirtyMax
      BY DEF LimitInv, CacheCoherent
    <3>2. /\ Cardinality(Cached(approach) \cup {x}) <= CacheMax + 1
          /\ Cardinality(Queued(dirty) \cup {x}) <= DirtyMax + 1
      BY <2>2, <3>1, OneMore, BoundsAssumption
    <3>. QED  BY <2>2, <3>2
  <2>4. \A k \in Keys : /\ dty[k] > 0 => app[k] # NoDoc /\ dty[k] = ver[k]
                        /\ ver[k] > 0 => app[k] # NoDoc
    BY <1>2 DEF LimitInv, CacheCoherent
  <2>5. /\ CacheCoherent'
        /\ \A k \in Keys : /\ version'[k] > 0 => approach'[k] # NoDoc
                           /\ approach'[k] = app[k] \/ approach'[k] = NoDoc
    BY <1>4, <2>1, <2>3, <2>4, PruneLimits
  <2>6. \A k \in Keys : approach[k] # NoDoc /\ approach'[k] # NoDoc
                           => ~Newer(approach[k], approach'[k])
    BY <1>2, <1>3, <1>4, <2>5 DEF Supersedes, Newer
  <2>7. LimitInv'
    BY <1>1, <2>5 DEF LimitInv, InFlight
  <2>. QED  BY <2>6, <2>7
<1>5. CASE UNCHANGED <<approach, version, dirty>>
  BY <1>1, <1>2, <1>3, <1>5 DEF LimitInv, CacheCoherent, InFlight, Newer
<1>. QED  BY <1>1, <1>4, <1>5

\* A record read back takes the place of a cached one, and only of an older one.
LEMMA LimitFind ==
    ASSUME TypeOK, LimitInv, FlushFind
    PROVE  /\ LimitInv'
           /\ \A k \in Keys : approach[k] # NoDoc /\ approach'[k] # NoDoc
                                => ~Newer(approach[k], approach'[k])
<1>. DEFINE k == job.key
            existing == db[k]
            app == [approach EXCEPT ![k] = existing]
<1>1. /\ InFlight /\ k \in Keys /\ job.ver > 0 /\ runtime = "live"
      /\ UNCHANGED <<runtime, batch, rows, status>>
      /\ pc' = "next" \/ UNCHANGED <<job, approach, version, dirty>>
  BY JobType DEF FlushFind, InFlight, LimitInv
<1>2. /\ \A d \in Doc : d.at \in Nat
      /\ approach \in [Keys -> Doc \cup {NoDoc}] /\ db \in [Keys -> Doc \cup {NoDoc}]
      /\ version \in [Keys -> Nat] /\ dirty \in [Keys -> Nat]
  BY DEF Doc, TypeOK
<1>3. pc' = "next" => ~InFlight'
  BY DEF InFlight, WriteOps
<1>4. \/ UNCHANGED <<approach, version, dirty>>
      \/ /\ existing # NoDoc /\ version[k] = job.ver /\ Adopt(k, existing)
         /\ dirty' = [dirty EXCEPT ![k] = 0] /\ pc' = "next"
  BY DEF FlushFind
<1>5. CASE UNCHANGED <<approach, version, dirty>>
  <2>1. CacheCoherent' /\ \A j \in Keys : version'[j] > 0 => approach'[j] # NoDoc
    BY <1>5 DEF LimitInv, CacheCoherent
  <2>2. \A j \in Keys : approach[j] # NoDoc => ~Newer(approach[j], approach'[j])
    BY <1>2, <1>5 DEF Newer
  <2>. QED  BY <1>1, <1>3, <2>1, <2>2 DEF LimitInv, status
<1>6. CASE /\ existing # NoDoc /\ version[k] = job.ver /\ Adopt(k, existing)
           /\ dirty' = [dirty EXCEPT ![k] = 0] /\ pc' = "next"
  <2>1. approach[k] # NoDoc
    BY <1>1, <1>6 DEF LimitInv
  <2>2. CASE UNCHANGED <<approach, version>>
    <3>1. CacheCoherent'
      BY <1>1, <1>6, <2>2, QueueShrinks DEF LimitInv
    <3>2. \A j \in Keys : approach[j] # NoDoc => ~Newer(approach[j], approach'[j])
      BY <1>2, <2>2 DEF Newer
    <3>. QED  BY <1>1, <1>3, <1>6, <2>2, <3>1, <3>2 DEF LimitInv, status
  <2>3. CASE /\ Supersedes(k, existing)
             /\ approach' = Without(app, Expired(app, dirty), NoDoc)
             /\ version' = Without(version, Expired(app, dirty), 0)
    <3>1. app \in [Keys -> Doc \cup {NoDoc}] /\ Cached(app) = Cached(approach)
      BY <1>1, <1>2, <1>6, <2>1 DEF Cached
    <3>2. \A j \in Keys : /\ approach'[j] = IF j \in Expired(app, dirty) THEN NoDoc ELSE app[j]
                          /\ version'[j] = IF j \in Expired(app, dirty) THEN 0 ELSE version[j]
                          /\ dirty'[j] = IF j = k THEN 0 ELSE dirty[j]
                          /\ j \in Expired(app, dirty) => dirty[j] = 0
                          /\ app[j] = IF j = k THEN existing ELSE approach[j]
      BY <1>2, <1>6, <2>3 DEF Without, Expired
    <3>. HIDE DEF app
    <3>3. Cached(approach') \subseteq Cached(approach) /\ Cached(approach) \subseteq Keys
          /\ Queued(dirty') \subseteq Queued(dirty) /\ Queued(dirty) \subseteq Keys
      BY <3>1, <3>2 DEF Cached, Queued
    <3>4. /\ Cardinality(Cached(approach')) <= Cardinality(Cached(approach))
          /\ Cardinality(Queued(dirty')) <= Cardinality(Queued(dirty))
          /\ Cardinality(Cached(approach')) \in Nat /\ Cardinality(Cached(approach)) \in Nat
          /\ Cardinality(Queued(dirty')) \in Nat /\ Cardinality(Queued(dirty)) \in Nat
      <4>1. Cached(approach') \in SUBSET Keys /\ Queued(dirty') \in SUBSET Keys
        BY <3>3
      <4>. QED  BY <3>3, <4>1, FewerKeys, KeySets
    <3>5. Cardinality(Cached(approach')) <= CacheMax /\ Cardinality(Queued(dirty')) <= DirtyMax
      BY <3>4, BoundsAssumption DEF LimitInv, CacheCoherent
    <3>6. \A j \in Keys : /\ dirty'[j] > 0 => approach'[j] # NoDoc /\ dirty'[j] = version'[j]
                          /\ version'[j] > 0 => approach'[j] # NoDoc
      BY <1>6, <3>2 DEF LimitInv, CacheCoherent
    <3>7. \A j \in Keys : approach[j] # NoDoc /\ approach'[j] # NoDoc
                             => ~Newer(approach[j], approach'[j])
      BY <1>2, <2>1, <2>3, <3>2 DEF Supersedes, Newer
    <3>. QED  BY <1>1, <1>3, <1>6, <3>5, <3>6, <3>7 DEF LimitInv, CacheCoherent, status
  <2>. QED  BY <1>6, <2>2, <2>3 DEF Adopt
<1>. QED  BY <1>4, <1>5, <1>6

\* The flush: its batch and its requests are of queued versions.
LEMMA LimitFlush ==
    ASSUME TypeOK, LimitInv, Flush, ~FlushFind
    PROVE  LimitInv' /\ UNCHANGED <<runtime, approach>>
<1>1. CASE FlushStart
  <2>1. \A item \in batch' : item[2] > 0
    BY <1>1 DEF FlushStart, SmallSubsets, DirtyItems, Queued
  <2>. QED  BY <1>1, <2>1 DEF FlushStart, LimitInv, CacheCoherent, InFlight, WriteOps, memory,
                              status
<1>2. CASE FlushTake
  <2>1. PICK item \in batch :
           /\ batch' = batch \ {item}
           /\ IF approach[item[1]] = NoDoc
              THEN dirty' = [dirty EXCEPT ![item[1]] = 0] /\ UNCHANGED <<pc, job>>
              ELSE /\ job' = [key |-> item[1], ver |-> item[2], doc |-> approach[item[1]]]
                   /\ UNCHANGED dirty
    BY <1>2 DEF FlushTake
  <2>2. item[1] \in Keys /\ item[2] > 0 /\ UNCHANGED <<runtime, approach, version, rows, status>>
        /\ pc = "next"
    BY <1>2 DEF TypeOK, LimitInv, FlushTake
  <2>3. CacheCoherent'
    BY <2>1, <2>2, QueueShrinks DEF LimitInv
  <2>4. InFlight' => job'.ver > 0
    BY <2>1, <2>2 DEF InFlight, WriteOps
  <2>5. runtime # "live" => ~InFlight'
    <3>1. runtime # "live" => approach[item[1]] = NoDoc
      BY <2>2 DEF LimitInv
    <3>. QED  BY <2>1, <2>2, <3>1 DEF InFlight, WriteOps
  <2>6. runtime # "live" => \A k \in Keys : dirty'[k] = 0
    BY <2>1, <2>2 DEF LimitInv, TypeOK
  <2>. QED  BY <2>1, <2>2, <2>3, <2>4, <2>5, <2>6 DEF LimitInv, status
<1>3. CASE FlushGuarded \/ FlushUnguarded
  <2>1. /\ job.key \in Keys /\ InFlight
        /\ UNCHANGED <<runtime, approach, version, batch, rows, status>>
        /\ \/ dirty' = [dirty EXCEPT ![job.key] = 0] /\ pc' = "next"
           \/ dirty' = dirty /\ (pc' = "next" \/ UNCHANGED job)
    <3>1. job.key \in Keys /\ InFlight
      BY <1>3, JobType DEF FlushGuarded, FlushUnguarded, WriteOps, InFlight
    <3>2. Persisted => \/ dirty' = [dirty EXCEPT ![job.key] = 0] /\ pc' = "next"
                       \/ dirty' = dirty /\ pc' = "next"
      BY <3>1 DEF Persisted, TypeOK
    <3>. QED  BY <1>3, <3>1, <3>2 DEF FlushGuarded, FlushUnguarded, Persisted, memory
  <2>2. CacheCoherent'
    BY <2>1, QueueShrinks DEF LimitInv
  <2>3. runtime = "live" /\ (InFlight' => job'.ver > 0)
    BY <2>1 DEF LimitInv, InFlight, WriteOps
  <2>. QED  BY <2>1, <2>2, <2>3 DEF LimitInv, status
<1>4. CASE FlushStatusStart \/ FlushEnd
  BY <1>4 DEF FlushStatusStart, FlushEnd, LimitInv, CacheCoherent, InFlight, WriteOps,
              memory, status
<1>5. CASE FlushStatus
  <2>1. \A i \in StatusIds : /\ statusPending'[i] = statusPending[i] \/ statusPending'[i] = 0
                             /\ statusVersion'[i] = statusVersion[i]
    BY <1>5 DEF FlushStatus, TypeOK
  <2>2. UNCHANGED <<runtime, memory, pc, job, batch, rows>>
    BY <1>5 DEF FlushStatus
  <2>. QED  BY <2>1, <2>2 DEF LimitInv, CacheCoherent, InFlight, memory
<1>. QED  BY <1>1, <1>2, <1>3, <1>4, <1>5 DEF Flush

\* The rest: the clock, the database, failures, stops and starts.
LEMMA LimitRest ==
    ASSUME TypeOK, LimitInv,
           \/ (\E i \in StatusIds : EnqueueStatus(i)) \/ FlushFail \/ BackoffElapses
           \/ (\E k \in Keys : DbExpire(k)) \/ LateLands \/ Tick \/ StepBack
           \/ Prefetch \/ Stop \/ WarmRead \/ WarmDone \/ WarmFail \/ UNCHANGED vars
    PROVE  LimitInv'
<1>1. CASE \/ BackoffElapses \/ (\E k \in Keys : DbExpire(k)) \/ LateLands \/ Tick
           \/ StepBack \/ UNCHANGED vars
  <2>1. UNCHANGED <<runtime, approach, version, dirty, rows, pc, job, batch, statusPending,
                    statusVersion>>
    BY <1>1 DEF BackoffElapses, DbExpire, LateLands, Tick, StepBack, vars, memory, status, flush
  <2>. QED  BY <2>1 DEF LimitInv, CacheCoherent, InFlight
<1>2. ASSUME NEW i \in StatusIds, EnqueueStatus(i)  PROVE LimitInv'
  BY <1>2 DEF EnqueueStatus, LimitInv, CacheCoherent, InFlight, memory, flush, TypeOK
<1>3. CASE FlushFail
  BY <1>3 DEF FlushFail, LimitInv, CacheCoherent, InFlight, WriteOps, memory, status
<1>4. CASE Prefetch
  <2>1. /\ approach' = Without(approach, Expired(approach, dirty), NoDoc)
        /\ version' = Without(version, Expired(approach, dirty), 0)
        /\ UNCHANGED <<runtime, dirty, rows, pc, job, batch, statusPending, statusVersion>>
        /\ runtime = "live" /\ approach \in [Keys -> Doc \cup {NoDoc}]
    BY <1>4 DEF Prefetch, flush, status, TypeOK
  <2>2. CacheCoherent' /\ \A k \in Keys : version'[k] > 0 => approach'[k] # NoDoc
    BY <2>1, CacheShrinks DEF LimitInv, CacheCoherent
  <2>. QED  BY <2>1, <2>2 DEF LimitInv, InFlight
<1>5. CASE Stop
  <2>1. /\ Cached(approach') = {} /\ Queued(dirty') = {} /\ Cached(rows') = {}
        /\ \A k \in Keys : approach'[k] = NoDoc /\ version'[k] = 0 /\ dirty'[k] = 0
        /\ ~InFlight' /\ batch' = {}
        /\ \A i \in StatusIds : statusPending'[i] = 0
    BY <1>5 DEF Stop, Nothing, Zeros, Cached, Queued, InFlight, WriteOps
  <2>. QED  BY <2>1, FS_EmptySet, BoundsAssumption DEF LimitInv, CacheCoherent
<1>6. CASE WarmRead
  <2>1. PICK S \in SmallSubsets(Restorable, CacheMax) :
           rows' = [k \in Keys |-> IF k \in S THEN db[k] ELSE NoDoc]
    BY <1>6 DEF WarmRead
  <2>2. Cached(rows') \subseteq S /\ S \in SUBSET Keys
    BY <2>1 DEF Cached, SmallSubsets, Restorable
  <2>3. Cardinality(S) <= CacheMax
    <3>1. Cardinality(S) \in Nat
      BY <2>2, KeySets
    <3>. QED  BY <3>1, BoundsAssumption DEF SmallSubsets
  <2>4. Cardinality(Cached(rows')) <= CacheMax
    <3>1. Cardinality(Cached(rows')) <= Cardinality(S) /\ Cardinality(S) \in Nat
          /\ Cardinality(Cached(rows')) \in Nat
      BY <2>2, FewerKeys, KeySets
    <3>. QED  BY <2>3, <3>1, BoundsAssumption
  <2>5. runtime = "cold" /\ UNCHANGED <<approach, version, dirty, pc, job, batch,
                                        statusPending, statusVersion>>
    BY <1>6 DEF WarmRead, memory, flush, status
  <2>. QED  BY <2>4, <2>5 DEF LimitInv, CacheCoherent, InFlight
<1>7. CASE WarmDone
  <2>1. /\ approach' = Without(rows, Expired(rows, Zeros), NoDoc) /\ rows' = Nothing
        /\ runtime = "warming" /\ runtime' = "live"
        /\ UNCHANGED <<version, dirty, pc, job, batch, statusPending, statusVersion>>
    BY <1>7 DEF WarmDone, flush, status
  <2>2. Cached(approach') \subseteq Cached(rows) /\ Cached(rows) \in SUBSET Keys
        /\ Cached(rows') = {}
    BY <2>1 DEF Cached, Without, Nothing
  <2>3. Cardinality(Cached(approach')) <= CacheMax
    <3>1. Cardinality(Cached(approach')) <= Cardinality(Cached(rows))
          /\ Cardinality(Cached(rows)) \in Nat /\ Cardinality(Cached(approach')) \in Nat
      BY <2>2, FewerKeys, KeySets
    <3>. QED  BY <3>1, BoundsAssumption DEF LimitInv
  <2>4. Cardinality(Cached(rows')) <= CacheMax
    BY <2>2, FS_EmptySet, BoundsAssumption
  <2>5. \A k \in Keys : version[k] = 0 /\ dirty[k] = 0
    BY <2>1 DEF LimitInv
  <2>. QED  BY <2>1, <2>3, <2>4, <2>5 DEF LimitInv, CacheCoherent, InFlight
<1>8. CASE WarmFail
  <2>1. Cached(rows') = {}
    BY <1>8 DEF WarmFail, Nothing, Cached
  <2>. QED  BY <1>8, <2>1, FS_EmptySet, BoundsAssumption
            DEF WarmFail, LimitInv, CacheCoherent, InFlight, memory, flush, status
<1>. QED  BY <1>1, <1>2, <1>3, <1>4, <1>5, <1>6, <1>7, <1>8

\* Whatever the limits and the bounds, whatever is evicted, fails or comes late
\* and however the clock is set: the cache and the queue keep their limits and
\* stay coherent, a record that stays cached never becomes an older one, and a
\* status document leaves its queue only as it was written last
\* (_prune_states, _cache_state, _persist_status).
THEOREM LimitsHold == Spec => LimitsSound
<1>1. Init => LimitInv
  <2>. SUFFICES ASSUME Init  PROVE LimitInv
    OBVIOUS
  <2>1. Cached(approach) = {} /\ Queued(dirty) = {} /\ Cached(rows) = {}
    BY DEF Init, Cached, Queued, Nothing, Zeros
  <2>. QED  BY <2>1, FS_EmptySet, BoundsAssumption
            DEF Init, LimitInv, CacheCoherent, InFlight, WriteOps, Nothing, Zeros
<1>2. TypeOK /\ LimitInv /\ [Next]_vars => LimitInv'
  BY LimitUpdate, LimitFind, LimitFlush, LimitRest DEF Next, Flush
<1>3. LimitInv => CacheCoherent
  BY DEF LimitInv
<1>4. TypeOK /\ LimitInv /\ [Next]_vars =>
        [runtime = "live" /\ runtime' = "live" =>
            \A k \in Keys : approach[k] # NoDoc /\ approach'[k] # NoDoc
                                => ~Newer(approach[k], approach'[k])]_vars
  <2>. SUFFICES ASSUME TypeOK, LimitInv, [Next]_vars, runtime = "live", runtime' = "live",
                       NEW k \in Keys, approach[k] # NoDoc, approach'[k] # NoDoc
                PROVE  ~Newer(approach[k], approach'[k])
    OBVIOUS
  <2>1. CASE approach'[k] = approach[k]
    BY <2>1 DEF Newer, TypeOK, Doc
  <2>2. CASE \E x \in Keys, kind \in {"qualify", "hold", "end"} : ApplyUpdate(x, kind)
    BY <2>2, LimitUpdate
  <2>3. CASE FlushFind
    BY <2>3, LimitFind
  <2>4. CASE Flush /\ ~FlushFind
    BY <2>1, <2>4, LimitFlush
  <2>5. CASE Prefetch
    BY <2>1, <2>5 DEF Prefetch, Without
  <2>6. CASE \/ (\E i \in StatusIds : EnqueueStatus(i)) \/ FlushFail \/ BackoffElapses
             \/ (\E x \in Keys : DbExpire(x)) \/ LateLands \/ Tick \/ StepBack
             \/ Stop \/ WarmRead \/ WarmDone \/ WarmFail \/ UNCHANGED vars
    BY <2>1, <2>6 DEF EnqueueStatus, FlushFail, BackoffElapses, DbExpire, LateLands, Tick,
                      StepBack, Stop, WarmRead, WarmDone, WarmFail, vars, memory
  <2>. QED  BY <2>2, <2>3, <2>4, <2>5, <2>6 DEF Next
<1>5. TypeOK /\ LimitInv /\ [Next]_vars =>
        [\A i \in StatusIds :
            runtime = "live" /\ runtime' = "live" /\ statusPending'[i] # statusPending[i]
                => \/ statusPending'[i] = statusVersion'[i]
                   \/ <<i, statusVersion[i]>> \in statusBatch]_vars
  <2>. SUFFICES ASSUME TypeOK, LimitInv, [Next]_vars, NEW i \in StatusIds,
                       runtime = "live", runtime' = "live",
                       statusPending'[i] # statusPending[i]
                PROVE  \/ statusPending'[i] = statusVersion'[i]
                       \/ <<i, statusVersion[i]>> \in statusBatch
    OBVIOUS
  <2>1. CASE \E j \in StatusIds : EnqueueStatus(j)
    BY <2>1 DEF EnqueueStatus, TypeOK
  <2>2. CASE FlushStatus
    <3>1. PICK item \in statusBatch :
             statusPending' = [statusPending EXCEPT ![item[1]] = IF @ = item[2] THEN 0 ELSE @]
      BY <2>2 DEF FlushStatus
    <3>2. item = <<item[1], item[2]>> /\ item[1] \in StatusIds
      BY DEF TypeOK
    <3>3. i = item[1] /\ statusPending[i] = item[2] /\ statusPending[i] # 0
      BY <3>1, <3>2 DEF TypeOK
    <3>. QED  BY <3>2, <3>3 DEF LimitInv
  <2>3. CASE Stop
    BY <2>3 DEF Stop
  <2>4. UNCHANGED statusPending \/ (\E j \in StatusIds : EnqueueStatus(j)) \/ FlushStatus \/ Stop
    BY DEF Next, Flush, Prefetch, ApplyUpdate, FlushStart, FlushTake, FlushGuarded, FlushFind,
           FlushUnguarded, FlushStatusStart, FlushEnd, FlushFail, BackoffElapses, DbExpire,
           LateLands, Tick, StepBack, WarmRead, WarmDone, WarmFail, vars, status
  <2>. QED  BY <2>1, <2>2, <2>3, <2>4
<1>. QED
  BY <1>1, <1>2, <1>3, <1>4, <1>5, TypeCorrect, PTL
     DEF Spec, LimitsSound, MemoryNeverOlder, StatusUpdateKept

-----------------------------------------------------------------------------
(* The order of decisions. The copies of a record are those of memory, of  *)
(* the monitor's cycle, of the database, of a starting process and of the  *)
(* request in flight: they are dated by decisions that were taken, and     *)
(* none is ahead of the one it was made from.                              *)

Behind(d, e) == d.seq <= e.seq /\ d.at <= e.at
Dated(d) == d # NoDoc => 1 <= d.seq /\ d.seq <= seq /\ d.at <= now
Gone(d)  == d = NoDoc \/ d.exp <= now

OrderInv ==
    /\ \A k \in Keys : Dated(approach[k]) /\ Dated(cycle[k]) /\ Dated(db[k]) /\ Dated(rows[k])
    /\ \A k \in Keys : approach[k] # NoDoc /\ db[k] # NoDoc => Behind(db[k], approach[k])
    /\ DecisionRemembered
    /\ runtime # "live" => \A k \in Keys : approach[k] = NoDoc /\ cycle[k] = NoDoc
    /\ runtime = "live" => \A k \in Keys : approach[k] = NoDoc => Gone(db[k])
    /\ runtime = "warming" => \A k \in Keys : rows[k] = NoDoc => Gone(db[k])
    /\ InFlight => /\ approach[job.key] # NoDoc /\ Dated(job.doc)
                   /\ Behind(job.doc, approach[job.key])
                   /\ db[job.key] # NoDoc => Behind(db[job.key], job.doc)

\* What every lemma below assumes of the state before a step.
Settled == TypeOK /\ DurableInv /\ OrderInv

\* The types of the copies.
LEMMA CopyTypes ==
    ASSUME TypeOK
    PROVE  /\ now \in Nat /\ seq \in Nat
           /\ \A k \in Keys :
                 /\ approach[k] \in Doc \cup {NoDoc} /\ cycle[k] \in Doc \cup {NoDoc}
                 /\ db[k] \in Doc \cup {NoDoc} /\ rows[k] \in Doc \cup {NoDoc}
                 /\ dirty[k] \in Nat
           /\ \A d \in Doc : d.seq \in Nat /\ d.at \in Nat /\ d.exp \in Nat /\ d # NoDoc
  BY NoDocAssumption DEF TypeOK, Doc

\* A record that is pruned is over and stored as it is, if it is stored.
PrunedOnly(k) ==
    \/ approach'[k] = approach[k]
    \/ /\ approach'[k] = NoDoc /\ approach[k] # NoDoc
       /\ dirty[k] = 0 /\ approach[k].exp <= now

LEMMA PrefetchFacts ==
    ASSUME Settled, Prefetch
    PROVE  /\ \A k \in Keys : PrunedOnly(k) /\ cycle'[k] = approach'[k]
           /\ runtime = "live"
           /\ UNCHANGED <<runtime, dirty, flush, db, rows, now, seq>>
<1>1. approach' = Without(approach, Expired(approach, dirty), NoDoc) /\ cycle' = approach'
  BY DEF Prefetch
<1>2. ASSUME NEW k \in Keys  PROVE PrunedOnly(k)
  <2>1. CASE k \in Expired(approach, dirty)
    BY <1>1, <2>1 DEF PrunedOnly, Without, Expired, Inactive, Cached
  <2>2. CASE k \notin Expired(approach, dirty)
    BY <1>1, <2>2 DEF PrunedOnly, Without
  <2>. QED  BY <2>1, <2>2
<1>. QED  BY <1>1, <1>2 DEF Prefetch

\* A decision is in memory and queued at once.
LEMMA UpdateFacts ==
    ASSUME Roomy, Settled, NEW x \in Keys, NEW kind \in {"qualify", "hold", "end"},
           ApplyUpdate(x, kind)
    PROVE  /\ approach'[x] \in Doc /\ approach'[x].seq = seq + 1 /\ approach'[x].at = now
           /\ cycle'[x] = approach'[x] /\ dirty'[x] > 0
           /\ \A k \in Keys : k # x =>
                 /\ PrunedOnly(k) /\ cycle'[k] = cycle[k] /\ dirty'[k] = dirty[k]
           /\ runtime = "live" /\ seq' = seq + 1
           /\ UNCHANGED <<runtime, flush, db, rows, now>>
<1>. DEFINE existing == IF approach[x] # NoDoc THEN approach[x] ELSE cycle[x]
            doc == Decided(kind, existing)
            app == [approach EXCEPT ![x] = doc]
            ver == [version EXCEPT ![x] = version[x] + 1]
            dty == [dirty EXCEPT ![x] = version[x] + 1]
<1>0. TypeOK
  BY DEF Settled
<1>1. /\ IF Supersedes(x, doc)
         THEN Prune(app, ver, dty, x)
         ELSE UNCHANGED <<approach, version, dirty, drops>>
      /\ runtime = "live" /\ seq' = seq + 1 /\ cycle' = [cycle EXCEPT ![x] = doc]
      /\ UNCHANGED <<runtime, flush, db, rows, now>>
      /\ existing # NoDoc \/ kind = "qualify"
  BY DEF ApplyUpdate
<1>2. doc \in Doc /\ doc.seq = seq + 1 /\ doc.at = now
  <2>1. doc \in Doc
    BY <1>0, <1>1, DecidedType DEF TypeOK
  <2>. QED  BY <2>1 DEF Decided
<1>. HIDE DEF doc
<1>3. Supersedes(x, doc)
  BY <1>0, <1>2, CopyTypes DEF Supersedes, Newer, Settled, OrderInv, Dated
<1>4. /\ app \in [Keys -> Doc \cup {NoDoc}] /\ ver \in [Keys -> Nat]
      /\ dty \in [Keys -> Nat]
  BY <1>0, <1>2 DEF TypeOK
<1>5. approach' = Without(app, Expired(app, dty), NoDoc) /\ dirty' = dty
  BY <1>1, <1>3, <1>4, PruneRoomy
<1>6. dty[x] > 0 /\ x \notin Expired(app, dty)
  BY <1>0 DEF TypeOK, Expired
<1>7. approach'[x] = doc /\ dirty'[x] > 0 /\ cycle'[x] = doc
  BY <1>0, <1>1, <1>4, <1>5, <1>6 DEF Without, TypeOK
<1>8. ASSUME NEW k \in Keys, k # x
      PROVE  PrunedOnly(k) /\ cycle'[k] = cycle[k] /\ dirty'[k] = dirty[k]
  <2>1. app[k] = approach[k] /\ dty[k] = dirty[k] /\ cycle'[k] = cycle[k]
    BY <1>0, <1>1, <1>8 DEF TypeOK
  <2>2. CASE k \in Expired(app, dty)
    BY <1>5, <2>1, <2>2 DEF PrunedOnly, Without, Expired, Inactive, Cached
  <2>3. CASE k \notin Expired(app, dty)
    BY <1>5, <2>1, <2>3 DEF PrunedOnly, Without
  <2>. QED  BY <1>5, <2>1, <2>2, <2>3
<1>. QED  BY <1>1, <1>2, <1>7, <1>8

\* A write in flight changes the record of its key to what was written, and
\* only forward.
LEMMA WriteFacts ==
    ASSUME Settled, pc \in WriteOps, db' = Effect(pc, job.key, job.doc)
    PROVE  /\ job.key \in Keys /\ job.doc \in Doc /\ runtime = "live"
           /\ dirty[job.key] > 0 /\ approach[job.key] # NoDoc
           /\ \A k \in Keys : k # job.key => db'[k] = db[k]
           /\ db'[job.key] = db[job.key] \/ db'[job.key] = job.doc
<1>1. InFlight /\ TypeOK /\ DurableInv
  BY DEF InFlight, Settled
<1>2. /\ job.key \in Keys /\ job.doc \in Doc /\ runtime = "live"
      /\ dirty[job.key] > 0 /\ approach[job.key] # NoDoc
  BY <1>1, JobQueued
<1>. QED  BY <1>1, <1>2 DEF Effect, TypeOK

\* A record read back is never newer than the one in flight: nothing is adopted.
LEMMA FindFacts ==
    ASSUME Settled, FlushFind
    PROVE  /\ InFlight' /\ InFlight
           /\ UNCHANGED <<runtime, approach, version, dirty, cycle, job, db, rows, now, seq>>
<1>1. InFlight /\ TypeOK /\ DurableInv
  BY DEF InFlight, Settled, FlushFind
<1>2. job.key \in Keys /\ job.doc \in Doc
  BY <1>1, JobQueued
<1>3. db[job.key] # NoDoc => ~Newer(db[job.key], job.doc)
  BY <1>1, <1>2, CopyTypes DEF Settled, OrderInv, Behind, Newer
<1>. QED  BY <1>1, <1>3 DEF FlushFind, InFlight, WriteOps

\* With room for every key warm reads every record that may be restored.
LEMMA WarmReadFacts ==
    ASSUME Roomy, Settled, WarmRead
    PROVE  /\ \A k \in Keys : /\ rows'[k] = db[k] \/ rows'[k] = NoDoc
                              /\ rows'[k] = NoDoc => Gone(db[k])
           /\ runtime = "cold" /\ runtime' = "warming"
           /\ UNCHANGED <<memory, flush, db, now, seq>>
<1>1. PICK S \in SmallSubsets(Restorable, CacheMax) :
         rows' = [k \in Keys |-> IF k \in S THEN db[k] ELSE NoDoc]
  BY DEF WarmRead
<1>2. S = Restorable
  <2>1. Restorable \subseteq Keys /\ S \subseteq Restorable
    BY DEF SmallSubsets, Restorable
  <2>2. IsFiniteSet(Restorable) /\ Cardinality(Restorable) <= Cardinality(Keys)
    BY <2>1, KeysAssumption, FS_Subset
  <2>3. IsFiniteSet(S) /\ (Cardinality(S) = Cardinality(Restorable) => S = Restorable)
        /\ Cardinality(S) <= Cardinality(Restorable)
    BY <2>1, <2>2, FS_Subset
  <2>4. /\ Cardinality(S) \in Nat /\ Cardinality(Restorable) \in Nat
        /\ Cardinality(Keys) \in Nat
    BY <2>2, <2>3, KeysAssumption, FS_CardinalityType
  <2>5. Cardinality(S) = CacheMax \/ S = Restorable
    BY DEF SmallSubsets
  <2>. QED  BY <2>2, <2>3, <2>4, <2>5, BoundsAssumption DEF Roomy
<1>3. ASSUME NEW k \in Keys, rows'[k] = NoDoc  PROVE Gone(db[k])
  <2>1. k \notin Restorable \/ db[k] = NoDoc
    BY <1>1, <1>2, <1>3
  <2>. QED  BY <2>1, CopyTypes DEF Restorable, Gone, Settled
<1>4. \A k \in Keys : rows'[k] = db[k] \/ rows'[k] = NoDoc
  BY <1>1
<1>. QED  BY <1>3, <1>4 DEF WarmRead

\* A process publishes what it read, except what is over.
LEMMA WarmDoneFacts ==
    ASSUME Settled, WarmDone
    PROVE  /\ \A k \in Keys : \/ approach'[k] = rows[k]
                              \/ /\ approach'[k] = NoDoc /\ rows[k] # NoDoc
                                 /\ rows[k].exp <= now
           /\ \A k \in Keys : rows'[k] = NoDoc /\ dirty[k] = 0
           /\ \A k \in Keys : rows[k] # NoDoc =>
                 db[k] = rows[k] \/ (db[k] = NoDoc /\ rows[k].exp <= now)
           /\ runtime = "warming" /\ runtime' = "live" /\ ~InFlight /\ ~InFlight'
           /\ UNCHANGED <<dirty, cycle, job, db, now, seq>>
<1>1. /\ approach' = Without(rows, Expired(rows, Zeros), NoDoc)
      /\ rows' = Nothing /\ runtime = "warming" /\ runtime' = "live"
      /\ UNCHANGED <<dirty, cycle, pc, job, db, now, seq>>
  BY DEF WarmDone, flush
<1>2. WarmCoherent
  BY DEF Settled, DurableInv
<1>3. ASSUME NEW k \in Keys
      PROVE  \/ approach'[k] = rows[k]
             \/ approach'[k] = NoDoc /\ rows[k] # NoDoc /\ rows[k].exp <= now
  <2>1. CASE k \in Expired(rows, Zeros)
    BY <1>1, <2>1 DEF Without, Expired, Inactive, Cached
  <2>2. CASE k \notin Expired(rows, Zeros)
    BY <1>1, <2>2 DEF Without
  <2>. QED  BY <2>1, <2>2
<1>. QED  BY <1>1, <1>2, <1>3 DEF WarmCoherent, InFlight, Nothing, Cached

-----------------------------------------------------------------------------
(* The order of decisions is kept.                                         *)

LEMMA OrderInit == Init => OrderInv
  BY DEF Init, OrderInv, Dated, Gone, DecisionRemembered, InFlight, WriteOps, Nothing

\* Steps that leave the records, the clock and the process as they are, and
\* have no request in flight afterwards.
LEMMA OrderAside ==
    ASSUME Settled, UNCHANGED <<runtime, approach, cycle, db, rows, now, seq>>,
           ~InFlight' \/ UNCHANGED <<pc, job>>
    PROVE  OrderInv'
  BY DEF Settled, OrderInv, Dated, Gone, Behind, DecisionRemembered, InFlight

\* What prunes the cache forgets records that are gone from the database, too,
\* or are over there.
LEMMA OrderPruned ==
    ASSUME Settled, runtime = "live", NEW k \in Keys, PrunedOnly(k),
           UNCHANGED <<db, now>>
    PROVE  /\ approach'[k] = NoDoc => Gone(db[k])
           /\ InFlight => (k = job.key => approach'[k] = approach[k])
<1>1. dirty[k] = 0 /\ approach[k] # NoDoc =>
          db[k] = approach[k] \/ (db[k] = NoDoc /\ approach[k].exp <= now)
  BY DEF Settled, DurableInv, CleanIsDurable, Cached
<1>2. InFlight => dirty[job.key] > 0
  BY JobQueued DEF Settled
<1>. QED  BY <1>1, <1>2, CopyTypes DEF Settled, OrderInv, PrunedOnly, Gone

LEMMA OrderPrefetch == ASSUME Settled, Prefetch  PROVE OrderInv'
<1>1. /\ \A k \in Keys : PrunedOnly(k) /\ cycle'[k] = approach'[k]
      /\ runtime = "live" /\ UNCHANGED <<runtime, db, rows, now, seq, pc, job>>
  BY PrefetchFacts DEF flush
<1>2. \A k \in Keys : /\ approach'[k] = NoDoc => Gone(db[k])
                      /\ InFlight => (k = job.key => approach'[k] = approach[k])
  BY <1>1, OrderPruned
<1>3. \A k \in Keys : approach'[k] # NoDoc => approach'[k] = approach[k]
  BY <1>1 DEF PrunedOnly
<1>4. InFlight => job.key \in Keys
  BY JobQueued DEF Settled
<1>5. \A k \in Keys : Dated(approach[k])' /\ Dated(cycle[k])'
  BY <1>1, <1>3 DEF Settled, OrderInv, Dated
<1>6. \A k \in Keys : approach'[k] # NoDoc /\ db'[k] # NoDoc => Behind(db'[k], approach'[k])
  BY <1>1, <1>3 DEF Settled, OrderInv
<1>7. DecisionRemembered'
  <2>1. \A k \in Keys : approach'[k] # NoDoc => approach'[k].seq \in Nat
    BY <1>3, CopyTypes DEF Settled
  <2>. QED  BY <1>1, <2>1 DEF DecisionRemembered
<1>8. (InFlight => /\ approach[job.key] # NoDoc /\ Dated(job.doc)
                   /\ Behind(job.doc, approach[job.key])
                   /\ db[job.key] # NoDoc => Behind(db[job.key], job.doc))'
  BY <1>1, <1>2, <1>4 DEF Settled, OrderInv, InFlight, Dated
<1>. QED  BY <1>1, <1>2, <1>5, <1>6, <1>7, <1>8 DEF Settled, OrderInv, Dated, Gone

LEMMA OrderUpdate ==
    ASSUME Roomy, Settled, NEW x \in Keys, NEW kind \in {"qualify", "hold", "end"},
           ApplyUpdate(x, kind)
    PROVE  OrderInv'
<1>1. /\ approach'[x] \in Doc /\ approach'[x].seq = seq + 1 /\ approach'[x].at = now
      /\ cycle'[x] = approach'[x]
      /\ \A k \in Keys : k # x => PrunedOnly(k) /\ cycle'[k] = cycle[k]
      /\ runtime = "live" /\ seq' = seq + 1
      /\ UNCHANGED <<runtime, db, rows, now, pc, job>>
  BY UpdateFacts DEF flush
<1>2. TypeOK
  BY DEF Settled
<1>3. \A k \in Keys : k # x =>
          /\ approach'[k] = NoDoc => Gone(db[k])
          /\ InFlight => (k = job.key => approach'[k] = approach[k])
          /\ approach'[k] # NoDoc => approach'[k] = approach[k]
  BY <1>1, OrderPruned DEF PrunedOnly
<1>4. InFlight => job.key \in Keys /\ job.doc \in Doc
  BY JobQueued DEF Settled
<1>5. \A d \in Doc \cup {NoDoc} : Dated(d) => Dated(d)'
  BY <1>1, <1>2, CopyTypes DEF Dated
<1>6. \A d \in Doc : Dated(d) => Behind(d, approach'[x])
  BY <1>1, <1>2, CopyTypes DEF Dated, Behind
<1>7. \A k \in Keys : Dated(approach[k])' /\ Dated(cycle[k])' /\ Dated(db[k])' /\ Dated(rows[k])'
  <2>1. Dated(approach[x])' /\ Dated(cycle[x])'
    BY <1>1, <1>2, CopyTypes DEF Dated
  <2>2. ASSUME NEW k \in Keys
        PROVE  Dated(approach[k]) /\ Dated(cycle[k]) /\ Dated(db[k]) /\ Dated(rows[k])
    BY DEF Settled, OrderInv
  <2>3. ASSUME NEW k \in Keys  PROVE Dated(db[k])' /\ Dated(rows[k])'
    BY <1>1, <1>2, <2>2, CopyTypes DEF Dated
  <2>4. ASSUME NEW k \in Keys, k # x  PROVE Dated(approach[k])' /\ Dated(cycle[k])'
    BY <1>1, <1>2, <1>3, <2>2, <2>4, CopyTypes DEF Dated
  <2>. QED  BY <2>1, <2>3, <2>4
<1>8. \A k \in Keys : approach'[k] # NoDoc /\ db'[k] # NoDoc => Behind(db'[k], approach'[k])
  <2>1. db[x] # NoDoc => Behind(db[x], approach'[x])
    BY <1>2, <1>6, CopyTypes DEF Settled, OrderInv
  <2>. QED  BY <1>1, <1>3, <2>1 DEF Settled, OrderInv
<1>9. DecisionRemembered'
  <2>1. approach'[x].seq \in Nat
    BY <1>1, <1>2, CopyTypes
  <2>. QED  BY <1>1, <1>3, <2>1 DEF Settled, OrderInv, DecisionRemembered
<1>10. (InFlight => /\ approach[job.key] # NoDoc /\ Dated(job.doc)
                    /\ Behind(job.doc, approach[job.key])
                    /\ db[job.key] # NoDoc => Behind(db[job.key], job.doc))'
  <2>1. CASE InFlight
    <3>1. approach'[job.key] # NoDoc /\ Behind(job.doc, approach'[job.key])
      <4>1. CASE job.key = x
        BY <1>1, <1>2, <1>4, <1>6, <2>1, <4>1, CopyTypes DEF Settled, OrderInv
      <4>2. CASE job.key # x
        BY <1>3, <1>4, <2>1, <4>2 DEF Settled, OrderInv
      <4>. QED  BY <4>1, <4>2
    <3>2. Dated(job.doc) /\ (db[job.key] # NoDoc => Behind(db[job.key], job.doc))
      BY <2>1 DEF Settled, OrderInv
    <3>3. Dated(job.doc)'
      BY <1>1, <1>2, <1>4, <2>1, <3>2, CopyTypes DEF Dated
    <3>. QED  BY <1>1, <3>1, <3>2, <3>3
  <2>. QED  BY <1>1, <2>1 DEF InFlight
<1>11. runtime' = "live" => \A k \in Keys : approach'[k] = NoDoc => Gone(db[k])'
  BY <1>1, <1>2, <1>3, CopyTypes DEF Gone
<1>. QED  BY <1>1, <1>7, <1>8, <1>9, <1>10, <1>11 DEF OrderInv

\* A record of the database that is the one in flight or an unchanged one.
LEMMA OrderWritten ==
    ASSUME Settled, pc \in WriteOps, db' = Effect(pc, job.key, job.doc),
           UNCHANGED <<runtime, approach, cycle, rows, now, seq>>,
           ~InFlight' \/ (UNCHANGED job /\ db' = db)
    PROVE  OrderInv'
<1>1. /\ job.key \in Keys /\ job.doc \in Doc
      /\ \A k \in Keys : k # job.key => db'[k] = db[k]
      /\ db'[job.key] = db[job.key] \/ db'[job.key] = job.doc
      /\ runtime = "live" /\ InFlight
  BY WriteFacts DEF InFlight
<1>2. \A k \in Keys : Dated(db[k])'
  BY <1>1 DEF Settled, OrderInv, Dated
<1>3. \A k \in Keys : approach[k] # NoDoc /\ db'[k] # NoDoc => Behind(db'[k], approach[k])
  BY <1>1 DEF Settled, OrderInv
<1>4. \A k \in Keys : approach[k] = NoDoc => Gone(db[k])'
  BY <1>1 DEF Settled, OrderInv, Gone
<1>. QED  BY <1>1, <1>2, <1>3, <1>4 DEF Settled, OrderInv, Dated, DecisionRemembered, InFlight

LEMMA OrderFlush ==
    ASSUME Settled, Flush  PROVE OrderInv'
<1>1. CASE FlushStart \/ FlushStatusStart \/ FlushStatus \/ FlushEnd
  <2>1. ~InFlight' /\ UNCHANGED <<runtime, approach, cycle, db, rows, now, seq>>
    BY <1>1 DEF FlushStart, FlushStatusStart, FlushStatus, FlushEnd, InFlight, WriteOps,
                memory
  <2>. QED  BY <2>1, OrderAside
<1>2. CASE FlushTake
  <2>1. PICK item \in batch :
           IF approach[item[1]] = NoDoc THEN UNCHANGED <<pc, job>>
           ELSE pc' = "guarded" /\ job' = [key |-> item[1], ver |-> item[2],
                                          doc |-> approach[item[1]]]
    BY <1>2 DEF FlushTake
  <2>2. UNCHANGED <<runtime, approach, cycle, db, rows, now, seq>> /\ item[1] \in Keys
    BY <1>2 DEF FlushTake, Settled, TypeOK
  <2>3. CASE approach[item[1]] = NoDoc
    BY <2>1, <2>2, <2>3, OrderAside
  <2>4. CASE approach[item[1]] # NoDoc
    <3>1. job'.key = item[1] /\ job'.doc = approach[item[1]] /\ approach[item[1]] \in Doc
      BY <2>1, <2>2, <2>4, CopyTypes DEF Settled
    <3>2. Behind(job'.doc, approach[job'.key])
      BY <3>1, CopyTypes DEF Behind, Settled
    <3>. QED  BY <2>2, <2>4, <3>1, <3>2 DEF Settled, OrderInv, Dated, Gone, DecisionRemembered
  <2>. QED  BY <2>3, <2>4
<1>3. CASE FlushGuarded
  <2>1. pc = "guarded" /\ pc \in WriteOps /\ db' = Effect(pc, job.key, job.doc)
        /\ UNCHANGED <<runtime, approach, cycle, rows, now, seq>>
    BY <1>3 DEF FlushGuarded, Persisted, memory, WriteOps
  <2>2. CASE db'[job.key] = job.doc
    <3>1. ~InFlight'
      BY <1>3, <2>2 DEF FlushGuarded, Persisted, InFlight, WriteOps
    <3>. QED  BY <2>1, <3>1, OrderWritten
  <2>3. CASE db'[job.key] # job.doc
    <3>1. db' = db
      BY <2>1, <2>3, WriteFacts DEF Effect, Settled, TypeOK
    <3>2. UNCHANGED job
      BY <1>3, <2>3 DEF FlushGuarded
    <3>. QED  BY <2>1, <3>1, <3>2, OrderWritten
  <2>. QED  BY <2>2, <2>3
<1>4. CASE FlushFind
  <2>1. /\ InFlight' /\ InFlight
        /\ UNCHANGED <<runtime, approach, version, dirty, cycle, job, db, rows, now, seq>>
    BY <1>4, FindFacts
  <2>. QED  BY <2>1 DEF Settled, OrderInv, Dated, Gone, Behind, DecisionRemembered
<1>5. CASE FlushUnguarded
  <2>1. pc \in WriteOps /\ db' = Effect(pc, job.key, job.doc) /\ ~InFlight'
        /\ UNCHANGED <<runtime, approach, cycle, rows, now, seq>>
    BY <1>5 DEF FlushUnguarded, Persisted, InFlight, WriteOps
  <2>. QED  BY <2>1, OrderWritten
<1>. QED  BY <1>1, <1>2, <1>3, <1>4, <1>5 DEF Flush

\* An abandoned request took effect or not.
LEMMA OrphanedFacts ==
    ASSUME ~LateWrites, Orphaned
    PROVE  UNCHANGED db \/ (pc \in WriteOps /\ db' = Effect(pc, job.key, job.doc))
  BY DEF Orphaned

LEMMA OrderStop == ASSUME ~LateWrites, Settled, Stop  PROVE OrderInv'
<1>1. /\ \A k \in Keys : approach'[k] = NoDoc /\ cycle'[k] = NoDoc /\ rows'[k] = NoDoc
      /\ runtime' = "cold" /\ ~InFlight' /\ UNCHANGED <<now, seq>>
  BY DEF Stop, Nothing, InFlight, WriteOps
<1>2. \A k \in Keys : Dated(db[k])'
  <2>1. CASE UNCHANGED db
    BY <1>1, <2>1 DEF Settled, OrderInv, Dated
  <2>2. CASE pc \in WriteOps /\ db' = Effect(pc, job.key, job.doc)
    BY <1>1, <2>2, WriteFacts DEF Settled, OrderInv, Dated, InFlight
  <2>. QED  BY <2>1, <2>2, OrphanedFacts DEF Stop
<1>. QED  BY <1>1, <1>2 DEF OrderInv, Dated, DecisionRemembered

LEMMA OrderRest ==
    ASSUME Roomy, ~LateWrites, ~ClockStepsBack, Settled,
           \/ (\E i \in StatusIds : EnqueueStatus(i)) \/ FlushFail \/ BackoffElapses
           \/ (\E k \in Keys : DbExpire(k)) \/ LateLands \/ Tick \/ StepBack
           \/ WarmRead \/ WarmDone \/ WarmFail \/ UNCHANGED vars
    PROVE  OrderInv'
<1>1. CASE \/ BackoffElapses \/ (\E i \in StatusIds : EnqueueStatus(i)) \/ UNCHANGED vars
  <2>1. UNCHANGED <<runtime, approach, cycle, pc, job, db, rows, now, seq>>
    BY <1>1 DEF BackoffElapses, EnqueueStatus, vars, memory, flush
  <2>. QED  BY <2>1, OrderAside
<1>2. CASE FlushFail
  <2>1. ~InFlight' /\ UNCHANGED <<runtime, approach, cycle, rows, now, seq>>
    BY <1>2 DEF FlushFail, InFlight, WriteOps, memory
  <2>2. CASE UNCHANGED db
    BY <2>1, <2>2, OrderAside
  <2>3. CASE pc \in WriteOps /\ db' = Effect(pc, job.key, job.doc)
    BY <2>1, <2>3, OrderWritten
  <2>. QED  BY <1>2, <2>2, <2>3, OrphanedFacts DEF FlushFail
<1>3. ASSUME NEW x \in Keys, DbExpire(x)  PROVE OrderInv'
  <2>1. UNCHANGED <<runtime, approach, cycle, pc, job, rows, now, seq>>
    BY <1>3 DEF DbExpire, memory, flush
  <2>2. \A k \in Keys : db'[k] = db[k] \/ db'[k] = NoDoc
    BY <1>3 DEF DbExpire, Settled, TypeOK
  <2>3. InFlight => job.key \in Keys
    BY JobQueued DEF Settled
  <2>. QED  BY <2>1, <2>2, <2>3 DEF Settled, OrderInv, Dated, Gone, DecisionRemembered, InFlight
<1>4. CASE Tick
  <2>1. now' = now + 1 /\ UNCHANGED <<runtime, approach, cycle, pc, job, db, rows, seq>>
    BY <1>4 DEF Tick, memory, flush
  <2>2. TypeOK
    BY DEF Settled
  <2>3. \A d \in Doc \cup {NoDoc} : (Dated(d) => Dated(d)') /\ (Gone(d) => Gone(d)')
    BY <2>1, <2>2, CopyTypes DEF Dated, Gone
  <2>4. \A k \in Keys : Dated(approach[k])' /\ Dated(cycle[k])' /\ Dated(db[k])' /\ Dated(rows[k])'
    BY <2>1, <2>2, CopyTypes DEF Settled, OrderInv, Dated
  <2>5. InFlight => Dated(job.doc)'
    <3>1. InFlight => job.doc \in Doc /\ Dated(job.doc)
      BY JobQueued DEF Settled, OrderInv
    <3>. QED  BY <2>1, <2>2, <3>1, CopyTypes DEF Dated
  <2>6. \A k \in Keys : Gone(db[k]) => Gone(db[k])'
    BY <2>1, <2>2, CopyTypes DEF Gone
  <2>. QED  BY <2>1, <2>4, <2>5, <2>6 DEF Settled, OrderInv, DecisionRemembered, InFlight, Behind
<1>5. CASE WarmRead
  <2>1. /\ \A k \in Keys : /\ rows'[k] = db[k] \/ rows'[k] = NoDoc
                           /\ rows'[k] = NoDoc => Gone(db[k])
        /\ runtime = "cold" /\ runtime' = "warming"
        /\ UNCHANGED <<approach, cycle, pc, job, db, now, seq>>
    BY <1>5, WarmReadFacts DEF memory, flush
  <2>2. ~InFlight'
    BY <2>1 DEF Settled, DurableInv, WarmCoherent, InFlight
  <2>. QED  BY <2>1, <2>2 DEF Settled, OrderInv, Dated, Gone, DecisionRemembered
<1>6. CASE WarmDone
  <2>1. /\ \A k \in Keys : \/ approach'[k] = rows[k]
                           \/ approach'[k] = NoDoc /\ rows[k] # NoDoc /\ rows[k].exp <= now
        /\ \A k \in Keys : rows'[k] = NoDoc
        /\ \A k \in Keys : rows[k] # NoDoc =>
              db[k] = rows[k] \/ (db[k] = NoDoc /\ rows[k].exp <= now)
        /\ runtime = "warming" /\ runtime' = "live" /\ ~InFlight'
        /\ UNCHANGED <<cycle, db, now, seq>>
    BY <1>6, WarmDoneFacts
  <2>2. TypeOK /\ \A k \in Keys : cycle[k] = NoDoc
    BY <2>1 DEF Settled, OrderInv
  <2>3. \A k \in Keys : Dated(approach[k])' /\ Dated(cycle[k])' /\ Dated(db[k])' /\ Dated(rows[k])'
    BY <2>1, <2>2 DEF Settled, OrderInv, Dated
  <2>4. \A k \in Keys : approach'[k] # NoDoc /\ db[k] # NoDoc => Behind(db[k], approach'[k])
    BY <2>1, <2>2, CopyTypes DEF Behind
  <2>5. \A k \in Keys : approach'[k] = NoDoc => Gone(db[k])'
    BY <2>1 DEF Settled, OrderInv, Gone
  <2>. QED  BY <2>1, <2>2, <2>3, <2>4, <2>5 DEF OrderInv, DecisionRemembered
<1>7. CASE WarmFail
  <2>1. /\ runtime = "warming" /\ runtime' = "cold" /\ rows' = Nothing
        /\ UNCHANGED <<approach, cycle, pc, job, db, now, seq>>
    BY <1>7 DEF WarmFail, memory, flush
  <2>. QED  BY <2>1 DEF Settled, OrderInv, Dated, Gone, DecisionRemembered, InFlight, Nothing,
                        DurableInv, WarmCoherent
<1>8. ~LateLands /\ ~StepBack
  BY DEF LateLands, StepBack, Settled, DurableInv, UnfilteredMeetsNothing
<1>. QED  BY <1>1, <1>2, <1>3, <1>4, <1>5, <1>6, <1>7, <1>8

LEMMA OrderStep ==
    ASSUME Roomy, ~LateWrites, ~ClockStepsBack, Settled, [Next]_vars
    PROVE  OrderInv'
  BY OrderPrefetch, OrderUpdate, OrderFlush, OrderStop, OrderRest DEF Next

\* The decisions of a key are remembered in their order, for every set of keys
\* and every bound: no cached record is behind the monitor's copy of the cycle.
THEOREM DecisionsRemembered ==
    ASSUME Roomy, ~LateWrites, ~ClockStepsBack  PROVE Spec => []DecisionRemembered
<1>1. TypeOK /\ DurableInv /\ OrderInv /\ [Next]_vars => OrderInv'
  BY OrderStep DEF Settled
<1>2. OrderInv => DecisionRemembered
  BY DEF OrderInv
<1>. QED  BY <1>1, <1>2, OrderInit, DurableAlways, TypeCorrect, PTL DEF Spec

-----------------------------------------------------------------------------
(* Every step is a step of EncounterStore. What a key's latest and stored  *)
(* decision is:                                                            *)

LatestSeq(k) == SeqOf(Remembered(k))
StoredSeq(k) == SeqOf(db[k])

\* The steps of EncounterStore, in these terms.
Decides(k) ==
    /\ LatestSeq(k) = 0 => StoredSeq(k) = 0 \/ Over(db[k])
    /\ LatestSeq(k)' > LatestSeq(k) /\ LatestSeq(k)' > StoredSeq(k)
    /\ dirty'[k] # 0 /\ StoredSeq(k)' = StoredSeq(k)
Persists(k) ==
    /\ LatestSeq(k)' = LatestSeq(k)
    /\ StoredSeq(k) <= StoredSeq(k)' /\ StoredSeq(k)' <= LatestSeq(k)
    /\ dirty'[k] = 0 => dirty[k] = 0 \/ StoredSeq(k)' = LatestSeq(k)
Forgets(k) ==
    /\ dirty[k] = 0 /\ Over(Remembered(k))
    /\ LatestSeq(k)' = 0 /\ dirty'[k] = 0 /\ StoredSeq(k)' = StoredSeq(k)
Expires(k) ==
    /\ Over(db[k]) /\ StoredSeq(k)' = 0
    /\ LatestSeq(k)' = LatestSeq(k) /\ (dirty'[k] = 0 <=> dirty[k] = 0)
Loses(k) ==
    /\ LatestSeq(k)' = 0 /\ dirty'[k] = 0 /\ StoredSeq(k) <= StoredSeq(k)'
    /\ StoredSeq(k)' = StoredSeq(k) \/ StoredSeq(k)' <= LatestSeq(k)
Restores(k) ==
    /\ LatestSeq(k) = 0 /\ LatestSeq(k)' = StoredSeq(k)
    /\ dirty'[k] = 0 /\ StoredSeq(k)' = StoredSeq(k)
Keeps(k) ==
    /\ LatestSeq(k)' = LatestSeq(k) /\ StoredSeq(k)' = StoredSeq(k)
    /\ dirty'[k] = 0 <=> dirty[k] = 0

KeyStep(k) == \/ Decides(k) \/ Persists(k) \/ Forgets(k) \/ Expires(k)
              \/ Loses(k) \/ Restores(k) \/ Keeps(k)

LEMMA StoreStep ==
    ASSUME \A k \in Keys : KeyStep(k)  PROVE Store!Next
<1>. SUFFICES ASSUME NEW k \in Keys  PROVE Store!KeyNext(k)
  BY DEF Store!Next
<1>1. KeyStep(k)
  OBVIOUS
<1>. QED
  BY <1>1 DEF KeyStep, Decides, Persists, Forgets, Expires, Loses, Restores, Keeps,
         Store!KeyNext, Store!Decide, Store!Persist, Store!Forget, Store!Expire,
         Store!Lose, Store!Restore, Store!Unchanged, LatestSeq, StoredSeq

\* What is remembered and stored has a number, which is 0 for nothing.
LEMMA SeqType ==
    ASSUME Settled, NEW k \in Keys
    PROVE  /\ LatestSeq(k) \in Nat /\ StoredSeq(k) \in Nat
           /\ runtime = "live" => LatestSeq(k) = SeqOf(approach[k])
           /\ runtime = "warming" => LatestSeq(k) = SeqOf(rows[k])
           /\ runtime = "cold" => LatestSeq(k) = 0
           /\ StoredSeq(k) = 0 <=> db[k] = NoDoc
           /\ SeqOf(approach[k]) = 0 <=> approach[k] = NoDoc
           /\ SeqOf(rows[k]) = 0 <=> rows[k] = NoDoc
           /\ StoredSeq(k) <= seq /\ SeqOf(approach[k]) <= seq
<1>1. /\ Dated(approach[k]) /\ Dated(db[k]) /\ Dated(rows[k])
      /\ approach[k] \in Doc \cup {NoDoc} /\ db[k] \in Doc \cup {NoDoc}
      /\ rows[k] \in Doc \cup {NoDoc} /\ seq \in Nat
      /\ runtime \in {"cold", "warming", "live"}
  BY CopyTypes DEF Settled, OrderInv, TypeOK
<1>2. \A d \in Doc \cup {NoDoc} : Dated(d) =>
          SeqOf(d) \in Nat /\ (SeqOf(d) = 0 <=> d = NoDoc) /\ SeqOf(d) <= seq
  BY <1>1, CopyTypes DEF Dated, SeqOf, Settled
<1>. QED  BY <1>1, <1>2 DEF LatestSeq, StoredSeq, Remembered, SeqOf

LEMMA PrunedStep ==
    ASSUME Settled, NEW k \in Keys, PrunedOnly(k), runtime = "live",
           UNCHANGED <<runtime, db>>, dirty'[k] = dirty[k]
    PROVE  KeyStep(k)
<1>1. LatestSeq(k)' = SeqOf(approach'[k]) /\ StoredSeq(k)' = StoredSeq(k)
      /\ Remembered(k) = approach[k] /\ LatestSeq(k) = SeqOf(approach[k])
  BY DEF LatestSeq, StoredSeq, Remembered
<1>2. CASE approach'[k] = approach[k]
  BY <1>1, <1>2 DEF KeyStep, Keeps
<1>3. CASE /\ approach'[k] = NoDoc /\ approach[k] # NoDoc
           /\ dirty[k] = 0 /\ approach[k].exp <= now
  BY <1>1, <1>3 DEF KeyStep, Forgets, Over, SeqOf
<1>. QED  BY <1>2, <1>3 DEF PrunedOnly

\* A step that changes nothing of a key but time and the flush's position.
LEMMA IdleStep ==
    ASSUME UNCHANGED <<runtime, approach, rows, db, dirty>>, NEW k \in Keys
    PROVE  KeyStep(k)
  BY DEF KeyStep, Keeps, LatestSeq, StoredSeq, Remembered, SeqOf

\* A write of the flush in a running process.
LEMMA WriteStep ==
    ASSUME Settled, pc \in WriteOps, db' = Effect(pc, job.key, job.doc),
           UNCHANGED <<runtime, approach>>, NEW k \in Keys,
           k # job.key => dirty'[k] = dirty[k],
           dirty'[job.key] = dirty[job.key] \/
               (db'[job.key] = job.doc /\ version[job.key] = job.ver)
    PROVE  KeyStep(k)
<1>1. /\ job.key \in Keys /\ job.doc \in Doc /\ runtime = "live" /\ InFlight
      /\ \A j \in Keys : j # job.key => db'[j] = db[j]
      /\ db'[job.key] = db[job.key] \/ db'[job.key] = job.doc
  BY WriteFacts DEF InFlight
<1>2. LatestSeq(k)' = LatestSeq(k) /\ LatestSeq(k) = SeqOf(approach[k])
      /\ StoredSeq(k)' = SeqOf(db'[k])
  BY <1>1 DEF LatestSeq, StoredSeq, Remembered
<1>3. CASE k # job.key
  BY <1>1, <1>2, <1>3 DEF KeyStep, Keeps, StoredSeq
<1>4. CASE k = job.key
  <2>1. /\ approach[k] # NoDoc /\ Behind(job.doc, approach[k])
        /\ db[k] # NoDoc => Behind(db[k], job.doc)
        /\ approach[k] # NoDoc /\ db[k] # NoDoc => Behind(db[k], approach[k])
        /\ job.doc # NoDoc
    BY <1>1, <1>4, CopyTypes DEF Settled, OrderInv
  <2>2. SeqOf(db[k]) <= SeqOf(job.doc) /\ SeqOf(job.doc) <= SeqOf(approach[k])
        /\ SeqOf(db[k]) <= SeqOf(approach[k]) /\ StoredSeq(k) = SeqOf(db[k])
    BY <1>1, <2>1, SeqType, CopyTypes DEF SeqOf, Behind, Settled, StoredSeq
  <2>3. StoredSeq(k) <= StoredSeq(k)' /\ StoredSeq(k)' <= LatestSeq(k)
    BY <1>1, <1>2, <1>4, <2>2, SeqType
  <2>4. dirty'[k] = 0 => dirty[k] = 0 \/ StoredSeq(k)' = LatestSeq(k)
    <3>1. version[k] = job.ver => approach[k] = job.doc
      BY <1>1, <1>4 DEF Settled, DurableInv, FlushCoherent
    <3>. QED  BY <1>2, <1>4, <3>1
  <2>. QED  BY <1>2, <2>3, <2>4 DEF KeyStep, Persists
<1>. QED  BY <1>3, <1>4

LEMMA UpdateStep ==
    ASSUME Roomy, Settled, NEW x \in Keys, NEW kind \in {"qualify", "hold", "end"},
           ApplyUpdate(x, kind), NEW k \in Keys
    PROVE  KeyStep(k)
<1>1. /\ approach'[x] \in Doc /\ approach'[x].seq = seq + 1 /\ dirty'[x] > 0
      /\ \A j \in Keys : j # x => PrunedOnly(j) /\ dirty'[j] = dirty[j]
      /\ runtime = "live" /\ UNCHANGED <<runtime, db, now>>
  BY UpdateFacts
<1>2. CASE k # x
  BY <1>1, <1>2, PrunedStep
<1>3. CASE k = x
  <2>1. LatestSeq(k)' = seq + 1 /\ StoredSeq(k)' = StoredSeq(k)
    BY <1>1, <1>3, CopyTypes DEF LatestSeq, StoredSeq, Remembered, SeqOf, Settled
  <2>2. LatestSeq(k) <= seq /\ StoredSeq(k) <= seq /\ LatestSeq(k) \in Nat
        /\ StoredSeq(k) \in Nat /\ seq \in Nat
        /\ (LatestSeq(k) = 0 => approach[k] = NoDoc) /\ (StoredSeq(k) # 0 => db[k] # NoDoc)
    BY <1>1, SeqType, CopyTypes DEF Settled
  <2>3. LatestSeq(k) = 0 => StoredSeq(k) = 0 \/ Over(db[k])
    BY <1>1, <2>2 DEF Settled, OrderInv, Gone, Over
  <2>4. dirty'[k] # 0
    BY <1>1, <1>3
  <2>. QED  BY <2>1, <2>2, <2>3, <2>4 DEF KeyStep, Decides
<1>. QED  BY <1>2, <1>3

LEMMA FlushStep ==
    ASSUME Settled, Flush, NEW k \in Keys  PROVE KeyStep(k)
<1>1. CASE FlushStart \/ FlushStatusStart \/ FlushStatus \/ FlushEnd
  <2>1. UNCHANGED <<runtime, approach, rows, db, dirty>>
    BY <1>1 DEF FlushStart, FlushStatusStart, FlushStatus, FlushEnd, memory
  <2>. QED  BY <2>1, IdleStep
<1>2. CASE FlushTake
  <2>1. PICK item \in batch :
           approach[item[1]] # NoDoc => UNCHANGED dirty
    BY <1>2 DEF FlushTake
  <2>2. approach[item[1]] # NoDoc
    <3>1. item[1] \in Keys /\ item[2] \in Nat /\ 0 < item[2] /\ item[2] <= dirty[item[1]]
          /\ dirty[item[1]] \in Nat
      BY DEF Settled, DurableInv, FlushCoherent, TypeOK
    <3>2. dirty[item[1]] > 0
      BY <3>1
    <3>. QED  BY <3>1, <3>2 DEF Settled, DurableInv
  <2>3. UNCHANGED <<runtime, approach, rows, db, dirty>>
    BY <1>2, <2>1, <2>2 DEF FlushTake
  <2>. QED  BY <2>3, IdleStep
<1>3. CASE FlushGuarded
  <2>1. pc \in WriteOps /\ db' = Effect(pc, job.key, job.doc)
        /\ UNCHANGED <<runtime, approach, rows>>
    BY <1>3 DEF FlushGuarded, Persisted, memory, WriteOps
  <2>2. CASE db'[job.key] = job.doc
    <3>1. dirty' = [dirty EXCEPT ![job.key] = IF version[job.key] = job.ver THEN 0 ELSE @]
      BY <1>3, <2>2 DEF FlushGuarded, Persisted
    <3>2. job.key \in Keys /\ dirty \in [Keys -> Nat]
      BY <2>1, WriteFacts DEF Settled, TypeOK
    <3>. QED  BY <2>1, <2>2, <3>1, <3>2, WriteStep
  <2>3. CASE db'[job.key] # job.doc
    <3>1. UNCHANGED dirty
      BY <1>3, <2>3 DEF FlushGuarded, memory
    <3>. QED  BY <2>1, <3>1, WriteStep
  <2>. QED  BY <2>2, <2>3
<1>4. CASE FlushFind
  BY <1>4, FindFacts, IdleStep
<1>5. CASE FlushUnguarded
  <2>1. pc = "upsert" /\ pc \in WriteOps /\ db' = Effect(pc, job.key, job.doc)
        /\ UNCHANGED <<runtime, approach>>
        /\ dirty' = [dirty EXCEPT ![job.key] = IF version[job.key] = job.ver THEN 0 ELSE @]
    BY <1>5 DEF FlushUnguarded, Persisted, WriteOps, Settled, DurableInv,
                UnfilteredMeetsNothing
  <2>2. job.key \in Keys /\ dirty \in [Keys -> Nat] /\ db \in [Keys -> Doc \cup {NoDoc}]
    BY <2>1, WriteFacts DEF Settled, TypeOK
  <2>3. db'[job.key] = job.doc
    BY <2>1, <2>2 DEF Effect
  <2>. QED  BY <2>1, <2>2, <2>3, WriteStep
<1>. QED  BY <1>1, <1>2, <1>3, <1>4, <1>5 DEF Flush

LEMMA StopStep ==
    ASSUME ~LateWrites, Settled, Stop, NEW k \in Keys  PROVE KeyStep(k)
<1>1. dirty'[k] = 0 /\ runtime' = "cold" /\ LatestSeq(k)' = 0 /\ StoredSeq(k)' = SeqOf(db'[k])
  BY DEF Stop, Zeros, LatestSeq, StoredSeq, Remembered, SeqOf
<1>2. CASE db'[k] = db[k]
  BY <1>1, <1>2, SeqType DEF KeyStep, Loses, StoredSeq
<1>3. CASE db'[k] # db[k]
  <2>1. pc \in WriteOps /\ db' = Effect(pc, job.key, job.doc) /\ InFlight
    BY <1>3, OrphanedFacts DEF Stop, InFlight
  <2>2. k = job.key /\ db'[k] = job.doc /\ runtime = "live" /\ job.doc \in Doc
    BY <1>3, <2>1, WriteFacts
  <2>3. /\ approach[k] # NoDoc /\ Behind(job.doc, approach[k])
        /\ db[k] # NoDoc => Behind(db[k], job.doc)
        /\ job.doc # NoDoc
    BY <2>1, <2>2, CopyTypes DEF Settled, OrderInv
  <2>4. SeqOf(db[k]) <= SeqOf(job.doc) /\ SeqOf(job.doc) <= SeqOf(approach[k])
        /\ StoredSeq(k) = SeqOf(db[k]) /\ LatestSeq(k) = SeqOf(approach[k])
    BY <2>2, <2>3, SeqType, CopyTypes DEF SeqOf, Behind, Settled, StoredSeq
  <2>. QED  BY <1>1, <2>2, <2>4 DEF KeyStep, Loses
<1>. QED  BY <1>2, <1>3

LEMMA RestStep ==
    ASSUME Roomy, ~LateWrites, ~ClockStepsBack, Settled, NEW k \in Keys,
           \/ (\E i \in StatusIds : EnqueueStatus(i)) \/ FlushFail \/ BackoffElapses
           \/ (\E j \in Keys : DbExpire(j)) \/ LateLands \/ Tick \/ StepBack
           \/ WarmRead \/ WarmDone \/ WarmFail \/ UNCHANGED vars
    PROVE  KeyStep(k)
<1>1. CASE \/ BackoffElapses \/ (\E i \in StatusIds : EnqueueStatus(i)) \/ Tick
           \/ UNCHANGED vars
  <2>1. UNCHANGED <<runtime, approach, rows, db, dirty>>
    BY <1>1 DEF BackoffElapses, EnqueueStatus, Tick, vars, memory
  <2>. QED  BY <2>1, IdleStep
<1>2. CASE FlushFail
  <2>1. UNCHANGED <<runtime, approach, rows, dirty>>
    BY <1>2 DEF FlushFail, memory
  <2>2. CASE UNCHANGED db
    BY <2>1, <2>2, IdleStep
  <2>3. CASE pc \in WriteOps /\ db' = Effect(pc, job.key, job.doc)
    BY <2>1, <2>3, WriteStep
  <2>. QED  BY <1>2, <2>2, <2>3, OrphanedFacts DEF FlushFail
<1>3. ASSUME NEW x \in Keys, DbExpire(x)  PROVE KeyStep(k)
  <2>1. UNCHANGED <<runtime, approach, rows, dirty>> /\ db' = [db EXCEPT ![x] = NoDoc]
        /\ Over(db[x]) /\ db \in [Keys -> Doc \cup {NoDoc}]
    BY <1>3 DEF DbExpire, memory, Over, Settled, TypeOK
  <2>2. LatestSeq(k)' = LatestSeq(k)
    BY <2>1 DEF LatestSeq, Remembered
  <2>3. StoredSeq(k)' = IF k = x THEN 0 ELSE StoredSeq(k)
    BY <2>1 DEF StoredSeq, SeqOf
  <2>. QED  BY <2>1, <2>2, <2>3 DEF KeyStep, Keeps, Expires
<1>4. CASE WarmRead
  <2>1. /\ rows'[k] = db[k] \/ rows'[k] = NoDoc
        /\ runtime = "cold" /\ runtime' = "warming" /\ UNCHANGED <<db, dirty>>
    BY <1>4, WarmReadFacts DEF memory
  <2>2. dirty[k] = 0 /\ LatestSeq(k) = 0
    BY <2>1, SeqType DEF Settled, DurableInv, WarmCoherent
  <2>3. LatestSeq(k)' = SeqOf(rows'[k]) /\ StoredSeq(k)' = StoredSeq(k)
    BY <2>1 DEF LatestSeq, StoredSeq, Remembered
  <2>. QED  BY <2>1, <2>2, <2>3 DEF KeyStep, Keeps, Restores, StoredSeq, SeqOf
<1>5. CASE WarmDone
  <2>1. /\ \/ approach'[k] = rows[k]
           \/ approach'[k] = NoDoc /\ rows[k] # NoDoc /\ rows[k].exp <= now
        /\ dirty[k] = 0
        /\ runtime = "warming" /\ runtime' = "live" /\ UNCHANGED <<db, dirty>>
    BY <1>5, WarmDoneFacts
  <2>2. /\ LatestSeq(k)' = SeqOf(approach'[k]) /\ StoredSeq(k)' = StoredSeq(k)
        /\ LatestSeq(k) = SeqOf(rows[k]) /\ Remembered(k) = rows[k]
    BY <2>1 DEF LatestSeq, StoredSeq, Remembered
  <2>. QED  BY <2>1, <2>2 DEF KeyStep, Keeps, Forgets, Over, SeqOf
<1>6. CASE WarmFail
  <2>1. runtime = "warming" /\ runtime' = "cold" /\ UNCHANGED <<db, dirty>>
    BY <1>6 DEF WarmFail, memory
  <2>2. dirty[k] = 0
    BY <2>1 DEF Settled, DurableInv, WarmCoherent
  <2>3. LatestSeq(k)' = 0 /\ StoredSeq(k)' = StoredSeq(k)
    BY <2>1 DEF LatestSeq, StoredSeq, Remembered, SeqOf
  <2>. QED  BY <2>1, <2>2, <2>3, SeqType DEF KeyStep, Loses
<1>7. ~LateLands /\ ~StepBack
  BY DEF LateLands, StepBack, Settled, DurableInv, UnfilteredMeetsNothing
<1>. QED  BY <1>1, <1>2, <1>3, <1>4, <1>5, <1>6, <1>7

\* With room for every record, no late write and a clock that is not set back,
\* the runtime implements EncounterStore for every set of keys and every bound:
\* whatever is pruned, failed, stopped or restarted in between, each key goes
\* through decisions, writes, expiry, loss and restoration as it promises.
THEOREM StoreImplemented ==
    ASSUME Roomy, ~LateWrites, ~ClockStepsBack  PROVE Spec => StoreSpec
<1>1. Init => Store!Init
  <2>. SUFFICES ASSUME Init  PROVE Store!Init
    OBVIOUS
  <2>1. \A k \in Keys : SeqOf(Remembered(k)) = 0 /\ SeqOf(db[k]) = 0 /\ dirty[k] = 0
    BY DEF Init, Remembered, SeqOf, Nothing, Zeros
  <2>. QED  BY <2>1 DEF Store!Init
<1>2. Settled /\ [Next]_vars => [Store!Next]_(Store!vars)
  <2>. SUFFICES ASSUME Settled, [Next]_vars  PROVE Store!Next
    OBVIOUS
  <2>1. CASE Prefetch
    <3>1. \A k \in Keys : KeyStep(k)
      BY <2>1, PrefetchFacts, PrunedStep
    <3>. QED  BY <3>1, StoreStep
  <2>2. ASSUME NEW x \in Keys, NEW kind \in {"qualify", "hold", "end"}, ApplyUpdate(x, kind)
        PROVE  Store!Next
    BY <2>2, UpdateStep, StoreStep
  <2>3. CASE Flush
    BY <2>3, FlushStep, StoreStep
  <2>4. CASE Stop
    BY <2>4, StopStep, StoreStep
  <2>5. CASE \/ (\E i \in StatusIds : EnqueueStatus(i)) \/ FlushFail \/ BackoffElapses
             \/ (\E j \in Keys : DbExpire(j)) \/ LateLands \/ Tick \/ StepBack
             \/ WarmRead \/ WarmDone \/ WarmFail \/ UNCHANGED vars
    <3>1. \A k \in Keys : KeyStep(k)
      BY <2>5, RestStep
    <3>. QED  BY <3>1, StoreStep
  <2>. QED  BY <2>1, <2>2, <2>3, <2>4, <2>5 DEF Next
<1>3. TypeOK /\ DurableInv /\ OrderInv /\ [Next]_vars => OrderInv'
  BY OrderStep DEF Settled
<1>4. Spec => []Settled
  <2>1. TypeOK /\ DurableInv /\ OrderInv => Settled
    BY DEF Settled
  <2>. QED  BY <2>1, <1>3, OrderInit, DurableAlways, TypeCorrect, PTL DEF Spec
<1>. QED  BY <1>1, <1>2, <1>4, PTL DEF Spec, StoreSpec, Store!Spec
=============================================================================
