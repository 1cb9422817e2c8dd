----------------------------- MODULE StoresProofs -----------------------------
(***************************************************************************)
(* What is stored outlives what happens to it.  LocalDatabase implements   *)
(* DocumentStore, for every set of documents and calls and however many of *)
(* them are cancelled or killed: what the threads do to one connection     *)
(* between BEGIN and COMMIT takes effect at the COMMIT, once and as a      *)
(* whole, or never.  EvidenceSpool loses no evidence, and LegacyRetirement *)
(* no notification and no sample.                                          *)
(***************************************************************************)
EXTENDS LocalDatabase, FiniteSets, FiniteSetTheorems, TLAPS

CONSTANTS
  Events, Refused, Routine, Day(_), MaxBatch, SpoolFaults,
  Days, Notes, MaxSamples, MoveFaults

VARIABLES
  files, disk, writing, stored, rest, batch, phase, repository, spoolFaults,
  mongo, marker, at, cursor, days, notes, samples, moveFaults

Spool == INSTANCE EvidenceSpool WITH MaxFaults <- SpoolFaults, faults <- spoolFaults
Move == INSTANCE LegacyRetirement WITH MaxFaults <- MoveFaults, faults <- moveFaults

-----------------------------------------------------------------------------
(* The operators of the store. *)

Documents(d) == d \in [DOMAIN d -> Store!Doc] /\ DOMAIN d \subseteq Ids
\* What a call has still to write: documents, or their removal.
Pieces(w) == /\ DOMAIN w \subseteq Ids
             /\ \A i \in DOMAIN w : w[i] \in Store!Doc \cup {Store!Gone}

LEMMA GoneIsNoDocument ==
    ASSUME Store!StoreAssumption  PROVE Store!Gone \notin Store!Doc
  BY DEF Store!StoreAssumption, Store!Gone, Store!Doc

LEMMA LiveFacts ==
    ASSUME NEW d, NEW dead
    PROVE  /\ DOMAIN Store!Live(d, dead) = DOMAIN d \ dead
           /\ \A i \in DOMAIN d \ dead : Store!Live(d, dead)[i] = d[i]
  BY DEF Store!Live

\* What is in a collection after a call wrote w.
LEMMA WrittenFacts ==
    ASSUME NEW d, NEW w
    PROVE  /\ \A i : i \in DOMAIN Store!Written(d, w) <=>
                 \/ i \in DOMAIN w /\ w[i] # Store!Gone
                 \/ i \in DOMAIN d /\ i \notin DOMAIN w /\ d[i] # Store!Gone
           /\ \A i \in DOMAIN Store!Written(d, w) :
                 Store!Written(d, w)[i] = IF i \in DOMAIN w THEN w[i] ELSE d[i]
           /\ Store!Written(d, w) = [i \in DOMAIN Store!Written(d, w) |-> Store!Written(d, w)[i]]
<1>. DEFINE all == Store!Over(d, w)
<1>1. /\ DOMAIN all = DOMAIN d \cup DOMAIN w
      /\ \A i \in DOMAIN all : all[i] = IF i \in DOMAIN w THEN w[i] ELSE d[i]
  BY DEF Store!Over
<1>2. Store!Written(d, w) = [i \in {j \in DOMAIN all : all[j] # Store!Gone} |-> all[i]]
  BY DEF Store!Written
<1>. QED  BY <1>1, <1>2

\* A call writes documents or their removal, and only where there is a
\* document or room for one.
LEMMA WritesPieces ==
    ASSUME Store!StoreAssumption, NEW c \in Calls, NEW d, Documents(d),
           NEW free \in SUBSET Ids, NEW w \in Store!Writes(c, d, free)
    PROVE  Pieces(w) /\ w = [i \in DOMAIN w |-> w[i]]
<1>1. /\ Op[c] \in Store!Ops /\ Key[c] \in Keys
  BY DEF Store!StoreAssumption
<1>2. /\ Store!Fresh(c) \in Store!Doc /\ Store!Counted(Store!Fresh(c)) \in Store!Doc
      /\ \A i \in DOMAIN d : /\ d[i] \in Store!Doc /\ Store!Counted(d[i]) \in Store!Doc
                             /\ [Store!Counted(d[i]) EXCEPT !.key = Key[c]] \in Store!Doc
  <2>1. ASSUME NEW doc \in Store!Doc
        PROVE  Store!Counted(doc) \in Store!Doc
    BY DEF Store!Counted, Store!Doc
  <2>2. ASSUME NEW doc \in Store!Doc
        PROVE  [doc EXCEPT !.key = Key[c]] \in Store!Doc
    BY <1>1 DEF Store!Doc
  <2>3. Store!Fresh(c) \in Store!Doc
    BY <1>1 DEF Store!Fresh, Store!Doc
  <2>4. \A i \in DOMAIN d : d[i] \in Store!Doc
    BY DEF Documents
  <2>. QED  BY <2>1, <2>2, <2>3, <2>4
<1>3. Store!Found(c, d) \subseteq DOMAIN d /\ DOMAIN d \subseteq Ids
  BY DEF Store!Found, Documents
<1>4. CASE Op[c] = "find"
  BY <1>4 DEF Store!Writes, Store!Nothing, Pieces
<1>5. CASE Op[c] = "insert"
  BY <1>2, <1>5 DEF Store!Writes, Store!New, Pieces
<1>6. CASE Op[c] = "upsert"
  BY <1>2, <1>3, <1>6 DEF Store!Writes, Store!New, Pieces
<1>7. CASE Op[c] = "rename"
  BY <1>2, <1>3, <1>7 DEF Store!Writes, Pieces
<1>8. CASE Op[c] = "replace"
  BY <1>2, <1>3, <1>8 DEF Store!Writes, Store!New, Pieces
<1>9. CASE Op[c] = "delete"
  BY <1>3, <1>9 DEF Store!Writes, Pieces
<1>. QED  BY <1>1, <1>4, <1>5, <1>6, <1>7, <1>8, <1>9 DEF Store!Ops

-----------------------------------------------------------------------------
(* The invariant. *)

\* A thread between its BEGIN and its COMMIT.
Busy(c) == Op[c] # "find" /\ pc[c] \in {"reads", "writes"}

DatabaseTypes ==
    /\ Documents(saved) /\ Documents(rows)
    /\ open \in BOOLEAN /\ expired \subseteq Ids
    /\ pc \in [Calls -> {"waits", "starts", "reads", "writes"} \cup Ended]
    /\ DOMAIN todo = Calls

\* A transaction has one owner, whatever was cancelled.
OneOwner ==
    /\ open <=> \E c \in Calls : Busy(c)
    /\ \A c, e \in Calls : Busy(c) /\ Busy(e) => c = e
    /\ \A c \in Calls : pc[c] = "writes" => Op[c] # "find"

\* The connection has what is committed, less what has expired meanwhile.
Untouched(ids) ==
    /\ \A i \in ids : i \in DOMAIN rows => i \in DOMAIN saved /\ rows[i] = saved[i]
    /\ \A i \in ids : i \in DOMAIN saved => i \in DOMAIN rows \/ i \in expired
OutsideNothing == ~ open => rows = saved
ReadsSaved == \A c \in Calls : Busy(c) /\ pc[c] = "reads" => Untouched(Ids)

\* What is written of w is on the connection, unless it expired.
Wrote(i, w) ==
    /\ i \in DOMAIN rows => w[i] # Store!Gone /\ rows[i] = w[i]
    /\ i \notin DOMAIN rows => w[i] = Store!Gone \/ i \in expired
\* What the call may write where the documents of dead have vanished.
Writable(c, dead) ==
    Store!Writes(c, Store!Live(saved, dead), Store!Free(Store!Live(saved, dead)))
\* The call writes w over what was alive when it read, and still has a part to write.
Progress(c, dead, w) ==
    /\ w \in Writable(c, dead)
    /\ DOMAIN todo[c] \subseteq DOMAIN w
    /\ \A i \in DOMAIN todo[c] : todo[c][i] = w[i]
    /\ \A i \in DOMAIN w \ DOMAIN todo[c] : Wrote(i, w)
    /\ Untouched((Ids \ DOMAIN w) \cup DOMAIN todo[c])
    /\ \A i \in (Ids \ DOMAIN w) \cup DOMAIN todo[c] : i \in DOMAIN rows => i \notin dead
WritesWhole ==
    \A c \in Calls : pc[c] = "writes" =>
        \E dead \in SUBSET expired : \E w \in Writable(c, dead) : Progress(c, dead, w)

BothUnique == Store!Unique(saved) /\ Store!Unique(rows)

Transactional ==
    DatabaseTypes /\ OneOwner /\ OutsideNothing /\ ReadsSaved /\ WritesWhole /\ BothUnique

-----------------------------------------------------------------------------
(* What a step may do beside a transaction: documents expire and vanish. *)

Fades ==
    /\ saved' = saved
    /\ expired \subseteq expired' /\ expired' \ expired \subseteq DOMAIN saved
    /\ \A i \in DOMAIN rows' : i \in DOMAIN rows /\ rows'[i] = rows[i]
    /\ \A i \in DOMAIN rows : i \in DOMAIN rows' \/ i \in expired'

\* What a call may write stays what it was: only documents it read expire.
LEMMA WritableKept ==
    ASSUME Fades, NEW c \in Calls, NEW dead \in SUBSET expired
    PROVE  Writable(c, dead)' = Writable(c, dead)
<1>. DEFINE alive == Store!Live(saved, dead)
<1>1. alive' = alive
  BY DEF Fades, Store!Live
<1>2. DOMAIN alive = DOMAIN saved \ dead
  BY DEF Store!Live
<1>3. DOMAIN alive \cup expired' = DOMAIN alive \cup expired
  BY <1>2 DEF Fades
<1>4. Store!Free(alive)' = Store!Free(alive)
  BY <1>1, <1>3 DEF Store!Free
<1>. QED  BY <1>1, <1>4 DEF Writable

LEMMA UntouchedKept ==
    ASSUME Fades, NEW ids, Untouched(ids)
    PROVE  Untouched(ids)'
  BY DEF Fades, Untouched

LEMMA WritesKept ==
    ASSUME DatabaseTypes, WritesWhole, Fades,
           \A e \in Calls : pc'[e] = "writes" => pc[e] = "writes" /\ todo'[e] = todo[e]
    PROVE  WritesWhole'
<1>. SUFFICES ASSUME NEW c \in Calls, pc'[c] = "writes"
              PROVE  (\E dead \in SUBSET expired : \E w \in Writable(c, dead) :
                         Progress(c, dead, w))'
  BY DEF WritesWhole
<1>0. PICK dead \in SUBSET expired : \E w \in Writable(c, dead) : Progress(c, dead, w)
  BY DEF WritesWhole
<1>1. PICK w \in Writable(c, dead) : Progress(c, dead, w)
  BY <1>0
<1>2. dead \in SUBSET expired' /\ w \in Writable(c, dead)'
  BY <1>1, WritableKept DEF Fades
<1>3. Untouched((Ids \ DOMAIN w) \cup DOMAIN todo[c])'
  <2>1. Untouched((Ids \ DOMAIN w) \cup DOMAIN todo[c])
    BY <1>1 DEF Progress
  <2>2. todo'[c] = todo[c]
    OBVIOUS
  <2>. QED  BY <2>1, <2>2 DEF Fades, Untouched
<1>4. \A i \in DOMAIN w \ DOMAIN todo[c] : Wrote(i, w)'
  BY <1>1 DEF Progress, Wrote, Fades
<1>5. Progress(c, dead, w)'
  BY <1>1, <1>2, <1>3, <1>4 DEF Progress, Fades
<1>. QED  BY <1>2, <1>5

-----------------------------------------------------------------------------
(* One lemma per action. *)

LEMMA InitTransactional ==
    ASSUME Init  PROVE Transactional
<1>1. Documents(Store!Nothing) /\ DOMAIN Store!Nothing = {}
  BY DEF Documents, Store!Nothing
<1>2. DatabaseTypes /\ OneOwner
  BY <1>1 DEF Init, DatabaseTypes, OneOwner, Busy
<1>3. OutsideNothing /\ ReadsSaved /\ WritesWhole /\ BothUnique
  BY <1>1 DEF Init, OutsideNothing, ReadsSaved, Busy, WritesWhole, BothUnique, Store!Unique
<1>. QED  BY <1>2, <1>3 DEF Transactional

\* Where the threads are and what is stored change in different steps.
LEMMA QuietKeeps ==
    ASSUME Transactional, UNCHANGED <<saved, rows, open, expired, todo>>,
           pc' \in [Calls -> {"waits", "starts", "reads", "writes"} \cup Ended],
           \A e \in Calls : pc'[e] = pc[e] \/ (~ Busy(e) /\ pc'[e] \notin {"reads", "writes"})
    PROVE  Transactional'
<1>1. Fades
  BY DEF Fades
<1>2. \A e \in Calls : /\ Busy(e)' <=> Busy(e)
                       /\ pc'[e] \in {"reads", "writes"} => pc[e] = pc'[e]
  BY DEF Busy
<1>3. DatabaseTypes' /\ OutsideNothing' /\ BothUnique'
  BY DEF Transactional, DatabaseTypes, Documents, OutsideNothing, BothUnique, Store!Unique
<1>4. OneOwner'
  BY <1>2 DEF Transactional, OneOwner
<1>5. ReadsSaved'
  BY <1>1, <1>2, UntouchedKept DEF Transactional, ReadsSaved
<1>6. WritesWhole'
  BY <1>1, <1>2, WritesKept DEF Transactional
<1>. QED  BY <1>3, <1>4, <1>5, <1>6 DEF Transactional

LEMMA SubmitKeeps ==
    ASSUME Transactional, NEW c \in Calls, Submit(c)  PROVE Transactional'
<1>0. DatabaseTypes
  BY DEF Transactional
<1>1. /\ UNCHANGED <<saved, rows, open, expired, todo>>
      /\ pc[c] = "waits" /\ pc' = [pc EXCEPT ![c] = "starts"]
  BY DEF Submit
<1>2. /\ pc' \in [Calls -> {"waits", "starts", "reads", "writes"} \cup Ended]
      /\ \A e \in Calls : pc'[e] = pc[e] \/ (~ Busy(e) /\ pc'[e] \notin {"reads", "writes"})
  BY <1>0, <1>1 DEF DatabaseTypes, Busy
<1>. QED  BY <1>1, <1>2, QuietKeeps

LEMMA CancelKeeps ==
    ASSUME Transactional, NEW c \in Calls, Cancel(c)  PROVE Transactional'
<1>0. DatabaseTypes
  BY DEF Transactional
<1>1. /\ UNCHANGED <<saved, rows, open, expired, todo>>
      /\ pc' = pc \/ (pc[c] = "starts" /\ pc' = [pc EXCEPT ![c] = "failed"])
  BY DEF Cancel
<1>2. /\ pc' \in [Calls -> {"waits", "starts", "reads", "writes"} \cup Ended]
      /\ \A e \in Calls : pc'[e] = pc[e] \/ (~ Busy(e) /\ pc'[e] \notin {"reads", "writes"})
  BY <1>0, <1>1 DEF DatabaseTypes, Busy, Ended
<1>. QED  BY <1>1, <1>2, QuietKeeps

LEMMA BeginKeeps ==
    ASSUME Transactional, NEW c \in Calls, Begin(c)  PROVE Transactional'
<1>0. DatabaseTypes /\ pc[c] = "starts" /\ c \in Calls
  BY DEF Transactional, Begin
<1>1. CASE Op[c] # "find" /\ open
  <2>1. /\ UNCHANGED <<saved, rows, open, expired, todo>>
        /\ pc' = [pc EXCEPT ![c] = "failed"]
    BY <1>1 DEF Begin, BeginWrite, Goes
  <2>2. /\ pc' \in [Calls -> {"waits", "starts", "reads", "writes"} \cup Ended]
        /\ \A e \in Calls : pc'[e] = pc[e] \/ (~ Busy(e) /\ pc'[e] \notin {"reads", "writes"})
    BY <1>0, <2>1 DEF DatabaseTypes, Busy, Ended
  <2>. QED  BY <2>1, <2>2, QuietKeeps
<1>2. CASE Op[c] # "find" /\ ~ open
  <2>1. /\ pc' = [pc EXCEPT ![c] = "reads"] /\ open' = TRUE
        /\ UNCHANGED <<saved, rows, expired, todo>>
    BY <1>2 DEF Begin, BeginWrite, Goes
  <2>2. Fades
    BY <2>1 DEF Fades
  <2>3. \A e \in Calls : ~ Busy(e)
    BY <1>2 DEF Transactional, OneOwner
  <2>4. \A e \in Calls : Busy(e)' <=> e = c
    BY <1>0, <1>2, <2>1, <2>3 DEF Busy, DatabaseTypes
  <2>5. DatabaseTypes' /\ OutsideNothing' /\ BothUnique'
    BY <1>0, <2>1 DEF Transactional, DatabaseTypes, Documents, OutsideNothing, BothUnique,
                      Store!Unique
  <2>6. OneOwner'
    BY <1>0, <1>2, <2>1, <2>4 DEF Transactional, OneOwner, DatabaseTypes
  <2>7. ReadsSaved'
    BY <1>2, <2>1, <2>4 DEF Transactional, OutsideNothing, ReadsSaved, Untouched
  <2>8. WritesWhole'
    BY <1>0, <2>1, <2>2, WritesKept DEF Transactional, DatabaseTypes
  <2>. QED  BY <2>5, <2>6, <2>7, <2>8 DEF Transactional
<1>3. CASE Op[c] = "find"
  <2>1. /\ pc' = [pc EXCEPT ![c] = "reads"]
        /\ UNCHANGED <<saved, rows, open, expired, todo>>
    BY <1>3 DEF Begin, Goes
  <2>2. Fades
    BY <2>1 DEF Fades
  <2>3. \A e \in Calls : Busy(e)' <=> Busy(e)
    BY <1>0, <1>3, <2>1 DEF Busy, DatabaseTypes
  <2>4. DatabaseTypes' /\ OutsideNothing' /\ BothUnique'
    BY <1>0, <2>1 DEF Transactional, DatabaseTypes, Documents, OutsideNothing, BothUnique,
                      Store!Unique
  <2>5. OneOwner'
    BY <1>0, <2>1, <2>3 DEF Transactional, OneOwner, DatabaseTypes
  <2>6. ReadsSaved'
    BY <1>0, <1>3, <2>1, <2>2, UntouchedKept DEF Transactional, ReadsSaved, Busy, DatabaseTypes
  <2>7. WritesWhole'
    BY <1>0, <2>1, <2>2, WritesKept DEF Transactional, DatabaseTypes
  <2>. QED  BY <2>4, <2>5, <2>6, <2>7 DEF Transactional
<1>. QED  BY <1>1, <1>2, <1>3

LEMMA CrashKeeps ==
    ASSUME Transactional, Crash  PROVE Transactional'
<1>1. /\ UNCHANGED <<saved, expired>> /\ rows' = saved /\ open' = FALSE
      /\ todo' = [e \in Calls |-> Store!Nothing]
      /\ pc' = [e \in Calls |-> IF pc[e] \in {"starts", "reads", "writes"}
                                 THEN "failed" ELSE pc[e]]
  BY DEF Crash
<1>2. \A e \in Calls : pc'[e] \notin {"reads", "writes"}
  BY <1>1
<1>3. DatabaseTypes' /\ OutsideNothing' /\ BothUnique'
  BY <1>1 DEF Transactional, DatabaseTypes, Documents, OutsideNothing, BothUnique,
              Store!Unique, Ended
<1>4. OneOwner' /\ ReadsSaved' /\ WritesWhole'
  BY <1>1, <1>2 DEF OneOwner, ReadsSaved, WritesWhole, Busy
<1>. QED  BY <1>3, <1>4 DEF Transactional

LEMMA ExpireKeeps ==
    ASSUME Transactional, NEW i \in Ids, Expire(i)  PROVE Transactional'
<1>1. Fades /\ UNCHANGED <<saved, rows, open, pc, todo>> /\ expired' = expired \cup {i}
  BY DEF Expire, Fades
<1>2. DatabaseTypes' /\ OutsideNothing' /\ BothUnique' /\ OneOwner'
  BY <1>1 DEF Transactional, DatabaseTypes, Documents, OutsideNothing, BothUnique,
              Store!Unique, OneOwner, Busy
<1>3. ReadsSaved'
  BY <1>1, UntouchedKept DEF Transactional, ReadsSaved, Busy
<1>4. WritesWhole'
  BY <1>1, WritesKept DEF Transactional
<1>. QED  BY <1>2, <1>3, <1>4 DEF Transactional

\* The end of a transaction, whichever way, leaves no owner behind.
LEMMA NobodyLeft ==
    ASSUME Transactional, NEW c \in Calls, Busy(c), NEW where \in Ended, Goes(c, where)
    PROVE  /\ \A e \in Calls : ~ Busy(e)' /\ pc'[e] # "writes"
           /\ pc' \in [Calls -> {"waits", "starts", "reads", "writes"} \cup Ended]
<1>1. /\ pc \in [Calls -> {"waits", "starts", "reads", "writes"} \cup Ended]
      /\ \A e \in Calls : Busy(e) => e = c
      /\ \A e \in Calls : pc[e] = "writes" => Busy(e)
  BY DEF Transactional, DatabaseTypes, OneOwner, Busy
<1>2. /\ pc' = [pc EXCEPT ![c] = where]
      /\ where \notin {"reads", "writes"}
  BY DEF Goes, Ended
<1>. QED  BY <1>1, <1>2 DEF Busy

\* Of what is unique, a part is.
LEMMA LivePart ==
    ASSUME NEW d, NEW dead, Documents(d), Store!Unique(d)
    PROVE  Documents(Store!Live(d, dead)) /\ Store!Unique(Store!Live(d, dead))
  BY DEF Documents, Store!Unique, Store!Live

LEMMA FindKeeps ==
    ASSUME Transactional, NEW c \in Calls, Read(c), Op[c] = "find"
    PROVE  Transactional'
<1>. DEFINE alive == Store!Live(rows, expired)
<1>0. DatabaseTypes /\ pc[c] = "reads"
  BY DEF Transactional, Read
<1>1. /\ rows' = alive /\ saved' = IF open THEN saved ELSE alive
      /\ pc' = [pc EXCEPT ![c] = "done"] /\ UNCHANGED <<open, expired, todo>>
  BY DEF Read, Execute, Goes
<1>2. \A e \in Calls : /\ Busy(e)' <=> Busy(e)
                       /\ pc'[e] \in {"reads", "writes"} => pc[e] = pc'[e]
  BY <1>0, <1>1 DEF Busy, DatabaseTypes
<1>3. Documents(alive) /\ Store!Unique(alive)
  BY LivePart DEF Transactional, DatabaseTypes, BothUnique
<1>4. DatabaseTypes'
  BY <1>0, <1>1, <1>3 DEF DatabaseTypes, Ended, Documents
<1>5. BothUnique'
  BY <1>1, <1>3 DEF Transactional, BothUnique, Store!Unique
<1>6. OneOwner'
  BY <1>1, <1>2 DEF Transactional, OneOwner
<1>7. OutsideNothing'
  BY <1>1 DEF OutsideNothing
<1>8. CASE open
  <2>1. Fades
    BY <1>1, <1>8 DEF Fades, Store!Live
  <2>2. ReadsSaved'
    BY <1>2, <2>1, UntouchedKept DEF Transactional, ReadsSaved
  <2>3. WritesWhole'
    BY <1>1, <1>2, <2>1, WritesKept DEF Transactional
  <2>. QED  BY <1>4, <1>5, <1>6, <1>7, <2>2, <2>3 DEF Transactional
<1>9. CASE ~ open
  <2>1. \A e \in Calls : ~ Busy(e)' /\ pc'[e] # "writes"
    BY <1>2, <1>9 DEF Transactional, OneOwner, Busy
  <2>2. ReadsSaved' /\ WritesWhole'
    BY <2>1 DEF ReadsSaved, WritesWhole
  <2>. QED  BY <1>4, <1>5, <1>6, <1>7, <2>2 DEF Transactional
<1>. QED  BY <1>8, <1>9

\* A call reads what is committed and alive.
LEMMA ReadsCommitted ==
    ASSUME Transactional, NEW c \in Calls, Busy(c), pc[c] = "reads"
    PROVE  Store!Live(rows, expired) = Store!Live(saved, expired)
<1>1. Untouched(Ids) /\ DOMAIN rows \subseteq Ids /\ DOMAIN saved \subseteq Ids
  BY DEF Transactional, ReadsSaved, DatabaseTypes, Documents
<1>2. DOMAIN rows \ expired = DOMAIN saved \ expired
  BY <1>1 DEF Untouched
<1>3. \A i \in DOMAIN rows \ expired : rows[i] = saved[i]
  BY <1>1 DEF Untouched
<1>. QED  BY <1>2, <1>3 DEF Store!Live

LEMMA ReadKeeps ==
    ASSUME Store!StoreAssumption, Transactional, NEW c \in Calls, Read(c), Op[c] # "find"
    PROVE  Transactional'
<1>. DEFINE alive == Store!Live(rows, expired)
<1>0. DatabaseTypes /\ pc[c] = "reads" /\ Busy(c) /\ open
  BY DEF Transactional, Read, Busy, OneOwner
<1>1. PICK w \in Store!Writes(c, alive, Store!Free(alive)) :
        /\ rows' = alive /\ saved' = saved
        /\ pc' = [pc EXCEPT ![c] = "writes"] /\ todo' = [todo EXCEPT ![c] = w]
        /\ UNCHANGED <<open, expired>>
  BY <1>0 DEF Read, Execute, Goes
<1>2. \A e \in Calls : /\ Busy(e)' <=> e = c
                       /\ pc'[e] = "writes" => e = c
                       /\ ~ (Busy(e)' /\ pc'[e] = "reads")
  BY <1>0, <1>1 DEF Transactional, OneOwner, Busy, DatabaseTypes
<1>3. Documents(alive) /\ Store!Unique(alive)
  BY LivePart DEF Transactional, DatabaseTypes, BothUnique
<1>4. DatabaseTypes' /\ BothUnique'
  BY <1>0, <1>1, <1>3 DEF Transactional, DatabaseTypes, Documents, BothUnique, Store!Unique
<1>5. OneOwner' /\ OutsideNothing' /\ ReadsSaved'
  BY <1>0, <1>1, <1>2 DEF OneOwner, OutsideNothing, ReadsSaved
<1>6. alive = Store!Live(saved, expired)
  BY <1>0, ReadsCommitted
<1>7. w \in Writable(c, expired)'
  BY <1>1, <1>6 DEF Writable, Store!Live, Store!Free
<1>8. todo'[c] = w
  BY <1>0, <1>1 DEF DatabaseTypes
<1>9. Untouched(Ids)
  BY <1>0 DEF Transactional, ReadsSaved
<1>10. DOMAIN w \subseteq Ids
  <2>1. Store!Free(alive) \in SUBSET Ids
    BY DEF Store!Free
  <2>. QED  BY <1>1, <1>3, <2>1, WritesPieces DEF Pieces
<1>11. Progress(c, expired, w)'
  <2>1. Untouched((Ids \ DOMAIN w) \cup DOMAIN todo[c])'
    BY <1>1, <1>8, <1>9, <1>10 DEF Untouched, Store!Live
  <2>2. \A i \in DOMAIN rows' : i \notin expired
    BY <1>1 DEF Store!Live
  <2>. QED  BY <1>1, <1>7, <1>8, <2>1, <2>2 DEF Progress
<1>12. WritesWhole'
  BY <1>1, <1>2, <1>7, <1>11 DEF WritesWhole
<1>. QED  BY <1>4, <1>5, <1>12 DEF Transactional

\* A piece that is written changes its document only.
LEMMA OnePiece ==
    ASSUME Store!StoreAssumption, Documents(rows), NEW i \in Ids,
           NEW doc \in Store!Doc \cup {Store!Gone}
    PROVE  LET d == Store!Written(rows, [j \in {i} |-> doc])
           IN  /\ Documents(d)
               /\ i \in DOMAIN d <=> doc # Store!Gone
               /\ i \in DOMAIN d => d[i] = doc
               /\ \A j : j # i => /\ j \in DOMAIN d <=> j \in DOMAIN rows
                                  /\ j \in DOMAIN d => d[j] = rows[j]
<1>. DEFINE w == [j \in {i} |-> doc]
            d == Store!Written(rows, w)
<1>1. /\ \A j : j \in DOMAIN d <=> \/ j \in DOMAIN w /\ w[j] # Store!Gone
                                   \/ j \in DOMAIN rows /\ j \notin DOMAIN w /\ rows[j] # Store!Gone
      /\ \A j \in DOMAIN d : d[j] = IF j \in DOMAIN w THEN w[j] ELSE rows[j]
      /\ d = [j \in DOMAIN d |-> d[j]]
  BY WrittenFacts
<1>2. DOMAIN w = {i} /\ w[i] = doc
  OBVIOUS
<1>3. \A j \in DOMAIN rows : rows[j] \in Store!Doc /\ rows[j] # Store!Gone
  BY GoneIsNoDocument DEF Documents
<1>. HIDE DEF w, d
<1>4. /\ i \in DOMAIN d <=> doc # Store!Gone
      /\ i \in DOMAIN d => d[i] = doc
      /\ \A j : j # i => /\ j \in DOMAIN d <=> j \in DOMAIN rows
                         /\ j \in DOMAIN d => d[j] = rows[j]
  BY <1>1, <1>2, <1>3
<1>5. \A j \in DOMAIN d : d[j] \in Store!Doc /\ j \in Ids
  BY <1>3, <1>4 DEF Documents
<1>6. Documents(d)
  BY <1>1, <1>5 DEF Documents
<1>. QED  BY <1>4, <1>6 DEF d, w

LEMMA WriteKeeps ==
    ASSUME Store!StoreAssumption, Transactional, NEW c \in Calls, Write(c)
    PROVE  Transactional'
<1>0. /\ DatabaseTypes /\ BothUnique /\ pc[c] = "writes" /\ Busy(c) /\ open
      /\ \A e \in Calls : pc[e] = "writes" => e = c
      /\ \A e \in Calls : Busy(e) => e = c
  BY DEF Transactional, Write, Busy, OneOwner
<1>1. PICK i \in DOMAIN todo[c] :
        IF Clashes(todo[c][i], i)
        THEN RollBack(c) /\ todo' = [todo EXCEPT ![c] = Store!Nothing]
        ELSE /\ Execute(Store!Written(rows, [j \in {i} |-> todo[c][i]]))
             /\ todo' = [todo EXCEPT ![c] = [j \in DOMAIN todo[c] \ {i} |-> todo[c][j]]]
             /\ UNCHANGED <<open, pc, lock>>
  BY DEF Write
<1>2. expired' = expired
  BY DEF Write
<1>3. CASE Clashes(todo[c][i], i)
  <2>1. /\ Goes(c, "failed") /\ open' = FALSE /\ rows' = saved /\ saved' = saved
        /\ todo' = [todo EXCEPT ![c] = Store!Nothing]
    BY <1>0, <1>1, <1>3 DEF RollBack
  <2>2. /\ \A e \in Calls : ~ Busy(e)' /\ pc'[e] # "writes"
        /\ pc' \in [Calls -> {"waits", "starts", "reads", "writes"} \cup Ended]
    BY <1>0, <2>1, NobodyLeft DEF Ended
  <2>3. DatabaseTypes' /\ BothUnique'
    BY <1>0, <1>2, <2>1, <2>2 DEF DatabaseTypes, Documents, BothUnique, Store!Unique
  <2>4. OneOwner' /\ OutsideNothing' /\ ReadsSaved' /\ WritesWhole'
    BY <2>1, <2>2 DEF OneOwner, OutsideNothing, ReadsSaved, WritesWhole
  <2>. QED  BY <2>3, <2>4 DEF Transactional
<1>4. CASE ~ Clashes(todo[c][i], i)
  <2>. DEFINE doc == todo[c][i]
              d == Store!Written(rows, [j \in {i} |-> doc])
              others == [j \in DOMAIN todo[c] \ {i} |-> todo[c][j]]
  <2>1. /\ rows' = d /\ saved' = saved /\ todo' = [todo EXCEPT ![c] = others]
        /\ UNCHANGED <<open, pc>>
    BY <1>0, <1>1, <1>4 DEF Execute
  <2>2. PICK dead \in SUBSET expired : \E w \in Writable(c, dead) : Progress(c, dead, w)
    BY <1>0 DEF Transactional, WritesWhole
  <2>3. PICK w \in Writable(c, dead) : Progress(c, dead, w)
    BY <2>2
  <2>4. Pieces(w)
    <3>1. Documents(Store!Live(saved, dead))
      BY <1>0, LivePart DEF DatabaseTypes, BothUnique
    <3>2. Store!Free(Store!Live(saved, dead)) \in SUBSET Ids
      BY DEF Store!Free
    <3>. QED  BY <2>3, <3>1, <3>2, WritesPieces DEF Writable
  <2>5. /\ i \in Ids /\ i \in DOMAIN w /\ doc = w[i] /\ doc \in Store!Doc \cup {Store!Gone}
        /\ DOMAIN w \subseteq Ids
    BY <2>3, <2>4 DEF Progress, Pieces
  <2>6. /\ Documents(d)
        /\ i \in DOMAIN d <=> doc # Store!Gone
        /\ i \in DOMAIN d => d[i] = doc
        /\ \A j : j # i => /\ j \in DOMAIN d <=> j \in DOMAIN rows
                           /\ j \in DOMAIN d => d[j] = rows[j]
    BY <1>0, <2>5, OnePiece DEF DatabaseTypes
  <2>7. /\ todo'[c] = others /\ DOMAIN others = DOMAIN todo[c] \ {i}
        /\ \A j \in DOMAIN others : others[j] = todo[c][j]
    BY <1>0, <2>1 DEF DatabaseTypes
  <2>. HIDE DEF d, doc, others
  <2>8. Store!Unique(d)
    BY <1>0, <1>4, <2>6 DEF Store!Unique, BothUnique, Clashes, doc
  <2>9. DatabaseTypes' /\ BothUnique'
    BY <1>0, <1>2, <2>1, <2>6, <2>8 DEF DatabaseTypes, Documents, BothUnique, Store!Unique
  <2>10. OneOwner' /\ OutsideNothing' /\ ReadsSaved'
    BY <1>0, <2>1 DEF Transactional, OneOwner, OutsideNothing, ReadsSaved, Busy
  <2>11. w \in Writable(c, dead)'
    BY <1>2, <2>1, <2>3 DEF Writable, Store!Live, Store!Free
  <2>12. Progress(c, dead, w)'
    <3>1. DOMAIN todo'[c] \subseteq DOMAIN w /\ \A j \in DOMAIN todo'[c] : todo'[c][j] = w[j]
      BY <2>3, <2>7 DEF Progress
    <3>2. \A j \in DOMAIN w \ DOMAIN todo'[c] : Wrote(j, w)'
      BY <1>2, <2>1, <2>3, <2>5, <2>6, <2>7 DEF Progress, Wrote
    <3>3. Untouched((Ids \ DOMAIN w) \cup DOMAIN todo[c])'
      BY <1>2, <2>1, <2>3, <2>5, <2>6, <2>7 DEF Progress, Untouched
    <3>4. \A j \in (Ids \ DOMAIN w) \cup DOMAIN todo'[c] : j \in DOMAIN rows' => j \notin dead
      BY <2>1, <2>3, <2>5, <2>6, <2>7 DEF Progress
    <3>. QED  BY <2>11, <3>1, <3>2, <3>3, <3>4 DEF Progress
  <2>13. WritesWhole'
    BY <1>0, <1>2, <2>1, <2>2, <2>11, <2>12 DEF WritesWhole
  <2>. QED  BY <2>9, <2>10, <2>13 DEF Transactional
<1>. QED  BY <1>3, <1>4

LEMMA CommitKeeps ==
    ASSUME Transactional, NEW c \in Calls, Commit(c)
    PROVE  Transactional'
<1>0. DatabaseTypes /\ BothUnique /\ Busy(c) /\ open
  BY DEF Transactional, Commit, Busy, OneOwner
<1>1. /\ Goes(c, "done") /\ saved' = rows /\ open' = FALSE
      /\ UNCHANGED <<rows, expired, todo>>
  BY <1>0 DEF Commit
<1>2. /\ \A e \in Calls : ~ Busy(e)' /\ pc'[e] # "writes"
      /\ pc' \in [Calls -> {"waits", "starts", "reads", "writes"} \cup Ended]
  BY <1>0, <1>1, NobodyLeft DEF Ended
<1>3. DatabaseTypes' /\ BothUnique'
  BY <1>0, <1>1, <1>2 DEF DatabaseTypes, Documents, BothUnique, Store!Unique
<1>4. OneOwner' /\ OutsideNothing' /\ ReadsSaved' /\ WritesWhole'
  BY <1>1, <1>2 DEF OneOwner, OutsideNothing, ReadsSaved, WritesWhole
<1>. QED  BY <1>3, <1>4 DEF Transactional

(* Whatever is cancelled, killed or expires, an open transaction has one     *)
(* owner, and what it did so far is a part of one whole write. Code: BEGIN   *)
(* IMMEDIATE and the lock in SQLiteDatabase.                                 *)
THEOREM TransactionsHold ==
    Store!StoreAssumption => (Spec => []Transactional)
<1>. SUFFICES ASSUME Store!StoreAssumption  PROVE Spec => []Transactional
  OBVIOUS
<1>1. Init => Transactional
  BY InitTransactional
<1>2. Transactional /\ [Next]_vars => Transactional'
  <2>. SUFFICES ASSUME Transactional, [Next]_vars  PROVE Transactional'
    OBVIOUS
  <2>1. CASE UNCHANGED vars
    <3>1. UNCHANGED <<saved, rows, open, expired, todo, pc>>
      BY <2>1 DEF vars
    <3>. QED  BY <3>1, QuietKeeps DEF Transactional, DatabaseTypes
  <2>2. ASSUME NEW c \in Calls, Submit(c)  PROVE Transactional'
    BY <2>2, SubmitKeeps
  <2>3. ASSUME NEW c \in Calls, Begin(c)  PROVE Transactional'
    BY <2>3, BeginKeeps
  <2>4. ASSUME NEW c \in Calls, Read(c)  PROVE Transactional'
    BY <2>4, FindKeeps, ReadKeeps
  <2>5. ASSUME NEW c \in Calls, Write(c)  PROVE Transactional'
    BY <2>5, WriteKeeps
  <2>6. ASSUME NEW c \in Calls, Commit(c)  PROVE Transactional'
    BY <2>6, CommitKeeps
  <2>7. ASSUME NEW c \in Calls, Cancel(c)  PROVE Transactional'
    BY <2>7, CancelKeeps
  <2>8. ASSUME NEW i \in Ids, Expire(i)  PROVE Transactional'
    BY <2>8, ExpireKeeps
  <2>9. CASE Crash
    BY <2>9, CrashKeeps
  <2>. QED  BY <2>1, <2>2, <2>3, <2>4, <2>5, <2>6, <2>7, <2>8, <2>9 DEF Next
<1>. QED  BY <1>1, <1>2, PTL DEF Spec

-----------------------------------------------------------------------------
(* Every step is one of the store, or none. *)

Unfinished == {c \in Calls : pc[c] \notin Ended}

LEMMA GoesToEnd ==
    ASSUME DatabaseTypes, NEW c \in Calls, pc[c] \notin Ended, NEW where \in Ended,
           pc' = [pc EXCEPT ![c] = where]
    PROVE  c \in Unfinished /\ Unfinished' = Unfinished \ {c}
  BY DEF DatabaseTypes, Unfinished

\* A call that ends and leaves no trace is refused.
LEMMA EndsWithoutEffect ==
    ASSUME DatabaseTypes, NEW c \in Calls, pc[c] \notin Ended, NEW where \in Ended,
           pc' = [pc EXCEPT ![c] = where], UNCHANGED <<saved, expired>>
    PROVE  Store!Next
<1>1. Unfinished' = Unfinished \ {c} /\ {c} \in SUBSET Unfinished
  BY GoesToEnd
<1>2. Store!Refuse({c})
  BY <1>1 DEF Store!Refuse, Unfinished
<1>. QED  BY <1>1, <1>2 DEF Store!Next, Unfinished

\* A call takes effect where it wrote w of what it read.
LEMMA TakesEffect ==
    ASSUME DatabaseTypes, NEW c \in Calls, pc[c] \notin Ended, NEW where \in Ended,
           pc' = [pc EXCEPT ![c] = where], expired' = expired,
           NEW dead \in SUBSET expired, NEW later \in SUBSET expired,
           NEW w \in Writable(c, dead),
           saved' = Store!Live(Store!Written(Store!Live(saved, dead), w), later),
           Store!Unique(saved')
    PROVE  Store!Next
<1>1. c \in Unfinished /\ Unfinished' = Unfinished \ {c}
  BY GoesToEnd
<1>2. Store!Take(c)
  BY <1>1 DEF Store!Take, Unfinished, Writable
<1>. QED  BY <1>2 DEF Store!Next

LEMMA NothingWritten ==
    ASSUME Store!StoreAssumption, NEW d, Documents(d)
    PROVE  Store!Live(Store!Written(d, Store!Nothing), {}) = d
<1>. DEFINE e == Store!Written(d, Store!Nothing)
<1>1. DOMAIN Store!Nothing = {}
  BY DEF Store!Nothing
<1>2. /\ \A i : i \in DOMAIN e <=> i \in DOMAIN d /\ d[i] # Store!Gone
      /\ \A i \in DOMAIN e : e[i] = d[i]
  BY <1>1, WrittenFacts
<1>3. DOMAIN e = DOMAIN d
  BY <1>2, GoneIsNoDocument DEF Documents
<1>4. Store!Live(e, {}) = [i \in DOMAIN d |-> d[i]]
  BY <1>2, <1>3 DEF Store!Live
<1>. QED  BY <1>4 DEF Documents

LEMMA FindTakesEffect ==
    ASSUME Store!StoreAssumption, Transactional, Transactional',
           NEW c \in Calls, Read(c), Op[c] = "find"
    PROVE  Store!Next
<1>0. /\ DatabaseTypes /\ pc[c] \notin Ended /\ pc' = [pc EXCEPT ![c] = "done"]
      /\ expired' = expired /\ "done" \in Ended
      /\ saved' = IF open THEN saved ELSE Store!Live(rows, expired)
  BY DEF Transactional, Read, Goes, Execute, Ended
<1>. DEFINE dead == IF open THEN {} ELSE expired
            alive == Store!Live(saved, dead)
<1>1. saved' = alive
  <2>1. CASE open
    <3>1. alive = [i \in DOMAIN saved |-> saved[i]]
      BY <2>1 DEF Store!Live
    <3>. QED  BY <1>0, <2>1, <3>1 DEF DatabaseTypes, Documents
  <2>2. CASE ~ open
    BY <1>0, <2>2 DEF Transactional, OutsideNothing
  <2>. QED  BY <2>1, <2>2
<1>2. Documents(alive)
  BY LivePart, <1>0 DEF DatabaseTypes, Transactional, BothUnique
<1>3. saved' = Store!Live(Store!Written(alive, Store!Nothing), {})
  BY <1>1, <1>2, NothingWritten
<1>4. Store!Nothing \in Writable(c, dead)
  BY DEF Writable, Store!Writes
<1>5. Store!Unique(saved')
  BY DEF Transactional, BothUnique, Store!Unique
<1>6. dead \in SUBSET expired /\ {} \in SUBSET expired
  OBVIOUS
<1>. HIDE DEF dead
<1>. QED  BY <1>0, <1>3, <1>4, <1>5, <1>6, TakesEffect

\* The COMMIT is where a write takes effect.
LEMMA CommitTakesEffect ==
    ASSUME Store!StoreAssumption, Transactional, Transactional', NEW c \in Calls, Commit(c)
    PROVE  Store!Next
<1>0. /\ DatabaseTypes /\ BothUnique /\ Busy(c) /\ open
      /\ pc[c] = "writes" /\ DOMAIN todo[c] = {}
  BY DEF Transactional, Commit, Busy, OneOwner
<1>1. /\ pc' = [pc EXCEPT ![c] = "done"] /\ saved' = rows /\ expired' = expired
      /\ "done" \in Ended /\ pc[c] \notin Ended
  BY <1>0 DEF Commit, Goes, Ended
<1>2. PICK dead \in SUBSET expired : \E w \in Writable(c, dead) : Progress(c, dead, w)
  BY <1>0 DEF Transactional, WritesWhole
<1>3. PICK w \in Writable(c, dead) : Progress(c, dead, w)
  BY <1>2
<1>. DEFINE alive == Store!Live(saved, dead)
            all   == Store!Written(alive, w)
            later == expired \ DOMAIN rows
<1>4. /\ \A i \in DOMAIN w : Wrote(i, w)
      /\ Untouched(Ids \ DOMAIN w)
      /\ \A i \in Ids \ DOMAIN w : i \in DOMAIN rows => i \notin dead
  BY <1>0, <1>3 DEF Progress, Untouched
<1>5. /\ DOMAIN alive = DOMAIN saved \ dead
      /\ \A i \in DOMAIN alive : alive[i] = saved[i] /\ alive[i] # Store!Gone
  <2>1. /\ DOMAIN alive = DOMAIN saved \ dead
        /\ \A i \in DOMAIN alive : alive[i] = saved[i]
    BY DEF Store!Live
  <2>2. \A i \in DOMAIN saved : saved[i] # Store!Gone
    BY <1>0, GoneIsNoDocument DEF DatabaseTypes, Documents
  <2>. QED  BY <2>1, <2>2
<1>6. DOMAIN rows \subseteq Ids /\ DOMAIN saved \subseteq Ids
      /\ rows = [i \in DOMAIN rows |-> rows[i]]
  BY <1>0 DEF DatabaseTypes, Documents
<1>7. /\ \A i : i \in DOMAIN all <=> \/ i \in DOMAIN w /\ w[i] # Store!Gone
                                     \/ i \in DOMAIN alive /\ i \notin DOMAIN w
      /\ \A i \in DOMAIN all : all[i] = IF i \in DOMAIN w THEN w[i] ELSE alive[i]
  BY <1>5, WrittenFacts
<1>. HIDE DEF all, alive
<1>8. ASSUME NEW i \in DOMAIN rows
      PROVE  i \in DOMAIN all \ later /\ all[i] = rows[i]
  BY <1>4, <1>5, <1>6, <1>7, <1>8 DEF Wrote, Untouched
<1>9. ASSUME NEW i \in DOMAIN all, i \notin DOMAIN rows
      PROVE  i \in later
  <2>1. CASE i \in DOMAIN w
    BY <1>4, <1>7, <1>9, <2>1 DEF Wrote
  <2>2. CASE i \notin DOMAIN w
    BY <1>4, <1>5, <1>6, <1>7, <1>9, <2>2 DEF Untouched
  <2>. QED  BY <2>1, <2>2
<1>10. DOMAIN all \ later = DOMAIN rows
  BY <1>8, <1>9
<1>11. Store!Live(all, later) = [i \in DOMAIN rows |-> rows[i]]
  BY <1>8, <1>10 DEF Store!Live
<1>12. saved' = Store!Live(all, later) /\ Store!Unique(saved')
  BY <1>0, <1>1, <1>6, <1>11 DEF BothUnique, Store!Unique
<1>. QED  BY <1>0, <1>1, <1>3, <1>12, TakesEffect DEF all, alive

LEMMA StepRefines ==
    ASSUME Store!StoreAssumption, Transactional, Transactional', [Next]_vars
    PROVE  [Store!Next]_<<saved, Unfinished, expired>>
<1>0. DatabaseTypes
  BY DEF Transactional
<1>1. CASE UNCHANGED vars
  BY <1>1 DEF vars, Unfinished
<1>2. ASSUME NEW c \in Calls, Submit(c)
      PROVE  UNCHANGED <<saved, Unfinished, expired>>
  BY <1>0, <1>2 DEF Submit, Unfinished, Ended, DatabaseTypes
<1>3. ASSUME NEW c \in Calls, Begin(c)
      PROVE  Store!Next \/ UNCHANGED <<saved, Unfinished, expired>>
  <2>1. /\ UNCHANGED <<saved, expired>> /\ pc[c] = "starts" /\ pc[c] \notin Ended
        /\ pc' = [pc EXCEPT ![c] = "failed"] \/ pc' = [pc EXCEPT ![c] = "reads"]
    BY <1>3 DEF Begin, BeginWrite, Goes, Ended
  <2>2. CASE pc' = [pc EXCEPT ![c] = "failed"]
    BY <1>0, <2>1, <2>2, EndsWithoutEffect DEF Ended
  <2>3. CASE pc' = [pc EXCEPT ![c] = "reads"]
    BY <1>0, <2>1, <2>3 DEF Unfinished, Ended, DatabaseTypes
  <2>. QED  BY <2>1, <2>2, <2>3
<1>4. ASSUME NEW c \in Calls, Read(c)
      PROVE  Store!Next \/ UNCHANGED <<saved, Unfinished, expired>>
  <2>1. CASE Op[c] = "find"
    BY <1>4, <2>1, FindTakesEffect
  <2>2. CASE Op[c] # "find"
    <3>1. open
      BY <1>4, <2>2 DEF Read, Transactional, OneOwner, Busy
    <3>2. /\ UNCHANGED <<saved, expired>> /\ pc[c] = "reads"
          /\ pc' = [pc EXCEPT ![c] = "writes"]
      BY <1>4, <2>2, <3>1 DEF Read, Execute, Goes
    <3>. QED  BY <1>0, <3>2 DEF Unfinished, Ended, DatabaseTypes
  <2>. QED  BY <2>1, <2>2
<1>5. ASSUME NEW c \in Calls, Write(c)
      PROVE  Store!Next \/ UNCHANGED <<saved, Unfinished, expired>>
  <2>1. open /\ pc[c] = "writes" /\ pc[c] \notin Ended
    BY <1>5 DEF Write, Transactional, OneOwner, Busy, Ended
  <2>2. /\ UNCHANGED <<saved, expired>>
        /\ pc' = [pc EXCEPT ![c] = "failed"] \/ pc' = pc
    BY <1>5, <2>1 DEF Write, RollBack, Execute, Goes
  <2>3. CASE pc' = [pc EXCEPT ![c] = "failed"]
    BY <1>0, <2>1, <2>2, <2>3, EndsWithoutEffect DEF Ended
  <2>4. CASE pc' = pc
    BY <2>2, <2>4 DEF Unfinished
  <2>. QED  BY <2>2, <2>3, <2>4
<1>6. ASSUME NEW c \in Calls, Commit(c)  PROVE Store!Next
  BY <1>6, CommitTakesEffect
<1>7. ASSUME NEW c \in Calls, Cancel(c)
      PROVE  Store!Next \/ UNCHANGED <<saved, Unfinished, expired>>
  <2>1. /\ UNCHANGED <<saved, expired>>
        /\ pc' = pc \/ (pc[c] = "starts" /\ pc' = [pc EXCEPT ![c] = "failed"])
    BY <1>7 DEF Cancel
  <2>2. CASE pc' = pc
    BY <2>1, <2>2 DEF Unfinished
  <2>3. CASE pc[c] = "starts" /\ pc' = [pc EXCEPT ![c] = "failed"]
    <3>1. pc[c] \notin Ended /\ "failed" \in Ended
      BY <2>3 DEF Ended
    <3>. QED  BY <1>0, <2>1, <2>3, <3>1, EndsWithoutEffect
  <2>. QED  BY <2>1, <2>2, <2>3
<1>8. ASSUME NEW i \in Ids, Expire(i)  PROVE Store!Next
  <2>1. Store!Expire
    BY <1>8 DEF Expire, Store!Expire
  <2>. QED  BY <2>1 DEF Store!Next
<1>9. CASE Crash
  <2>1. /\ UNCHANGED <<saved, expired>>
        /\ \A c \in Calls : pc'[c] = IF pc[c] \in {"starts", "reads", "writes"}
                                     THEN "failed" ELSE pc[c]
    BY <1>9 DEF Crash
  <2>2. PICK killed \in SUBSET Unfinished : Unfinished' = Unfinished \ killed
    <3>1. Unfinished' \subseteq Unfinished
      BY <2>1 DEF Unfinished, Ended
    <3>. QED  BY <3>1, Unfinished' = Unfinished \ (Unfinished \ Unfinished')
  <2>3. Store!Refuse(killed)
    BY <2>1, <2>2 DEF Store!Refuse, Unfinished
  <2>. QED  BY <2>3 DEF Store!Next, Unfinished
<1>. QED  BY <1>1, <1>2, <1>3, <1>4, <1>5, <1>6, <1>7, <1>8, <1>9 DEF Next

(* The SQLite store is the store the program expects: each call takes        *)
(* effect once and whole, or not at all. Code: SQLiteDatabase and its        *)
(* "restart-safety semantics".                                               *)
THEOREM DatabaseImplementsStore ==
    Store!StoreAssumption => (Spec => DatabaseSpec)
<1>. SUFFICES ASSUME Store!StoreAssumption  PROVE Spec => DatabaseSpec
  OBVIOUS
<1>1. Spec => []Transactional
  BY TransactionsHold
<1>2. Init => Store!Init
  BY DEF Init, Store!Init, Ended
<1>3. Transactional /\ Transactional' /\ [Next]_vars => [Store!Next]_<<saved, Unfinished, expired>>
  BY StepRefines
<1>. QED  BY <1>1, <1>2, <1>3, PTL DEF Spec, DatabaseSpec, Store!Spec, Unfinished

(* No transaction is left open by a call that ended, and no two documents    *)
(* ever share the value of a unique index. Code: the rollbacks in            *)
(* SQLiteDatabase, _assert_unique_sync.                                      *)
THEOREM DatabaseIsSound ==
    Store!StoreAssumption => (Spec => [](NoOrphan /\ UniqueKept))
<1>. SUFFICES ASSUME Store!StoreAssumption  PROVE Spec => [](NoOrphan /\ UniqueKept)
  OBVIOUS
<1>1. Transactional => NoOrphan /\ UniqueKept
  BY DEF Transactional, OneOwner, Busy, BothUnique, NoOrphan, UniqueKept
<1>. QED  BY <1>1, TransactionsHold, PTL

-----------------------------------------------------------------------------
(* The spool: the inductive invariant.                                      *)

\* The events of the files that are bundles.
Bundled(all) == UNION {f \in all : ~Spool!Raw(f)}

\* What a compaction removes is in a bundle or was pushed, and what an
\* acknowledgement removes was pushed.
KeptSomewhere ==
  /\ IsFiniteSet(files) /\ \A f \in files : IsFiniteSet(f)
  /\ \A f \in rest : Spool!Raw(f)
  /\ UNION rest \subseteq Bundled(files) \cup repository
  /\ phase \in {"pushed", "removing"} => UNION batch \subseteq repository
  /\ Spool!EvidenceKept

-----------------------------------------------------------------------------
LEMMA SpoolSets ==
    \A S : Spool!Cardinality(S) = Cardinality(S)
BY DEF Spool!Cardinality, Cardinality

\* Two raw files or more make a bundle.
LEMMA BundleIsNotRaw ==
    ASSUME NEW chosen, IsFiniteSet(chosen), \A f \in chosen : IsFiniteSet(f) /\ Spool!Raw(f),
           Cardinality(chosen) >= 2
    PROVE  ~Spool!Raw(UNION chosen) /\ IsFiniteSet(UNION chosen)
<1>1. IsFiniteSet(UNION chosen)
  BY FS_UNION
<1>2. \A f \in chosen : \E x : f = {x}
  BY FS_Singleton, SpoolSets DEF Spool!Raw
<1>3. ASSUME NEW x, UNION chosen = {x}
      PROVE  FALSE
  <2>1. chosen \subseteq {{x}}
    BY <1>2, <1>3
  <2>2. IsFiniteSet({{x}}) /\ Cardinality({{x}}) = 1
    BY FS_Singleton
  <2>3. Cardinality(chosen) <= 1
    BY <2>1, <2>2, FS_Subset
  <2>4. Cardinality(chosen) \in Nat
    BY FS_CardinalityType
  <2>. QED  BY <2>3, <2>4
<1>4. Cardinality(UNION chosen) # 1
  BY <1>1, <1>3, FS_Singleton
<1>. QED  BY <1>1, <1>4, SpoolSets DEF Spool!Raw

\* A compaction loses nothing, whether it happens or not.
LEMMA CompactionKeeps ==
    ASSUME KeptSomewhere, Spool!Compact
    PROVE  /\ IsFiniteSet(files') /\ \A f \in files' : IsFiniteSet(f)
           /\ \A f \in rest' : Spool!Raw(f)
           /\ UNION rest' \subseteq Bundled(files') \cup repository
           /\ UNION files \subseteq UNION files'
<1>1. CASE files' = files /\ rest' = rest
  BY <1>1 DEF KeptSomewhere
<1>2. CASE ~(files' = files /\ rest' = rest)
  <2>1. PICK chosen \in SUBSET Spool!Candidates :
          /\ Spool!Cardinality(chosen) >= 2 /\ files' = files \cup {UNION chosen} /\ rest' = chosen
    BY <1>2 DEF Spool!Compact
  <2>2. chosen \subseteq files /\ \A f \in chosen : Spool!Raw(f)
    BY DEF Spool!Candidates
  <2>3. IsFiniteSet(chosen) /\ (\A f \in chosen : IsFiniteSet(f)) /\ Cardinality(chosen) >= 2
    BY <2>1, <2>2, FS_Subset, SpoolSets DEF KeptSomewhere
  <2>4. ~Spool!Raw(UNION chosen) /\ IsFiniteSet(UNION chosen)
    BY <2>2, <2>3, BundleIsNotRaw
  <2>5. IsFiniteSet(files')
    BY <2>1, FS_AddElement DEF KeptSomewhere
  <2>6. UNION rest' \subseteq Bundled(files')
    BY <2>1, <2>4 DEF Bundled
  <2>. QED  BY <2>1, <2>2, <2>4, <2>5, <2>6 DEF KeptSomewhere
<1>. QED  BY <1>1, <1>2

LEMMA SpoolStep ==
    ASSUME KeptSomewhere, Spool!Next
    PROVE  KeptSomewhere'
<1>1. /\ IsFiniteSet(files) /\ \A f \in files : IsFiniteSet(f)
      /\ \A f \in rest : Spool!Raw(f)
      /\ UNION rest \subseteq Bundled(files) \cup repository
      /\ phase \in {"pushed", "removing"} => UNION batch \subseteq repository
      /\ stored \subseteq (UNION files) \cup repository
  BY DEF KeptSomewhere, Spool!EvidenceKept
<1>2. ASSUME NEW e, Spool!Append(e)
      PROVE  KeptSomewhere'
  <2>1. stored' = stored /\ batch' = batch /\ phase' = phase /\ repository' = repository
    BY <1>2 DEF Spool!Append, Spool!workflow
  <2>2. CASE Spool!Compact
    BY <1>1, <2>1, <2>2, CompactionKeeps DEF KeptSomewhere, Spool!EvidenceKept
  <2>3. CASE files' = files /\ rest' = rest
    BY <1>1, <2>1, <2>3 DEF KeptSomewhere, Spool!EvidenceKept, Bundled
  <2>. QED  BY <1>2, <2>2, <2>3 DEF Spool!Append
<1>3. ASSUME NEW e, Spool!Write(e)
      PROVE  KeptSomewhere'
  <2>1. batch' = batch /\ phase' = phase /\ repository' = repository
    BY <1>3 DEF Spool!Write, Spool!workflow
  <2>2. CASE files' = files \cup {{e}} /\ stored' = stored \cup {e} /\ rest' = rest
    <3>1. IsFiniteSet({e}) /\ IsFiniteSet(files')
      BY <1>1, <2>2, FS_Singleton, FS_AddElement
    <3>2. Bundled(files) \subseteq Bundled(files')
      BY <2>2 DEF Bundled
    <3>. QED  BY <1>1, <2>1, <2>2, <3>1, <3>2 DEF KeptSomewhere, Spool!EvidenceKept
  <2>3. CASE Spool!Compact /\ stored' = stored
    BY <1>1, <2>1, <2>3, CompactionKeeps DEF KeptSomewhere, Spool!EvidenceKept
  <2>4. CASE files' = files /\ rest' = rest /\ stored' = stored
    BY <1>1, <2>1, <2>4 DEF KeptSomewhere, Spool!EvidenceKept, Bundled
  <2>. QED  BY <1>3, <2>2, <2>3, <2>4 DEF Spool!Write
<1>4. ASSUME NEW f \in rest, Spool!RemoveSource(f)
      PROVE  KeptSomewhere'
  <2>1. /\ rest' = rest \ {f} /\ files' \in {files, files \ {f}} /\ stored' = stored
        /\ batch' = batch /\ phase' = phase /\ repository' = repository
    BY <1>4 DEF Spool!RemoveSource, Spool!workflow, Spool!program
  <2>2. Bundled(files') = Bundled(files)
    BY <1>1, <2>1 DEF Bundled
  <2>4. ASSUME NEW x \in UNION files, x \notin repository
        PROVE  x \in UNION files'
    <3>1. PICK g \in files : x \in g
      BY <2>4
    <3>2. CASE g = f
      <4>1. x \in Bundled(files')
        BY <1>1, <2>2, <2>4, <3>1, <3>2
      <4>. QED  BY <4>1 DEF Bundled
    <3>3. CASE g # f
      BY <2>1, <3>1, <3>3
    <3>. QED  BY <3>2, <3>3
  <2>5. IsFiniteSet(files') /\ files' \subseteq files
    BY <1>1, <2>1, FS_RemoveElement
  <2>6. Spool!EvidenceKept'
    BY <1>1, <2>1, <2>4 DEF Spool!EvidenceKept
  <2>7. UNION rest' \subseteq Bundled(files') \cup repository
    <3>1. UNION rest' \subseteq UNION rest
      BY <2>1
    <3>. QED  BY <1>1, <2>2, <3>1
  <2>8. \A g \in rest' : Spool!Raw(g)
    BY <1>1, <2>1
  <2>. QED  BY <1>1, <2>1, <2>5, <2>6, <2>7, <2>8 DEF KeptSomewhere
<1>5. CASE Spool!Fetch
  BY <1>1, <1>5 DEF Spool!Fetch, Spool!program, KeptSomewhere, Spool!EvidenceKept, Bundled
<1>6. CASE Spool!Push
  BY <1>1, <1>6 DEF Spool!Push, Spool!program, KeptSomewhere, Spool!EvidenceKept, Bundled
<1>7. CASE Spool!Acknowledge
  BY <1>1, <1>7 DEF Spool!Acknowledge, Spool!program, KeptSomewhere, Spool!EvidenceKept, Bundled
<1>8. CASE Spool!RemoveAcknowledged
  <2>1. rest' = rest /\ repository' = repository /\ stored' = stored /\ phase = "removing"
    BY <1>8 DEF Spool!RemoveAcknowledged, Spool!program
  <2>2. CASE files' = files /\ batch' \subseteq batch
    BY <1>1, <2>1, <2>2 DEF KeptSomewhere, Spool!EvidenceKept, Bundled
  <2>3. ASSUME NEW f \in batch, files' = files \ {f}, batch' = batch \ {f}, phase' = phase
        PROVE  KeptSomewhere'
    <3>1. f \subseteq repository
      BY <1>1, <2>1
    <3>2. \A g \in files : g \in files' \/ g \subseteq repository
      BY <2>3, <3>1
    <3>4. Bundled(files) \subseteq Bundled(files') \cup repository
      <4>1. \A g \in files : ~Spool!Raw(g) => g \subseteq Bundled(files') \cup repository
        BY <3>2 DEF Bundled
      <4>. QED  BY <4>1 DEF Bundled
    <3>5. ASSUME NEW x \in UNION files, x \notin repository
          PROVE  x \in UNION files'
      <4>1. PICK g \in files : x \in g
        BY <3>5
      <4>. QED  BY <3>2, <3>5, <4>1
    <3>3. IsFiniteSet(files') /\ files' \subseteq files
      BY <1>1, <2>3, FS_RemoveElement
    <3>6. Spool!EvidenceKept'
      BY <1>1, <2>1, <3>5 DEF Spool!EvidenceKept
    <3>7. UNION rest' \subseteq Bundled(files') \cup repository
      BY <1>1, <2>1, <3>4
    <3>8. UNION batch' \subseteq repository
      BY <1>1, <2>1, <2>3
    <3>. QED  BY <1>1, <2>1, <3>3, <3>6, <3>7, <3>8 DEF KeptSomewhere
  <2>. QED  BY <1>8, <2>2, <2>3 DEF Spool!RemoveAcknowledged
<1>9. CASE Spool!WorkflowFails
  BY <1>1, <1>9 DEF Spool!WorkflowFails, Spool!program, KeptSomewhere, Spool!EvidenceKept, Bundled
<1>10. CASE Spool!DiskChanges
  BY <1>1, <1>10 DEF Spool!DiskChanges, Spool!workflow, KeptSomewhere, Spool!EvidenceKept, Bundled
<1>11. CASE Spool!Crash
  <2>1. /\ rest' = {} /\ files' = files /\ stored' = stored /\ repository' = repository
        /\ (batch' = batch /\ phase' = phase) \/ phase' = "idle"
    BY <1>11 DEF Spool!Crash, Spool!workflow
  <2>. QED  BY <1>1, <2>1 DEF KeptSomewhere, Spool!EvidenceKept, Bundled
<1>. QED  BY <1>2, <1>3, <1>4, <1>5, <1>6, <1>7, <1>8, <1>9, <1>10, <1>11 DEF Spool!Next

\* Evidence that was stored is on the volume or in the repository, whatever is
\* compacted, acknowledged, killed or restarted meanwhile.
THEOREM EvidenceNotLost == Spool!Spec => []Spool!EvidenceKept
<1>1. Spool!Init => KeptSomewhere
  BY FS_EmptySet DEF Spool!Init, KeptSomewhere, Spool!EvidenceKept, Bundled
<1>2. KeptSomewhere /\ [Spool!Next]_(Spool!vars) => KeptSomewhere'
  <2>1. KeptSomewhere /\ UNCHANGED Spool!vars => KeptSomewhere'
    BY DEF Spool!vars, KeptSomewhere, Spool!EvidenceKept, Bundled
  <2>. QED  BY <2>1, SpoolStep
<1>3. KeptSomewhere => Spool!EvidenceKept
  BY DEF KeptSomewhere
<1>. QED  BY <1>1, <1>2, <1>3, PTL DEF Spool!Spec

-----------------------------------------------------------------------------
(* The move to the volume: the inductive invariant.                         *)

MoveTypes ==
  /\ at \in [Move!Tasks -> {"waits", "copies", "drops", "marks", "ended"}]
  /\ cursor \in [routes : SUBSET Days, notes : SUBSET Notes]
  /\ days \in [Days -> [time : Nat, points : SUBSET Nat]]
  /\ notes \subseteq Notes /\ samples \in [Days -> SUBSET Nat]

\* What the task of the notifications has left behind it is on the volume.
NotesCopied ==
  /\ "notes" \notin mongo \/ at["notes"] = "drops" => notes = Notes
  /\ at["notes"] = "copies" => Notes \ cursor.notes \subseteq notes

\* A task marks and drops what is gone or copied; a day without a time has
\* no samples that the copy of the old one could replace.
Moved ==
  /\ MoveTypes /\ NotesCopied /\ Move!MarkersHonest /\ Move!SamplesKept
  /\ \A t \in Move!Tasks : at[t] = "marks" => t \notin mongo
  /\ \A d \in Days : days[d].time = 0 => samples[d] = {}
  /\ IsFiniteSet(UNION {samples[d] : d \in Days})

-----------------------------------------------------------------------------
LEMMA MoveSets ==
    \A S : Move!Cardinality(S) = Cardinality(S)
BY DEF Move!Cardinality, Cardinality

\* The step of a task that neither copies nor samples.
LEMMA MoveTasks ==
    ASSUME Moved, UNCHANGED <<days, notes, samples>>,
           \/ \E t \in Move!Tasks : Move!Start(t) \/ Move!Drop(t) \/ Move!Mark(t) \/ Move!Fail(t)
           \/ Move!Crash
           \/ UNCHANGED Move!vars
    PROVE  Moved'
<1>1. /\ MoveTypes /\ NotesCopied /\ Move!MarkersHonest /\ Move!SamplesKept
      /\ \A t \in Move!Tasks : at[t] = "marks" => t \notin mongo
      /\ \A d \in Days : days[d].time = 0 => samples[d] = {}
      /\ IsFiniteSet(UNION {samples[d] : d \in Days})
  BY DEF Moved
<1>2. /\ Move!SamplesKept' /\ IsFiniteSet(UNION {samples[d] : d \in Days})'
      /\ (\A d \in Days : days[d].time = 0 => samples[d] = {})'
  BY <1>1 DEF Move!SamplesKept
<1>3. ASSUME MoveTypes', NotesCopied', Move!MarkersHonest',
             \A t \in Move!Tasks : at'[t] = "marks" => t \notin mongo'
      PROVE  Moved'
  BY <1>2, <1>3 DEF Moved
<1>4. ASSUME NEW t \in Move!Tasks, Move!Start(t)
      PROVE  Moved'
  <2>1. /\ mongo' = mongo /\ marker' = marker /\ at[t] = "waits"
        /\ at' = [at EXCEPT ![t] = IF t \in marker THEN "ended" ELSE IF t = "labs" THEN "drops" ELSE "copies"]
    BY <1>4 DEF Move!Start, Move!Goes
  <2>2. /\ t = "notes" => cursor' = [cursor EXCEPT !.notes = IF t \in mongo THEN Notes ELSE {}]
        /\ t = "routes" => cursor' = [cursor EXCEPT !.routes = IF t \in mongo THEN Days ELSE {}]
        /\ t = "labs" => cursor' = cursor
    BY <1>4 DEF Move!Start
  <2>3. t \in {"routes", "labs", "notes"}
    BY DEF Move!Tasks
  <2>4. MoveTypes'
    BY <1>1, <2>1, <2>2, <2>3 DEF MoveTypes
  <2>5. NotesCopied'
    BY <1>1, <2>1, <2>2, <2>3 DEF NotesCopied, MoveTypes, Move!MarkersHonest, Move!Tasks
  <2>. QED  BY <1>1, <1>3, <2>1, <2>4, <2>5 DEF MoveTypes, Move!MarkersHonest
<1>5. ASSUME NEW t \in Move!Tasks, Move!Drop(t)
      PROVE  Moved'
  <2>1. /\ at[t] = "drops" /\ marker' = marker /\ cursor' = cursor /\ mongo' \subseteq mongo
        /\ \/ at' = at
           \/ at' = [at EXCEPT ![t] = "marks"] /\ t \notin mongo'
        /\ "notes" \in mongo /\ "notes" \notin mongo' => t = "notes"
    BY <1>5 DEF Move!Drop, Move!Goes, Move!Volume
  <2>2. MoveTypes'
    BY <1>1, <2>1 DEF MoveTypes
  <2>3. NotesCopied' /\ Move!MarkersHonest'
    BY <1>1, <2>1 DEF NotesCopied, MoveTypes, Move!MarkersHonest, Move!Tasks
  <2>4. \A s \in Move!Tasks : at'[s] = "marks" => s \notin mongo'
    BY <1>1, <2>1 DEF MoveTypes
  <2>. QED  BY <1>3, <2>2, <2>3, <2>4
<1>6. ASSUME NEW t \in Move!Tasks, Move!Mark(t) \/ Move!Fail(t)
      PROVE  Moved'
  <2>1. /\ cursor' = cursor /\ mongo' = mongo
        /\ \/ at' = [at EXCEPT ![t] = "ended"] /\ at[t] = "marks" /\ marker' = marker \cup {t}
           \/ at' = [at EXCEPT ![t] = "waits"] /\ marker' = marker
    BY <1>6 DEF Move!Mark, Move!Fail, Move!Retry, Move!Goes, Move!Volume
  <2>2. MoveTypes' /\ NotesCopied' /\ Move!MarkersHonest'
    BY <1>1, <2>1 DEF MoveTypes, NotesCopied, Move!MarkersHonest, Move!Tasks
  <2>. QED  BY <1>1, <1>3, <2>1, <2>2 DEF MoveTypes
<1>7. CASE Move!Crash
  <2>1. /\ at' = [t \in Move!Tasks |-> "waits"] /\ cursor' = [routes |-> {}, notes |-> {}]
        /\ mongo' = mongo /\ marker' = marker
    BY <1>7 DEF Move!Crash, Move!Volume
  <2>. QED  BY <1>1, <1>3, <2>1 DEF MoveTypes, NotesCopied, Move!MarkersHonest, Move!Tasks
<1>8. CASE UNCHANGED Move!vars
  BY <1>1, <1>3, <1>8 DEF Move!vars, MoveTypes, NotesCopied, Move!MarkersHonest
<1>. QED  BY <1>4, <1>5, <1>6, <1>7, <1>8

LEMMA CopyRouteMoves ==
    ASSUME Moved, Move!CopyRoute
    PROVE  Moved'
<1>1. /\ MoveTypes /\ NotesCopied /\ Move!MarkersHonest /\ Move!SamplesKept
      /\ \A t \in Move!Tasks : at[t] = "marks" => t \notin mongo
      /\ \A d \in Days : days[d].time = 0 => samples[d] = {}
      /\ IsFiniteSet(UNION {samples[d] : d \in Days})
  BY DEF Moved
<1>2. /\ mongo' = mongo /\ marker' = marker /\ notes' = notes /\ samples' = samples
      /\ at' \in {at, [at EXCEPT !["routes"] = "drops"]}
      /\ \E c \in SUBSET Days : cursor' = [cursor EXCEPT !.routes = c]
      /\ \A d \in Days : days'[d] \in {days[d], Move!Imported(days[d])}
      /\ days' = [d \in Days |-> days'[d]]
  BY <1>1 DEF Move!CopyRoute, Move!Goes, MoveTypes
<1>3. ASSUME NEW d \in Days
      PROVE  /\ days'[d] \in [time : Nat, points : SUBSET Nat] /\ days'[d].time = days[d].time
             /\ samples[d] \subseteq days'[d].points
  <2>1. days[d] \in [time : Nat, points : SUBSET Nat] /\ samples[d] \subseteq days[d].points
    BY <1>1 DEF MoveTypes, Move!SamplesKept
  <2>2. CASE days'[d] = days[d]
    BY <2>1, <2>2
  <2>3. CASE days'[d] = Move!Imported(days[d])
    BY <1>1, <2>1, <2>3 DEF Move!Imported
  <2>. QED  BY <1>2, <2>2, <2>3
<1>4. MoveTypes'
  <2>1. cursor' \in [routes : SUBSET Days, notes : SUBSET Notes]
    BY <1>1, <1>2 DEF MoveTypes
  <2>. QED  BY <1>1, <1>2, <1>3, <2>1 DEF MoveTypes
<1>5. NotesCopied' /\ Move!MarkersHonest'
  BY <1>1, <1>2 DEF NotesCopied, Move!MarkersHonest, MoveTypes, Move!Tasks
<1>6. Move!SamplesKept' /\ \A d \in Days : days'[d].time = 0 => samples'[d] = {}
  BY <1>1, <1>2, <1>3 DEF Move!SamplesKept
<1>7. \A t \in Move!Tasks : at'[t] = "marks" => t \notin mongo'
  BY <1>1, <1>2 DEF MoveTypes
<1>. QED  BY <1>1, <1>2, <1>4, <1>5, <1>6, <1>7 DEF Moved

LEMMA CopyNoteMoves ==
    ASSUME Moved, Move!CopyNote
    PROVE  Moved'
<1>1. /\ MoveTypes /\ NotesCopied /\ Move!MarkersHonest /\ Move!SamplesKept
      /\ \A t \in Move!Tasks : at[t] = "marks" => t \notin mongo
      /\ \A d \in Days : days[d].time = 0 => samples[d] = {}
      /\ IsFiniteSet(UNION {samples[d] : d \in Days})
  BY DEF Moved
<1>2. /\ at["notes"] = "copies" /\ mongo' = mongo /\ marker' = marker /\ samples' = samples /\ days' = days
      /\ \/ /\ cursor.notes = {} /\ at' = [at EXCEPT !["notes"] = "drops"]
            /\ cursor' = cursor /\ notes' = notes
         \/ /\ at' = at
            /\ \E n \in cursor.notes : /\ notes' = notes \cup {n}
                                       /\ cursor' = [cursor EXCEPT !.notes = @ \ {n}]
  BY DEF Move!CopyNote, Move!Goes
<1>3. MoveTypes'
  <2>1. cursor \in [routes : SUBSET Days, notes : SUBSET Notes] /\ notes \subseteq Notes
    BY <1>1 DEF MoveTypes
  <2>2. cursor' \in [routes : SUBSET Days, notes : SUBSET Notes] /\ notes' \subseteq Notes
    <3>1. CASE cursor' = cursor /\ notes' = notes
      BY <2>1, <3>1
    <3>2. ASSUME NEW n \in cursor.notes, notes' = notes \cup {n}, cursor' = [cursor EXCEPT !.notes = @ \ {n}]
          PROVE  cursor' \in [routes : SUBSET Days, notes : SUBSET Notes] /\ notes' \subseteq Notes
      BY <2>1, <3>2
    <3>. QED  BY <1>2, <3>1, <3>2
  <2>. QED  BY <1>1, <1>2, <2>2 DEF MoveTypes
<1>4. NotesCopied' /\ Move!MarkersHonest'
  <2>1. cursor \in [routes : SUBSET Days, notes : SUBSET Notes] /\ Notes \ cursor.notes \subseteq notes
    BY <1>1, <1>2 DEF MoveTypes, NotesCopied
  <2>2. CASE cursor.notes = {} /\ notes' = notes
    BY <1>1, <1>2, <2>1, <2>2 DEF NotesCopied, Move!MarkersHonest, MoveTypes, Move!Tasks
  <2>3. ASSUME NEW n \in cursor.notes, notes' = notes \cup {n}, at' = at,
               cursor' = [cursor EXCEPT !.notes = @ \ {n}]
        PROVE  NotesCopied' /\ Move!MarkersHonest'
    <3>1. cursor'.notes = cursor.notes \ {n} /\ n \in Notes
      BY <2>1, <2>3
    <3>. QED  BY <1>1, <1>2, <2>1, <2>3, <3>1 DEF NotesCopied, Move!MarkersHonest
  <2>. QED  BY <1>2, <2>2, <2>3
<1>5. \A t \in Move!Tasks : at'[t] = "marks" => t \notin mongo'
  BY <1>1, <1>2 DEF MoveTypes
<1>. QED  BY <1>1, <1>2, <1>3, <1>4, <1>5 DEF Moved, Move!SamplesKept

LEMMA AppendMoves ==
    ASSUME Moved, NEW d \in Days, Move!Append(d)
    PROVE  Moved'
<1>1. /\ MoveTypes /\ NotesCopied /\ Move!MarkersHonest /\ Move!SamplesKept
      /\ \A t \in Move!Tasks : at[t] = "marks" => t \notin mongo
      /\ \A e \in Days : days[e].time = 0 => samples[e] = {}
      /\ IsFiniteSet(UNION {samples[e] : e \in Days})
  BY DEF Moved
<1>. DEFINE s == Move!Written + 1
            all == UNION {samples[e] : e \in Days}
<1>2. s \in Nat /\ s > 0
  <2>1. Cardinality(all) \in Nat
    BY <1>1, FS_CardinalityType
  <2>. QED  BY <2>1, MoveSets DEF Move!Written
<1>3. /\ days' = [days EXCEPT ![d] = [time |-> s, points |-> @.points \cup {s}]]
      /\ samples' = [samples EXCEPT ![d] = @ \cup {s}]
      /\ mongo' = mongo /\ marker' = marker /\ at' = at /\ cursor' = cursor /\ notes' = notes
  BY DEF Move!Append
<1>. HIDE DEF s
<1>4. MoveTypes'
  BY <1>1, <1>2, <1>3 DEF MoveTypes
<1>5. Move!SamplesKept' /\ \A e \in Days : days'[e].time = 0 => samples'[e] = {}
  BY <1>1, <1>2, <1>3 DEF MoveTypes, Move!SamplesKept
<1>6. IsFiniteSet(UNION {samples'[e] : e \in Days})
  <2>1. UNION {samples'[e] : e \in Days} \subseteq all \cup {s}
    BY <1>1, <1>3 DEF MoveTypes
  <2>2. IsFiniteSet(all \cup {s})
    <3>. HIDE DEF all
    <3>1. IsFiniteSet(all)
      BY <1>1 DEF all
    <3>. QED  BY <3>1, FS_AddElement
  <2>. QED  BY <2>1, <2>2, FS_Subset
<1>. QED  BY <1>1, <1>3, <1>4, <1>5, <1>6 DEF Moved, NotesCopied, Move!MarkersHonest

\* A marker tells the truth after any failure or restart, no notification is
\* lost with the collection, and no new sample with the copy of an old one.
THEOREM MoveLosesNothing == Move!Spec => [](Move!MarkersHonest /\ Move!SamplesKept)
<1>1. Move!Init => Moved
  <2>1. SUFFICES ASSUME Move!Init  PROVE Moved
    OBVIOUS
  <2>2. UNION {samples[d] : d \in Days} = {}
    BY <2>1 DEF Move!Init
  <2>3. MoveTypes
    BY <2>1 DEF Move!Init, Move!None, MoveTypes
  <2>4. "notes" \in mongo /\ at["notes"] = "waits"
    BY <2>1 DEF Move!Init, Move!Collections, Move!Tasks
  <2>. QED  BY <2>1, <2>2, <2>3, <2>4, FS_EmptySet
            DEF Move!Init, Moved, NotesCopied, Move!MarkersHonest, Move!SamplesKept,
                Move!Collections, Move!Tasks
<1>2. Moved /\ [Move!Next]_(Move!vars) => Moved'
  <2>. SUFFICES ASSUME Moved, [Move!Next]_(Move!vars)
                PROVE  Moved'
    OBVIOUS
  <2>1. CASE UNCHANGED Move!vars
    BY <2>1, MoveTasks DEF Move!vars
  <2>2. CASE Move!Crash
    BY <2>2, MoveTasks DEF Move!Crash, Move!Volume
  <2>3. ASSUME NEW t \in Move!Tasks, Move!Start(t) \/ Move!Drop(t) \/ Move!Mark(t) \/ Move!Fail(t)
        PROVE  Moved'
    <3>1. UNCHANGED <<days, notes, samples>>
      BY <2>3 DEF Move!Start, Move!Drop, Move!Mark, Move!Fail, Move!Volume
    <3>. QED  BY <2>3, <3>1, MoveTasks
  <2>. QED  BY <2>1, <2>2, <2>3, CopyRouteMoves, CopyNoteMoves, AppendMoves DEF Move!Next, Move!Work
<1>3. Moved => Move!MarkersHonest /\ Move!SamplesKept
  BY DEF Moved
<1>. QED  BY <1>1, <1>2, <1>3, PTL DEF Move!Spec
================================================================================
