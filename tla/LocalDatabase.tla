---------------------------- MODULE LocalDatabase ----------------------------
(***************************************************************************)
(* The document store in one SQLite file (app/local_database_v55.py).  Each *)
(* call runs in a thread of its own, all threads use one connection, and a  *)
(* lock admits one call at a time; but a call that is cancelled while its   *)
(* thread runs gives the lock back, and the thread goes on beside the next  *)
(* one.  A transaction belongs to the connection, so a thread may find      *)
(* itself in the transaction of another.                                    *)
(*                                                                          *)
(* A step of a thread is one statement.  Queries are abstracted to the field *)
(* with a unique index, updates to a counter or that field.  Not modelled:  *)
(* other processes with the same file, indexes created while calls run (the *)
(* program creates them when it connects).                                  *)
(***************************************************************************)
EXTENDS Naturals

CONSTANTS
  Ids, Keys, Calls, Op, Key,  \* as in DocumentStore
  MaxCancels,                 \* bound: calls that are cancelled
  MaxCrashes                  \* bound: crashes of the process

VARIABLES
  saved,   \* committed documents
  rows,    \* documents as the connection sees them
  open,    \* the connection is in a transaction
  expired, \* documents past their lifetime
  pc,      \* where the thread of each call is
  lock,    \* the call that holds the lock
  todo,    \* documents a thread has still to write
  cancels, crashes

vars == <<saved, rows, open, expired, pc, lock, todo, cancels, crashes>>

NoCall == "no call"
Ended == {"done", "failed"}
Store == INSTANCE DocumentStore WITH
  docs <- saved, pending <- {c \in Calls : pc[c] \notin Ended}

TypeOK ==
  /\ \A d \in {saved, rows} : DOMAIN d \subseteq Ids /\ \A i \in DOMAIN d : d[i] \in Store!Doc
  /\ open \in BOOLEAN /\ expired \subseteq Ids /\ lock \in Calls \cup {NoCall}
  /\ pc \in [Calls -> {"waits", "starts", "reads", "writes"} \cup Ended]
  /\ \A c \in Calls : DOMAIN todo[c] \subseteq Ids
  /\ cancels \in 0..MaxCancels /\ crashes \in 0..MaxCrashes

Init ==
  /\ saved = Store!Nothing /\ rows = Store!Nothing /\ open = FALSE /\ expired = {}
  /\ pc = [c \in Calls |-> "waits"] /\ lock = NoCall
  /\ todo = [c \in Calls |-> Store!Nothing] /\ cancels = 0 /\ crashes = 0

\* A statement: outside a transaction it is committed at once.
Execute(d) == rows' = d /\ saved' = IF open THEN saved ELSE d
Goes(c, where) ==
  /\ pc' = [pc EXCEPT ![c] = where]
  /\ lock' = IF where \in Ended /\ lock = c THEN NoCall ELSE lock
Unbounded == UNCHANGED <<cancels, crashes>>

Submit(c) ==
  /\ pc[c] = "waits" /\ lock = NoCall
  /\ pc' = [pc EXCEPT ![c] = "starts"] /\ lock' = c
  /\ UNCHANGED <<saved, rows, open, expired, todo>> /\ Unbounded

\* A plausible bug: BEGIN inside the try, so that its failure rolls back.
BeginAndRollBack(c) ==
  /\ IF open THEN Goes(c, "failed") /\ open' = FALSE /\ rows' = saved
             ELSE Goes(c, "reads") /\ open' = TRUE /\ rows' = rows
  /\ UNCHANGED <<saved, expired, todo>>

\* BEGIN IMMEDIATE fails within a transaction; nothing is rolled back then.
BeginWrite(c) ==
  /\ IF open THEN Goes(c, "failed") /\ open' = open
             ELSE Goes(c, "reads") /\ open' = TRUE
  /\ UNCHANGED <<saved, rows, expired, todo>>

Begin(c) ==
  /\ pc[c] = "starts"
  /\ \/ Op[c] # "find" /\ BeginWrite(c)
     \/ /\ Op[c] = "find" /\ Goes(c, "reads")
        /\ UNCHANGED <<saved, rows, open, expired, todo>>
  /\ Unbounded

\* A plausible bug: an error leaves the transaction open.
RollBackForgotten(c) == Goes(c, "failed") /\ UNCHANGED <<saved, rows, open>>
\* ROLLBACK itself fails when no transaction is open.
RollBack(c) ==
  /\ Goes(c, "failed")
  /\ open' = FALSE /\ rows' = IF open THEN saved ELSE rows
  /\ UNCHANGED saved

\* Expired documents are purged, then the documents are read.
Read(c) ==
  /\ pc[c] = "reads"
  /\ LET alive == Store!Live(rows, expired)
         writes == Store!Writes(c, alive, Store!Free(alive))
     IN /\ Execute(alive)
        /\ IF Op[c] = "find" THEN Goes(c, "done") /\ todo' = todo
           ELSE \E w \in writes : Goes(c, "writes") /\ todo' = [todo EXCEPT ![c] = w]
  /\ UNCHANGED <<open, expired>> /\ Unbounded

\* A plausible bug: a document is compared with what is committed only.
ClashesCommitted(doc, i) == \E j \in DOMAIN saved \ {i} : saved[j].key = doc.key
\* _assert_unique_sync
Clashes(doc, i) == \E j \in DOMAIN rows \ {i} : rows[j].key = doc.key

Write(c) ==
  /\ pc[c] = "writes"
  /\ \E i \in DOMAIN todo[c] :
       IF Clashes(todo[c][i], i)
       THEN RollBack(c) /\ todo' = [todo EXCEPT ![c] = Store!Nothing]
       ELSE /\ Execute(Store!Written(rows, [j \in {i} |-> todo[c][i]]))
            /\ todo' = [todo EXCEPT ![c] = [j \in DOMAIN todo[c] \ {i} |-> todo[c][j]]]
            /\ UNCHANGED <<open, pc, lock>>
  /\ UNCHANGED expired /\ Unbounded

\* COMMIT, of whatever transaction is open; it fails when none is.
Commit(c) ==
  /\ pc[c] = "writes" /\ DOMAIN todo[c] = {}
  /\ IF open THEN Goes(c, "done") /\ saved' = rows ELSE Goes(c, "failed") /\ saved' = saved
  /\ open' = FALSE
  /\ UNCHANGED <<rows, expired, todo>> /\ Unbounded

\* A thread that has not begun may still be dropped; any other goes on.
Cancel(c) ==
  /\ lock = c /\ cancels < MaxCancels
  /\ lock' = NoCall
  /\ \/ pc' = pc
     \/ pc[c] = "starts" /\ pc' = [pc EXCEPT ![c] = "failed"]
  /\ cancels' = cancels + 1
  /\ UNCHANGED <<saved, rows, open, expired, todo, crashes>>

\* The process is killed; calls that waited for the lock are made again.
Crash ==
  /\ crashes < MaxCrashes /\ crashes' = crashes + 1
  /\ rows' = saved /\ open' = FALSE /\ lock' = NoCall
  /\ pc' = [c \in Calls |-> IF pc[c] \in {"starts", "reads", "writes"} THEN "failed" ELSE pc[c]]
  /\ todo' = [c \in Calls |-> Store!Nothing]
  /\ UNCHANGED <<saved, expired, cancels>>

Expire(i) ==
  /\ i \in DOMAIN saved \ expired /\ expired' = expired \cup {i}
  /\ UNCHANGED <<saved, rows, open, pc, lock, todo>> /\ Unbounded

Next ==
  \/ \E c \in Calls : Submit(c) \/ Begin(c) \/ Read(c) \/ Write(c) \/ Commit(c) \/ Cancel(c)
  \/ \E i \in Ids : Expire(i)
  \/ Crash

Spec == Init /\ [][Next]_vars

--------------------------------------------------------------------------------
(* Whatever is cancelled or killed, each call takes effect once and as a     *)
(* whole, or not at all.  Code: the lock, the transactions and their         *)
(* rollbacks in SQLiteDatabase; "restart-safety semantics" of its header.    *)
DatabaseSpec == Store!Spec

(* An open transaction belongs to a call that is still running: one left     *)
(* open would make every later BEGIN fail.                                   *)
NoOrphan == open => \E c \in Calls : Op[c] # "find" /\ pc[c] \in {"reads", "writes"}

(* No two committed documents share the value of a unique index. *)
UniqueKept == Store!Unique(saved)
================================================================================
