------------------------------ MODULE MCStores ------------------------------
(***************************************************************************)
(* An instance of what keeps data for the program: its database, the spool  *)
(* of evidence, the move of old collections to the volume, and the storage  *)
(* runtime, whose module this one extends, with a clock that steps back.    *)
(* In one behaviour one of them moves, the one in focus.                          *)
(***************************************************************************)
EXTENDS StorageRuntime, TLC

CONSTANT k1

VARIABLES
  focus,
  saved, dbRows, open, expired, dbPc, lock, todo, cancels, crashes,
  files, disk, writing, stored, rest, spoolBatch, phase, repository, spoolFaults,
  mongo, marker, at, cursor, days, notes, samples, moveFaults

storage == vars
database == <<saved, dbRows, open, expired, dbPc, lock, todo, cancels, crashes>>
spool == <<files, disk, writing, stored, rest, spoolBatch, phase, repository, spoolFaults>>
move == <<mongo, marker, at, cursor, days, notes, samples, moveFaults>>

\* Two users of one unique key, one rename, one upsert, a reader, a deletion.
Database == INSTANCE LocalDatabase WITH
  Ids <- {1, 2}, Keys <- {"k1", "k2", "k3"}, Calls <- {"a", "b", "c", "d", "e", "f"},
  Op <- [a |-> "insert", b |-> "replace", c |-> "rename", d |-> "upsert", e |-> "find",
         f |-> "delete"],
  Key <- [a |-> "k1", b |-> "k1", c |-> "k3", d |-> "k2", e |-> "k1", f |-> "k1"],
  MaxCancels <- 1, MaxCrashes <- 1, rows <- dbRows, pc <- dbPc

\* One event of four is refused by the export, one is routine; two days.
DayOf(e) == IF e \in {"e1", "e2", "bad"} THEN 1 ELSE 2
Spool == INSTANCE EvidenceSpool WITH
  Events <- {"e1", "e2", "e3", "bad"}, Refused <- {"bad"}, Routine <- {"e2"}, Day <- DayOf,
  MaxBatch <- 2, MaxFaults <- 2, faults <- spoolFaults, batch <- spoolBatch

Old == {"routes", "labs", "notes"}
Move == INSTANCE LegacyRetirement WITH
  Days <- {"d1", "d2"}, Notes <- {"n1", "n2"}, MaxSamples <- 2, MaxFaults <- 2,
  faults <- moveFaults

OneKey == {k1}

ASSUME Spool!SpoolAssumption /\ Database!Store!StoreAssumption

StoresInit ==
  /\ focus \in {"database", "spool", "move", "storage"}
  /\ Database!Init /\ Spool!Init /\ Move!Init /\ Init

StoresNext ==
  \/ focus = "database" /\ Database!Next /\ UNCHANGED <<focus, spool, move, storage>>
  \/ focus = "spool" /\ Spool!Next /\ UNCHANGED <<focus, database, move, storage>>
  \/ focus = "move" /\ Move!Next /\ UNCHANGED <<focus, database, spool, storage>>
  \/ focus = "storage" /\ Next /\ UNCHANGED <<focus, database, spool, move>>

storesVars == <<focus, database, spool, move, storage>>
(* Only the component in focus needs its fairness. *)
StoresSpec ==
  /\ StoresInit /\ [][StoresNext]_storesVars
  /\ WF_spool(focus = "spool" /\ Spool!Sync)
  /\ WF_spool(focus = "spool" /\ Spool!Removing)
  /\ \A t \in Old : WF_move(focus = "move" /\ Move!Work(t))

(* Each variable has its type. *)
StoresTypeOK ==
  /\ focus = "database" => Database!TypeOK
  /\ focus = "spool" => Spool!TypeOK
  /\ focus = "move" => Move!TypeOK
  /\ focus = "storage" => TypeOK

(* LocalDatabase: it is the store the program expects. *)
DatabaseSpec == Database!DatabaseSpec
(* LocalDatabase: no transaction is left open, and a unique index holds. *)
DatabaseSound == focus = "database" => Database!NoOrphan /\ Database!UniqueKept
(* EvidenceSpool: stored evidence is not lost; LegacyRetirement: a marker tells the truth, and *)
(* new samples outlive the copy of old ones.                                                  *)
NothingLost ==
  /\ focus = "spool" => Spool!EvidenceKept
  /\ focus = "move" => Move!MarkersHonest /\ Move!SamplesKept
(* EvidenceSpool: stored evidence leaves the volume; LegacyRetirement: the old collections go. *)
StoresDrain ==
  /\ Spool!EvidenceDrains
  /\ []<>(focus = "move" => Move!AllGone)
================================================================================
