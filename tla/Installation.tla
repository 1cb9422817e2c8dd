---------------------------- MODULE Installation ----------------------------
(***************************************************************************)
(* A self-hosted installation (scripts/community_installer_v55.py): a git   *)
(* tree at a release, its virtual environment, the system service that runs *)
(* it, and the updater, started by a timer or by hand.  The updater saves   *)
(* what it will change, moves the tree to the newest release, asks the      *)
(* doctor (app/doctor_v49.py) before and after it restarts the service, and *)
(* undoes everything if an answer is bad.                                   *)
(*                                                                          *)
(* The commands the updater runs take minutes.  Between two of them the     *)
(* service writes its database, dies and is started again, the host         *)
(* reboots, and the user runs the installer's other operations.             *)
(***************************************************************************)
EXTENDS Naturals

CONSTANTS
  None,
  Backends,     \* of "sqlite", a local file, and "mongodb"
  MaxRelease,   \* bound: releases published
  Broken,       \* releases whose offline doctor fails
  MaxWrites,    \* bound: writes of the service
  MaxFaults     \* bound: failures of the network, deaths of the service, reboots

Releases == 1..MaxRelease
\* Of the constants; an instance assumes it.
InstallationAssumption ==
  /\ Backends \subseteq {"sqlite", "mongodb"} /\ MaxRelease \in Nat \ {0} /\ MaxWrites \in Nat
  /\ Broken \subseteq Releases /\ None \notin Nat

VARIABLES
  backend,   \* DATABASE_BACKEND, as first configured
  newest,    \* the newest stable release
  checkout,  \* the release the tree is at
  installed, \* the release the environment is for, None: an install was cut short
  policy, timer, service, \* metadata, the update timer, the unit
  running,   \* the release in memory, None: the service is down
  at, target, backup,     \* the updater: its place, its release, what it saved
  damaged,   \* an updater died, or could not undo; until one succeeds
  approved,  \* history: the release the doctor approved last
  file, wal, \* the database file; the log beside it and the file it belongs to
  written, faults

tree == <<checkout, installed>>
units == <<policy, timer, service>>
updater == <<at, target, backup, damaged, approved>>
database == <<file, wal, written>>
vars == <<backend, newest, tree, units, running, updater, database, faults>>

Torn == MaxWrites + 1   \* pages of two states of the database
Places == {"idle", "accepted", "saved", "moved", "ready", "tested", "restarted", "failed",
           "code undone", "data undone", "undone"}
TypeOK ==
  /\ backend \in Backends /\ newest \in Releases /\ checkout \in Releases
  /\ installed \in Releases \cup {None}
  /\ policy \in {"automatic", "manual"} /\ timer \in BOOLEAN /\ service \in BOOLEAN
  /\ running \in Releases \cup {None}
  /\ at \in Places /\ target \in Releases
  /\ backup \in [code : Releases, data : 0..Torn] /\ damaged \in BOOLEAN
  /\ approved \in Releases
  /\ file \in 0..Torn /\ written \in 0..MaxWrites /\ faults \in 0..MaxFaults
  /\ wal \in [over : 0..Torn, holds : 0..Torn] \cup {None}

Init ==
  /\ backend \in Backends /\ newest = 1 /\ checkout = 1 /\ installed = 1 /\ running = 1
  /\ policy = "automatic" /\ timer = TRUE /\ service = TRUE
  /\ at = "idle" /\ target = 1 /\ backup = [code |-> 1, data |-> 0] /\ damaged = FALSE
  /\ approved = 1
  /\ file = 0 /\ wal = None /\ written = 0 /\ faults = 0

Fault == faults < MaxFaults /\ faults' = faults + 1

Publish ==
  /\ newest < MaxRelease /\ newest' = newest + 1
  /\ UNCHANGED <<tree, units, running, updater, database, faults>>

----------------------------------------------------------------------------
(* The database: what a reader sees of the file and its log.  The log has   *)
(* the pages written since the file was last brought up to date, so it      *)
(* covers any file since then; over an older one, pages of two states meet. *)
Content ==
  IF wal = None THEN file ELSE IF file \in wal.over..wal.holds THEN wal.holds ELSE Torn

Write ==
  /\ backend = "sqlite" /\ running # None /\ written < MaxWrites
  /\ written' = written + 1
  /\ wal' = [over |-> IF wal = None THEN file ELSE wal.over, holds |-> written + 1]
  /\ UNCHANGED <<newest, tree, units, running, updater, file, faults>>

(* SQLite brings the file up to date when the log is long enough.           *)
Checkpoint ==
  /\ wal # None /\ running # None /\ file' = Content /\ wal' = None
  /\ UNCHANGED <<newest, tree, units, running, updater, written, faults>>

(* A release starts on the environment of another one, or does not.  A      *)
(* service that is stopped in order leaves no log beside the file.          *)
Starts(code, environment) ==
  running' \in IF environment = code THEN {code} ELSE {code, None}
CloseDatabase ==
  IF running = None THEN UNCHANGED database
  ELSE file' = Content /\ wal' = None /\ UNCHANGED written

(* Restart=always.                                                          *)
Die ==
  /\ service /\ running # None /\ Fault
  /\ Starts(checkout, installed)
  /\ UNCHANGED <<newest, tree, units, updater, database>>

----------------------------------------------------------------------------
(* The installer's other operations.                                        *)

(* install_service: an automatic policy enables the timer, a manual one     *)
(* leaves it as it is.                                                      *)
InstallService(p) ==
  /\ service' = TRUE /\ policy' = p /\ timer' = (timer \/ p = "automatic")

(* install_dependencies: all of them, or some.                              *)
InstallDependencies(code) ==
  \/ installed' = code /\ UNCHANGED faults
  \/ installed' = None /\ Fault

Configure(p) ==
  /\ InstallService(p)
  /\ IF service THEN Starts(checkout, installed) /\ CloseDatabase
     ELSE Starts(checkout, installed) /\ UNCHANGED database
  /\ UNCHANGED <<newest, tree, updater, faults>>

(* A service that runs is not restarted by a repair or a second install.    *)
Enable(p) ==
  /\ InstallService(p)
  /\ IF running = None THEN running' = checkout ELSE UNCHANGED running
(* A second install asks the offline doctor before it touches the service.  *)
Install(p) ==
  /\ InstallDependencies(checkout)
  /\ IF installed' # checkout THEN UNCHANGED <<units, running>>
     ELSE IF checkout \in Broken THEN policy' = p /\ UNCHANGED <<timer, service, running>>
     ELSE Enable(p)
  /\ UNCHANGED <<newest, checkout, updater, database>>
Repair ==
  /\ InstallDependencies(checkout)
  /\ IF installed' = checkout THEN Enable(policy) ELSE UNCHANGED <<units, running>>
  /\ UNCHANGED <<newest, checkout, updater, database>>

Uninstall ==
  /\ service /\ service' = FALSE /\ timer' = FALSE
  /\ running' = None /\ CloseDatabase
  /\ UNCHANGED <<newest, tree, policy, updater, faults>>

----------------------------------------------------------------------------
(* update(): the checks that refuse it, then one command after the other.   *)
Go(from, to) == at = from /\ at' = to

\* Mutant: a release that was tried is not tried again.
AcceptOnce ==
  /\ Go("idle", "accepted") /\ newest > target
  /\ installed = checkout /\ checkout \notin Broken
  /\ target' = newest
  /\ UNCHANGED <<newest, tree, units, running, backup, damaged, approved, database, faults>>
Accept ==
  /\ Go("idle", "accepted") /\ newest > checkout
  /\ installed = checkout /\ checkout \notin Broken
  /\ target' = newest
  /\ UNCHANGED <<newest, tree, units, running, backup, damaged, approved, database, faults>>
ByTimer == timer /\ Accept
ByHand == Accept

Save ==
  /\ Go("accepted", "saved") /\ backup' = [code |-> checkout, data |-> Content]
  /\ UNCHANGED <<newest, tree, units, running, target, damaged, approved, database, faults>>

Move ==
  /\ \/ Go("saved", "moved") /\ checkout' = target /\ UNCHANGED faults
     \/ Go("saved", "failed") /\ Fault /\ UNCHANGED checkout
  /\ UNCHANGED <<newest, installed, units, running, target, backup, damaged, approved, database>>

Prepare ==
  /\ at = "moved" /\ InstallDependencies(target)
  /\ at' = IF installed' = target THEN "ready" ELSE "failed"
  /\ UNCHANGED <<newest, checkout, units, running, target, backup, damaged, approved, database>>

Test ==
  /\ at = "ready" /\ at' = IF target \in Broken THEN "failed" ELSE "tested"
  /\ UNCHANGED <<newest, tree, units, running, target, backup, damaged, approved, database, faults>>

(* restart_service: a unit that was removed is not there to restart.        *)
RestartService ==
  IF service THEN Starts(checkout, installed) /\ CloseDatabase ELSE UNCHANGED <<running, database>>

Restart ==
  /\ Go("tested", "restarted") /\ RestartService
  /\ UNCHANGED <<newest, tree, units, target, backup, damaged, approved, faults>>

(* The doctor that scripts/planealerts runs knows of MongoDB only; it asks  *)
(* the database and Telegram, not the service.                              *)
Judge ==
  /\ \/ /\ Go("restarted", "idle") /\ backend = "mongodb" /\ damaged' = FALSE
        /\ approved' = target /\ UNCHANGED faults
     \/ /\ Go("restarted", "failed") /\ UNCHANGED <<damaged, approved>>
        /\ IF backend = "mongodb" THEN Fault ELSE UNCHANGED faults
  /\ UNCHANGED <<newest, tree, units, running, target, backup, database>>

\* Mutant: the tree stays at the release that failed.
UndoCodeKept ==
  /\ Go("failed", "code undone")
  /\ UNCHANGED <<newest, tree, units, running, target, backup, damaged, approved, database, faults>>
UndoCode ==
  /\ Go("failed", "code undone") /\ checkout' = backup.code
  /\ UNCHANGED <<newest, installed, units, running, target, backup, damaged, approved, database,
                 faults>>

(* The file is copied back while the service has it open.                   *)
UndoData ==
  /\ Go("code undone", "data undone")
  /\ file' = IF backend = "sqlite" THEN backup.data ELSE file
  /\ UNCHANGED <<newest, tree, units, running, target, backup, damaged, approved, wal, written,
                 faults>>

\* Mutant: the environment of the release that failed is kept.
UndoEnvironmentKept ==
  /\ Go("data undone", "undone")
  /\ UNCHANGED <<newest, tree, units, running, target, backup, damaged, approved, database, faults>>
UndoEnvironment ==
  /\ at = "data undone" /\ InstallDependencies(checkout)
  /\ IF installed' = checkout THEN at' = "undone" /\ UNCHANGED damaged
     ELSE at' = "idle" /\ damaged' = TRUE
  /\ UNCHANGED <<newest, checkout, units, running, target, backup, approved, database>>

UndoRestart ==
  /\ Go("undone", "idle") /\ RestartService
  /\ UNCHANGED <<newest, tree, units, target, backup, damaged, approved, faults>>

Proceed ==
  Save \/ Move \/ Prepare \/ Test \/ Restart \/ Judge \/ UndoCode \/ UndoData \/ UndoEnvironment
  \/ UndoRestart

(* The host goes down under the updater, and comes back with the service.   *)
Reboot ==
  /\ at # "idle" /\ at' = "idle" /\ damaged' = TRUE /\ Fault
  /\ IF service THEN Starts(checkout, installed) ELSE UNCHANGED running
  /\ UNCHANGED <<newest, tree, units, target, backup, approved, database>>

Next ==
  /\ \/ Publish \/ Write \/ Checkpoint \/ Die \/ Repair \/ Uninstall
     \/ \E p \in {"automatic", "manual"} : Configure(p) \/ Install(p)
     \/ ByTimer \/ ByHand \/ Proceed \/ Reboot
  /\ UNCHANGED backend

Spec ==
  /\ Init /\ [][Next]_vars
  /\ WF_vars(ByTimer /\ UNCHANGED backend)
  /\ WF_vars(Proceed /\ UNCHANGED backend)

----------------------------------------------------------------------------
(* An updater that ends, well or badly, leaves the tree, the environment    *)
(* and the service at the release the doctor approved last, whatever the    *)
(* user and the service did between its commands; unless it was killed, or  *)
(* could not even undo.                                                     *)
AtRest ==
  at = "idle" /\ ~damaged /\ installed # None =>
    checkout = approved /\ installed = checkout /\ running \in {checkout, None}

(* A sound newest release is running in the end, though the network fails   *)
(* now and then: a failed update leaves what the next one needs.  With the  *)
(* local database the doctor never approves.                                *)
Settled ==
  backend = "mongodb" /\ timer /\ service /\ ~damaged /\ installed # None /\ newest \notin Broken
Updated == []<>(Settled => running = newest /\ at = "idle")
=============================================================================
