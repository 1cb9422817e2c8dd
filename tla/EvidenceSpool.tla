---------------------------- MODULE EvidenceSpool ----------------------------
(***************************************************************************)
(* Evidence on the volume until a repository has it.  The program appends   *)
(* events as files (app/prediction_lab_files_v55.py); short of space, it    *)
(* refuses them and compacts what is there into bundles                     *)
(* (app/prediction_lab_spool_v567.py); a workflow outside fetches batches,  *)
(* pushes them to the repository and acknowledges them, which removes the   *)
(* files (app/prediction_lab_sync_bridge_v5610.py, with the schemas of      *)
(* app/prediction_lab_schema_guard.py).                                     *)
(*                                                                          *)
(* A file is the set of the events in it: one event for a raw file, more    *)
(* for a bundle.  The name of a file is a hash of its content, so the same  *)
(* event written twice is one file.                                         *)
(***************************************************************************)
EXTENDS Naturals, FiniteSets

CONSTANTS
  Events,      \* events the program appends
  Refused,     \* those the export refuses: another schema, a credential in a value
  Routine,     \* those of a kind that is not written when space is low
  Day(_),      \* the day of an event: the directory it is in
  MaxBatch,    \* files in a batch
  MaxFaults    \* bound: failures of the disk or the network, and crashes

\* Of the constants; an instance assumes it.
SpoolAssumption == Refused \cup Routine \subseteq Events /\ MaxBatch \in Nat \ {0}

VARIABLES
  files,       \* the files on the volume
  disk,        \* free space
  writing,     \* events of appends on their way to the disk
  stored,      \* events whose append returned a path
  rest,        \* what a compaction has still to remove, once its bundle is there
  batch,       \* files the workflow fetched
  phase,       \* what the workflow does with them
  repository,  \* events that were pushed
  faults

vars == <<files, disk, writing, stored, rest, batch, phase, repository, faults>>
program == <<disk, writing, stored>>
workflow == <<batch, phase, repository>>

Raw(f) == Cardinality(f) = 1

TypeOK ==
  /\ files \subseteq (SUBSET Events) \ {{}}
  /\ disk \in {"ok", "low", "critical", "full"}
  /\ writing \subseteq Events /\ stored \subseteq Events /\ repository \subseteq Events
  /\ rest \subseteq {f \in SUBSET Events : Raw(f)} /\ batch \subseteq SUBSET Events
  /\ phase \in {"idle", "fetched", "pushed", "removing"} /\ faults \in 0..MaxFaults

Init ==
  /\ files = {} /\ disk = "ok" /\ writing = {} /\ stored = {} /\ rest = {}
  /\ batch = {} /\ phase = "idle" /\ repository = {} /\ faults = 0

Fault == faults < MaxFaults /\ faults' = faults + 1

\* Space comes and goes with the other users of the volume.
DiskChanges ==
  /\ disk' \in {"ok", "low", "critical", "full"} \ {disk} /\ Fault
  /\ UNCHANGED <<files, writing, stored, rest, workflow>>

ShouldWrite(e) == disk = "ok" \/ (disk = "low" /\ e \notin Routine)

\* The raw files of the first day that has some; the export refuses none of
\* them here.
Candidates ==
  LET raw == {f \in files : Raw(f)}
      DayOf(f) == Day(CHOOSE e \in f : TRUE)
  IN {f \in raw : \A g \in raw : DayOf(f) <= DayOf(g)}

\* A plausible bug: the files go although the bundle could not be written.
CompactUnverified ==
  \E chosen \in SUBSET Candidates :
    /\ Cardinality(chosen) >= 2 /\ disk # "full" /\ rest = {}
    /\ \/ files' = files \cup {UNION chosen} /\ rest' = chosen /\ faults' = faults
       \/ files' = files /\ rest' = chosen /\ Fault

\* compact_unsynced_raw: two files at least, the bundle verified before the
\* first of them is removed, no room without free space.
Compact ==
  \/ UNCHANGED <<files, rest, faults>>  \* rate limit, headroom, too few files
  \/ \E chosen \in SUBSET Candidates :
       /\ Cardinality(chosen) >= 2 /\ disk # "full" /\ rest = {}
       /\ \/ files' = files \cup {UNION chosen} /\ rest' = chosen /\ faults' = faults
          \/ UNCHANGED <<files, rest>> /\ Fault

\* append_evidence, until the write or the refusal.
Append(e) ==
  /\ e \notin writing \cup stored
  /\ IF ShouldWrite(e)
     THEN writing' = writing \cup {e} /\ UNCHANGED <<files, rest, faults>>
     ELSE writing' = writing /\ Compact
  /\ UNCHANGED <<disk, stored, workflow>>

\* write_evidence replaces the file at once, or fails and leaves nothing; an
\* append that failed for want of space compacts.
Write(e) ==
  /\ e \in writing /\ writing' = writing \ {e}
  /\ \/ /\ disk # "full" /\ files' = files \cup {{e}} /\ stored' = stored \cup {e}
        /\ UNCHANGED <<rest, faults>>
     \/ disk = "full" /\ Compact /\ stored' = stored
     \/ Fault /\ UNCHANGED <<files, rest, stored>>
  /\ UNCHANGED <<disk, workflow>>

\* A compaction removes its sources one by one; one it cannot remove stays.
RemoveSource(f) ==
  /\ f \in rest /\ rest' = rest \ {f}
  /\ \/ files' = files \ {f} /\ faults' = faults
     \/ files' = files /\ Fault
  /\ UNCHANGED <<program, workflow>>

\* A plausible bug: one file that is refused fails the whole batch.
ExportableTogether(all) == IF \E f \in all : f \cap Refused # {} THEN {} ELSE all
\* _validate_payload: a bundle is refused for any of its rows.
Exportable(all) == {f \in all : f \cap Refused = {}}

\* build_batch_zip: what is refused stays and is passed over.  There is no
\* batch, and no push, when nothing can be exported.
Fetch ==
  /\ phase = "idle"
  /\ \E some \in SUBSET Exportable(files) :
       /\ Cardinality(some) \in 1..MaxBatch
       /\ Cardinality(some) = MaxBatch \/ some = Exportable(files)
       /\ batch' = some
  /\ phase' = "fetched"
  /\ UNCHANGED <<files, rest, repository, program, faults>>

Push ==
  /\ phase = "fetched" /\ phase' = "pushed"
  /\ repository' = repository \cup UNION batch
  /\ UNCHANGED <<files, rest, batch, program, faults>>

\* acknowledge, first half: nothing is removed when one file is missing.
Acknowledge ==
  /\ phase = "pushed"
  /\ phase' = IF batch \subseteq files THEN "removing" ELSE "idle"
  /\ batch' = IF batch \subseteq files THEN batch ELSE {}
  /\ UNCHANGED <<files, rest, repository, program, faults>>

\* Second half: each is looked at again before it goes; a compaction may
\* have been faster, which ends the call and leaves the rest.
RemoveAcknowledged ==
  /\ phase = "removing"
  /\ IF batch = {} THEN phase' = "idle" /\ UNCHANGED <<batch, files>>
     ELSE \E f \in batch :
       IF f \in files THEN files' = files \ {f} /\ batch' = batch \ {f} /\ phase' = phase
       ELSE phase' = "idle" /\ batch' = {} /\ files' = files
  /\ UNCHANGED <<rest, repository, program, faults>>

\* The workflow is killed or a transfer is lost; the next one starts anew.
WorkflowFails ==
  /\ phase # "idle" /\ Fault
  /\ phase' = "idle" /\ batch' = {} /\ UNCHANGED <<files, rest, repository, program>>

Crash ==
  /\ Fault
  /\ writing' = {} /\ rest' = {} /\ UNCHANGED <<files, disk, stored>>
  /\ \/ UNCHANGED workflow
     \/ phase = "removing" /\ phase' = "idle" /\ batch' = {} /\ repository' = repository

Next ==
  \/ \E e \in Events : Append(e) \/ Write(e)
  \/ \E f \in rest : RemoveSource(f)
  \/ Fetch \/ Push \/ Acknowledge \/ RemoveAcknowledged \/ WorkflowFails
  \/ DiskChanges \/ Crash

Sync == Fetch \/ Push \/ Acknowledge \/ RemoveAcknowledged
Removing == \E f \in rest : RemoveSource(f)
Spec == Init /\ [][Next]_vars /\ WF_vars(Sync) /\ WF_vars(Removing)

--------------------------------------------------------------------------------
(* Evidence that was stored is on the volume or in the repository, whatever  *)
(* is compacted, acknowledged or killed meanwhile.  Code: "deletes an        *)
(* evidence file only after ...", "losslessly".                              *)
EvidenceKept == stored \subseteq (UNION files) \cup repository

(* Stored evidence reaches the repository whatever refused files lie beside  *)
(* it, unless a compaction put it in one bundle with what is refused.        *)
EvidenceDrains ==
  \A e \in Events \ Refused :
    []<>(e \in stored => e \in repository \/ \E f \in files : e \in f /\ f \cap Refused # {})
================================================================================
