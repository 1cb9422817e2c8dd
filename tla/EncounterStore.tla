--------------------------- MODULE EncounterStore ---------------------------
(***************************************************************************)
(* What the storage runtime promises the monitor about each encounter      *)
(* record (docs/releases/V4_8_0.md): a decision counts at once, it reaches *)
(* the database later, the stored record only ever moves forward, a record *)
(* called safe is the stored one, and a process that starts again continues *)
(* from exactly what is stored.                                            *)
(*                                                                         *)
(* Decisions about a key are numbered; 0 stands for no record. The keys are *)
(* independent of each other, so a step is one step of each of them.        *)
(***************************************************************************)
EXTENDS Naturals

CONSTANT Keys

VARIABLES
    latest, \* the decision the monitor reads
    stored, \* the decision the database holds
    safe,   \* nothing waits to be written
    ended   \* which copies of the record are past their lifetime

vars == <<latest, stored, safe, ended>>

Init ==
    /\ latest = [k \in Keys |-> 0]
    /\ stored = [k \in Keys |-> 0]
    /\ safe = [k \in Keys |-> TRUE]
    /\ ended \in [Keys -> SUBSET {"latest", "stored"}]

\* A decision is never taken in ignorance of a stored record that still lives.
Decide(k) ==
    /\ latest[k] = 0 => stored[k] = 0 \/ "stored" \in ended[k]
    /\ latest'[k] > latest[k] /\ latest'[k] > stored[k]
    /\ ~safe'[k]
    /\ stored'[k] = stored[k]

Persist(k) ==
    /\ latest'[k] = latest[k]
    /\ stored[k] <= stored'[k] /\ stored'[k] <= latest[k]
    /\ safe'[k] => safe[k] \/ stored'[k] = latest[k]

Forget(k) ==
    /\ safe[k] /\ "latest" \in ended[k]
    /\ latest'[k] = 0
    /\ safe'[k] /\ stored'[k] = stored[k]

Expire(k) ==
    /\ "stored" \in ended[k]
    /\ stored'[k] = 0
    /\ latest'[k] = latest[k] /\ safe'[k] = safe[k]

\* The process stops; a write in flight may still have taken effect.
Lose(k) ==
    /\ latest'[k] = 0 /\ safe'[k]
    /\ stored[k] <= stored'[k] /\ (stored'[k] = stored[k] \/ stored'[k] <= latest[k])

Restore(k) ==
    /\ latest[k] = 0 /\ latest'[k] = stored[k]
    /\ safe'[k] /\ stored'[k] = stored[k]

Unchanged(k) ==
    latest'[k] = latest[k] /\ stored'[k] = stored[k] /\ safe'[k] = safe[k]

KeyNext(k) ==
    \/ Decide(k) \/ Persist(k) \/ Forget(k) \/ Expire(k)
    \/ Lose(k) \/ Restore(k) \/ Unchanged(k)

Next == \A k \in Keys : KeyNext(k)

Spec == Init /\ [][Next]_vars
=============================================================================
