--------------------------- MODULE AlertProfiles ---------------------------
(***************************************************************************)
(* One user's alert configuration: the profiles and the active one         *)
(* (app/alert_profiles.py), their copy in the preferences and locations    *)
(* collections, and the copy of that copy the monitor works with, loaded   *)
(* by the storage runtime through the storage guard.                       *)
(*                                                                         *)
(* Two tasks change profiles: the bot, which handles one update at a time, *)
(* and the migration started with the process. The loader runs beside them *)
(* and may write too, to repair a torn copy. Every database call is a step *)
(* of its own; reads that follow each other at the head of an operation    *)
(* are one step, and so are a write and what its caller does at its answer.*)
(***************************************************************************)
EXTENDS Integers, FiniteSets

CONSTANTS
    Drafts,       \* contents a profile may be given: location and preferences
    Legacy,       \* what the user had before there were profiles, 0: nothing
    Switching,    \* monitoring may be switched off and on (admin, blocked bot)
    Restarting,   \* the process may restart
    Ambiguous,    \* a write that failed may have happened
    None,
    MaxProfiles,  \* bound: profiles ever made
    MaxIncidents  \* bound: calls that fail or time out, restarts and switches

ASSUME DraftsAssumption == Drafts \subseteq Nat \ {0} /\ Legacy \in Nat
ASSUME SwitchesAssumption ==
    {Switching, Restarting, Ambiguous} \subseteq BOOLEAN
ASSUME LimitsAssumption == {MaxProfiles, MaxIncidents} \subseteq Nat

Actors  == {"bot", "migration"}
Content == Drafts \cup {0, Legacy}  \* 0: nothing configured
Config  == [prefs : Content, place : Content]
ASSUME NoneAssumption == None \notin Config
Empty   == [prefs |-> 0, place |-> 0]
Draft(c) == [prefs |-> c, place |-> c]

\* A document of preferences or locations. Revision 0 is none: a document
\* from before profiles, or one that is not there.
Doc     == [data : Content, rev : Nat]
Missing == [data |-> 0, rev |-> 0]

Task ==
    [at : {"idle", "oldPrefs", "oldPlace", "insert", "prefs", "place", "commit",
           "remove", "setup"},
     doing : {"nothing", "default", "create", "copy", "save", "activate", "restore"},
     id : Nat, config : Config, rev : Nat, undo : Config \cup {None},
     victim : Nat, setup : BOOLEAN]
NoTask ==
    [at |-> "idle", doing |-> "nothing", id |-> 0, config |-> Empty, rev |-> 0,
     undo |-> None, victim |-> 0, setup |-> FALSE]

\* What the loader has read: got is the pair it would publish, None if torn.
Load ==
    [at : {"idle", "place", "prefs", "end", "profile", "fixPrefs", "fixPlace",
           "seePlace", "seePrefs", "seen"},
     setup : BOOLEAN, id : Nat, place : Doc, got : Config \cup {None},
     config : Config, rev : Nat]
NoLoad ==
    [at |-> "idle", setup |-> FALSE, id |-> 0, place |-> Missing, got |-> None,
     config |-> Empty, rev |-> 0]

VARIABLES
    profiles,    \* the profiles, by id; ids in the order of creation
    made,        \* how many were ever made
    active,      \* users.active_profile_id
    setup,       \* users.setup_complete
    prefs,       \* the user's document in preferences
    place,       \* the user's document in locations
    task,        \* what the bot and the migration are doing
    migrated,    \* the migration of this process ran
    load,        \* what the loader has read so far
    image,       \* the configuration the monitor uses
    invalidated, \* _config_invalidated
    incidents,    \* history, bounded
    crossed,     \* history: an operation ran since this load began
    met,         \* history: the bot and the migration were at it at once
    disturbed    \* history: they met, a repair used what was read before an
                 \* operation, or a failed call changed profiles

user    == <<profiles, made, active, setup>>
copy    == <<prefs, place>>
worker  == <<load, image, invalidated>>
history == <<crossed, met, disturbed>>
vars    == <<user, copy, task, migrated, worker, incidents, history>>

TypeOK ==
    /\ DOMAIN profiles \in SUBSET (1..MaxProfiles)
    /\ \A i \in DOMAIN profiles : profiles[i] \in Config
    /\ made \in 0..MaxProfiles /\ active \in 0..MaxProfiles /\ setup \in BOOLEAN
    /\ prefs \in Doc /\ place \in Doc
    /\ task \in [Actors -> Task] /\ migrated \in BOOLEAN
    /\ load \in Load /\ image \in Config \cup {None} /\ invalidated \in BOOLEAN
    /\ incidents \in Nat /\ {crossed, met, disturbed} \subseteq BOOLEAN

Init ==
    /\ profiles = [i \in {} |-> Empty] /\ made = 0 /\ active = 0
    /\ setup = (Legacy # 0)
    /\ prefs = [data |-> Legacy, rev |-> 0] /\ place = prefs
    /\ task = [a \in Actors |-> NoTask] /\ migrated = FALSE
    /\ load = NoLoad /\ image = None /\ invalidated = TRUE
    /\ incidents = 0 /\ crossed = FALSE /\ met = FALSE /\ disturbed = FALSE

-----------------------------------------------------------------------------

Larger(a, b) == IF a >= b THEN a ELSE b
Least(S) == CHOOSE i \in S : \A j \in S : i <= j

\* uuid4: a revision nobody holds.
Fresh ==
    LET held == {prefs.rev, place.rev, load.place.rev, load.rev}
                    \cup {task[a].rev : a \in Actors}
    IN  CHOOSE r \in 1..(Cardinality(held) + 1) : r \notin held

Coherent(p, l) == p.rev # 0 /\ p.rev = l.rev

\* Mutant: the revisions are not compared.
PairUnchecked(p, l) ==
    IF p.rev # 0 /\ l.rev # 0 THEN [prefs |-> p.data, place |-> l.data] ELSE None

Pair(p, l) ==
    IF Coherent(p, l) THEN [prefs |-> p.data, place |-> l.data] ELSE None

\* The head of activate_profile: what to materialize and what to go back to.
Activating(i, config, first, victim) ==
    [at |-> "prefs", doing |-> "activate", id |-> i, config |-> config, rev |-> 0,
     undo |-> IF active \in DOMAIN profiles \ {i} THEN profiles[active] ELSE None,
     victim |-> victim, setup |-> first]

\* Mutant: a profile is saved without a look at whether it is the active one.
SavingUnpublished(i, config, first) ==
    [at |-> "commit", doing |-> "save", id |-> i, config |-> config, rev |-> 0,
     undo |-> None, victim |-> 0, setup |-> first]

\* The head of save_profile: an active profile is materialized first.
Saving(i, config, first) ==
    LET live == active = i
    IN  [at |-> IF live THEN "prefs" ELSE "commit", doing |-> "save", id |-> i,
         config |-> config, rev |-> 0,
         undo |-> IF live THEN profiles[i] ELSE None, victim |-> 0, setup |-> first]

\* Mutants: nothing is restored; the restore does not look whether there is anything.
UndoneNever(t)  == NoTask
UndoneAnyhow(t) == [NoTask EXCEPT !.at = "prefs", !.doing = "restore", !.config = t.undo]

\* After an exception: _restore_materialized_profile, then the exception goes on.
Undone(t) ==
    IF t.undo = None THEN NoTask
    ELSE [NoTask EXCEPT !.at = "prefs", !.doing = "restore", !.config = t.undo]

\* A profile about to be made: its id comes before its insertion.
Making(doing, config, first) ==
    [at |-> IF doing = "default" THEN "oldPrefs" ELSE "insert", doing |-> doing,
     id |-> made + 1, config |-> config, rev |-> 0, undo |-> None, victim |-> 0,
     setup |-> first]

\* ensure_default_profile: a first profile from the old documents, or the
\* oldest profile in place of a missing active one.
Ensuring ==
    IF DOMAIN profiles = {} THEN Making("default", Empty, FALSE)
    ELSE IF active \in DOMAIN profiles THEN NoTask
    ELSE LET i == Least(DOMAIN profiles) IN Activating(i, profiles[i], FALSE, 0)

Repairing == load.at \in {"fixPrefs", "fixPlace"}
Idle      == \A a \in Actors : task[a] = NoTask

\* The history variables follow every step.
Record ==
    /\ crossed' = (load'.at # "idle" /\ (crossed \/ ~Idle \/ ~Idle'))
    /\ met' = (met \/ \A a \in Actors : task'[a] # NoTask)
    /\ disturbed' = \/ disturbed \/ met'
                    \/ Repairing' /\ crossed'
                    \/ incidents' # incidents /\ <<profiles, active>>' # <<profiles, active>>

-----------------------------------------------------------------------------
(* Operations of the user, one at a time.                                  *)

Becomes(a, t) == task' = [task EXCEPT ![a] = t]

Begin(a, t) ==
    /\ task[a] = NoTask
    /\ Becomes(a, t)
    /\ made' = Larger(made, t.id) /\ made' <= MaxProfiles
    /\ UNCHANGED <<profiles, active, setup, copy, worker, incidents>>
    /\ Record

User(t) == Begin("bot", t) /\ UNCHANGED migrated

Ensure == Ensuring # NoTask /\ User(Ensuring)

Create(c)    == active \in DOMAIN profiles /\ User(Making("create", Draft(c), TRUE))
Duplicate(i) == User(Making("copy", profiles[i], FALSE))

\* Editing a profile, or the setup of a new user, which ends with monitoring on.
Save(i, c) == User(Saving(i, Draft(c), FALSE))
SetUp(c)   == active \in DOMAIN profiles /\ User(Saving(active, Draft(c), TRUE))
Rename(i)  == User(Saving(i, profiles[i], FALSE))

Activate(i) == User(Activating(i, profiles[i], FALSE, 0))

\* Mutant: the fallback is activated after the deletion.
DeleteFirst(i) ==
    /\ Cardinality(DOMAIN profiles) > 1
    /\ User([NoTask EXCEPT !.at = "remove", !.victim = i])

Delete(i) ==
    /\ Cardinality(DOMAIN profiles) > 1
    /\ IF active = i
       THEN LET j == Least(DOMAIN profiles \ {i})
            IN  User(Activating(j, profiles[j], FALSE, i))
       ELSE User([NoTask EXCEPT !.at = "remove", !.victim = i])

Bot ==
    \/ Ensure
    \/ \E c \in Drafts : Create(c) \/ SetUp(c)
    \/ \E i \in DOMAIN profiles :
           Duplicate(i) \/ Rename(i) \/ Activate(i) \/ Delete(i)
    \/ \E i \in DOMAIN profiles, c \in Drafts : Save(i, c)

\* migrate_existing_users: every configured user gets a profile.
Migrate ==
    /\ ~migrated /\ setup
    /\ migrated' = TRUE
    /\ Begin("migration", Ensuring)

-----------------------------------------------------------------------------
(* The database calls of a task, one per step: first what they change.     *)

Inserted(t) ==
    /\ t.at = "insert"
    /\ profiles' = [i \in DOMAIN profiles \cup {t.id} |->
                        IF i = t.id THEN t.config ELSE profiles[i]]
    /\ UNCHANGED <<active, setup, copy>>

PrefsWritten(t) ==
    /\ t.at = "prefs"
    /\ prefs' = [data |-> t.config.prefs, rev |-> Fresh]
    /\ UNCHANGED <<profiles, active, setup, place>>

\* A configuration without coordinates deletes the document.
PlaceWritten(t) ==
    /\ t.at = "place"
    /\ place' = IF t.config.place = 0 THEN Missing
                ELSE [data |-> t.config.place, rev |-> t.rev]
    /\ UNCHANGED <<profiles, active, setup, prefs>>

\* An update of a profile that is gone changes nothing.
Committed(t) ==
    /\ t.at = "commit"
    /\ \/ /\ t.doing = "save"
          /\ profiles' = [i \in DOMAIN profiles |->
                              IF i = t.id THEN t.config ELSE profiles[i]]
          /\ UNCHANGED active
       \/ t.doing # "save" /\ active' = t.id /\ UNCHANGED profiles
    /\ UNCHANGED <<setup, copy>>

SetupSaved(t) ==
    t.at = "setup" /\ setup' = TRUE /\ UNCHANGED <<profiles, active, copy>>

Removed(t) ==
    /\ t.at = "remove"
    /\ profiles' = [i \in DOMAIN profiles \ {t.victim} |-> profiles[i]]
    /\ UNCHANGED <<active, setup, copy>>

Effect(t) ==
    \/ Inserted(t) \/ PrefsWritten(t) \/ PlaceWritten(t)
    \/ Committed(t) \/ SetupSaved(t) \/ Removed(t)

Unmoved == UNCHANGED <<made, migrated, load, image, incidents>> /\ Record

ReadOldPrefs(a) ==
    /\ task[a].at = "oldPrefs"
    /\ Becomes(a, [task[a] EXCEPT !.at = "oldPlace", !.config.prefs = prefs.data])
    /\ Unmoved /\ UNCHANGED <<profiles, active, setup, copy, invalidated>>

ReadOldPlace(a) ==
    /\ task[a].at = "oldPlace"
    /\ Becomes(a, [task[a] EXCEPT !.at = "insert", !.config.place = place.data])
    /\ Unmoved /\ UNCHANGED <<profiles, active, setup, copy, invalidated>>

Insert(a) ==
    LET t == task[a]
    IN  /\ Inserted(t)
        /\ Becomes(a, CASE t.doing = "default" -> [t EXCEPT !.at = "commit"]
                        [] t.doing = "create"  -> Activating(t.id, t.config, TRUE, 0)
                        [] t.doing = "copy"    -> NoTask)
        /\ Unmoved /\ UNCHANGED invalidated

\* materialize_profile: preferences, then the location, then the cache is told.
WritePrefs(a) ==
    /\ PrefsWritten(task[a])
    /\ Becomes(a, [task[a] EXCEPT !.at = "place", !.rev = Fresh])
    /\ Unmoved /\ UNCHANGED invalidated

WritePlace(a) ==
    LET t == task[a]
    IN  /\ PlaceWritten(t)
        /\ invalidated' = TRUE
        /\ Becomes(a, IF t.doing = "restore" THEN NoTask
                      ELSE [t EXCEPT !.at = "commit", !.rev = 0])
        /\ Unmoved

\* What follows the commit: delete_profile, the end of a setup, or nothing.
Commit(a) ==
    LET t == task[a]
    IN  /\ Committed(t)
        /\ Becomes(a, IF t.victim # 0
                      THEN [NoTask EXCEPT !.at = "remove", !.victim = t.victim]
                      ELSE IF t.setup THEN [NoTask EXCEPT !.at = "setup", !.doing = t.doing]
                      ELSE NoTask)
        /\ Unmoved /\ UNCHANGED invalidated

\* save_edit_v542 tells the cache again, the other callers do not.
FinishSetup(a) ==
    /\ SetupSaved(task[a])
    /\ invalidated' = (invalidated \/ task[a].doing = "save")
    /\ Becomes(a, NoTask)
    /\ Unmoved

\* After delete_one get_active_profile makes sure there is an active one.
Remove(a) ==
    LET rest == DOMAIN profiles \ {task[a].victim}
        i    == Least(rest)
    IN  /\ Removed(task[a])
        /\ Becomes(a, IF active \in rest THEN NoTask
                      ELSE [Activating(i, profiles[i], FALSE, 0) EXCEPT !.undo = None])
        /\ Unmoved /\ UNCHANGED invalidated

\* The call of a task raises: a failed materialization or commit is rolled
\* back, a failed rollback is logged, and the operation ends with the exception.
Fail(a) ==
    /\ task[a] # NoTask /\ incidents < MaxIncidents
    /\ incidents' = incidents + 1
    /\ Becomes(a, Undone(task[a]))
    /\ \/ UNCHANGED <<profiles, active, setup, copy>>
       \/ Ambiguous /\ Effect(task[a])
    /\ UNCHANGED <<made, migrated, worker>> /\ Record

Step(a) ==
    \/ ReadOldPrefs(a) \/ ReadOldPlace(a) \/ Insert(a) \/ WritePrefs(a)
    \/ WritePlace(a) \/ Commit(a) \/ FinishSetup(a) \/ Remove(a)

-----------------------------------------------------------------------------
(* The loader: _load_active_users_coherent under refresh_config_once.      *)

Unmoving == UNCHANGED <<user, task, migrated, incidents>> /\ Record

LoadUser ==
    /\ load = NoLoad
    /\ load' = [NoLoad EXCEPT !.at = IF setup THEN "place" ELSE "end",
                              !.setup = setup, !.id = active]
    /\ Unmoving /\ UNCHANGED <<copy, image, invalidated>>

LoadPlace ==
    /\ load.at \in {"place", "seePlace"}
    /\ load' = [load EXCEPT !.at = IF load.at = "place" THEN "prefs" ELSE "seePrefs",
                            !.place = place]
    /\ Unmoving /\ UNCHANGED <<copy, image, invalidated>>

LoadPrefs ==
    /\ load.at \in {"prefs", "seePrefs"}
    /\ load' = [load EXCEPT !.at = IF load.at = "prefs" THEN "end" ELSE "seen",
                            !.place = Missing, !.got = Pair(prefs, load.place)]
    /\ Unmoving /\ UNCHANGED <<copy, image, invalidated>>

\* The new image is complete; it replaces the old one and the flag is reset.
Loaded(config) ==
    /\ image' = config /\ invalidated' = FALSE /\ load' = NoLoad
    /\ Unmoving /\ UNCHANGED copy

\* Mutants: a torn pair takes the user out; a good image is kept for ever.
DecisionDropsTorn == IF load.setup THEN load.got ELSE None
DecisionKeepsLast ==
    IF ~load.setup THEN None ELSE IF image # None THEN image ELSE load.got

\* A torn pair never replaces the last good one; without one it is repaired.
Decision ==
    IF ~load.setup THEN None ELSE IF load.got # None THEN load.got ELSE image

Repairs == load.at = "end" /\ load.setup /\ load.id # 0 /\ Decision = None

Decide == load.at = "end" /\ ~Repairs /\ Loaded(Decision)

BeginRepair ==
    /\ Repairs
    /\ load' = [load EXCEPT !.at = "profile"]
    /\ Unmoving /\ UNCHANGED <<copy, image, invalidated>>

LoadProfile ==
    /\ load.at = "profile"
    /\ \/ load.id \notin DOMAIN profiles /\ Loaded(None)
       \/ /\ load.id \in DOMAIN profiles
          /\ load' = [load EXCEPT !.at = "fixPrefs", !.id = 0,
                                      !.config = profiles[load.id]]
          /\ Unmoving /\ UNCHANGED <<copy, image, invalidated>>

PrefsFixed ==
    /\ load.at = "fixPrefs"
    /\ prefs' = [data |-> load.config.prefs, rev |-> Fresh] /\ UNCHANGED place

PlaceFixed ==
    /\ load.at = "fixPlace"
    /\ place' = IF load.config.place = 0 THEN Missing
                ELSE [data |-> load.config.place, rev |-> load.rev]
    /\ UNCHANGED prefs

FixPrefs ==
    /\ PrefsFixed
    /\ load' = [load EXCEPT !.at = "fixPlace", !.rev = Fresh]
    /\ Unmoving /\ UNCHANGED <<image, invalidated>>

FixPlace ==
    /\ PlaceFixed
    /\ invalidated' = TRUE
    /\ load' = [load EXCEPT !.at = "seePlace", !.config = Empty, !.rev = 0]
    /\ Unmoving /\ UNCHANGED image

Repaired == load.at = "seen" /\ Loaded(load.got)

Loading ==
    \/ LoadPlace \/ LoadPrefs \/ Decide \/ BeginRepair \/ LoadProfile
    \/ FixPrefs \/ FixPlace \/ Repaired

\* A call of the loader fails or wait_for cancels it: the old image stays. An
\* exception inside the repair only leaves this user out of the new image.
LoadFails ==
    /\ load # NoLoad /\ incidents < MaxIncidents
    /\ incidents' = incidents + 1
    /\ \/ UNCHANGED copy
       \/ Ambiguous /\ (PrefsFixed \/ PlaceFixed)
    /\ load' = NoLoad
    /\ \/ UNCHANGED <<image, invalidated>>
       \/ /\ load.at \in {"profile", "fixPrefs", "fixPlace", "seePlace", "seePrefs"}
          /\ image' = None /\ invalidated' = FALSE
    /\ UNCHANGED <<user, task, migrated>> /\ Record

-----------------------------------------------------------------------------

\* The administrator, or Telegram's answer that the user blocked the bot.
Switch ==
    /\ Switching /\ incidents < MaxIncidents
    /\ incidents' = incidents + 1 /\ setup' = ~setup
    /\ UNCHANGED <<profiles, made, active, copy, task, migrated, worker>>
    /\ Record

Restart ==
    /\ Restarting /\ incidents < MaxIncidents
    /\ incidents' = incidents + 1
    /\ task' = [a \in Actors |-> NoTask] /\ migrated' = FALSE
    /\ load' = NoLoad /\ image' = None /\ invalidated' = TRUE
    /\ UNCHANGED <<user, copy>> /\ Record

Next ==
    \/ Bot \/ Migrate \/ LoadUser \/ Loading \/ LoadFails \/ Switch \/ Restart
    \/ \E a \in Actors : Step(a) \/ Fail(a)

Spec == Init /\ [][Next]_vars

\* Tasks and the loader go on; the refresh loop starts one load after another.
FairSpec ==
    /\ Spec
    /\ \A a \in Actors : WF_vars(Step(a))
    /\ WF_vars(LoadUser \/ Loading)

-----------------------------------------------------------------------------
(* Properties.                                                             *)

\* The user is never left with an active profile that does not exist, in the
\* middle of a deletion or after one that failed either (delete_profile activates
\* the fallback first), as long as no operation meets the migration.
ActiveExists == active # 0 /\ ~disturbed => active \in DOMAIN profiles

\* Whatever fails, is torn or is repaired while operations and loads interleave, the
\* monitor never works with the location of one configuration and the preferences of
\* another (the revision check of _load_active_users_coherent), as long as the bot and
\* the migration were never at work at once: the migration makes the first profile of
\* two documents it reads one after the other (ensure_default_profile), and when the
\* bot writes them in between, that profile is mixed before anybody loads it.
NeverMixed == image # None => met \/ image.prefs = image.place

\* A user the monitor watches stays watched, whatever fails or is torn, unless
\* monitoring was switched off or the process restarts (_load_active_users_coherent).
KeepsMonitoring ==
    [][(image # None /\ image' = None) => (load.at = "end" /\ ~load.setup) \/ Restart]_vars

InStep ==
    active # 0 => /\ prefs.data = profiles[active].prefs
                  /\ place.data = profiles[active].place

\* When no operation is in progress the copy is the active profile, also after
\* an operation that failed half-way (save_profile, activate_profile), as long as
\* no operation meets another one or a repair; and the active profile exists.
CopyIsActive == ActiveExists /\ (Idle /\ ~Repairing /\ ~disturbed => InStep)

\* Monitoring is switched on for a new user only when the copy is complete
\* (save_edit_v542, _save_new), as long as no operation meets another.
SetupIsReady ==
    [][(~disturbed /\ ~setup /\ setup' /\ task' # task) => Coherent(prefs, place)]_vars

Settled  == Idle /\ setup /\ ~disturbed /\ active # 0
Followed == /\ active \in DOMAIN profiles
            /\ profiles[active].place # 0 => image = profiles[active]

\* If the user's operations come to an end with a whole copy of the active profile,
\* which has a location, the monitor works with it in the end, after a restart too
\* (_refresh_loop).
MonitorFollowsWhole ==
    <>[](Settled /\ Coherent(prefs, place) /\ InStep) => <>[]Followed
=============================================================================
