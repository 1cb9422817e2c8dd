------------------------- MODULE AlertProfilesProofs -------------------------
(***************************************************************************)
(* Theorems about AlertProfiles for every set of contents, any number of    *)
(* profiles and, unless a theorem says otherwise, any number of incidents.  *)
(***************************************************************************)
EXTENDS AlertProfiles, FiniteSetTheorems, WellFoundedInduction, TLAPS

-----------------------------------------------------------------------------
(* The operators.                                                          *)

\* The oldest profile is one of them.
LEMMA LeastIn ==
    ASSUME NEW S \in SUBSET Nat, S # {}
    PROVE  Least(S) \in S /\ \A j \in S : Least(S) <= j
<1>. DEFINE R == OpToRel(<, Nat)
<1>1. IsWellFoundedOn(R, Nat)
  BY NatLessThanWellFounded
<1>2. \A i, j \in Nat : <<j, i>> \in R <=> j < i
  BY DEF OpToRel
<1>. HIDE DEF R
<1>3. PICK i \in S : \A j \in S : ~(<<j, i>> \in R)
  BY <1>1, WFMin
<1>4. \A j \in S : ~(j < i)
  BY <1>2, <1>3, Zenon
<1>5. \A j \in S : i <= j
  BY <1>4
<1>. QED  BY <1>5 DEF Least

\* A finite set stays finite with four more elements.
LEMMA FewMore ==
    ASSUME NEW S, IsFiniteSet(S), NEW x, NEW y, NEW u, NEW v
    PROVE  IsFiniteSet(S \cup {x, y, u, v})
<1>1. IsFiniteSet(S \cup {x})
  BY FS_AddElement
<1>2. IsFiniteSet((S \cup {x}) \cup {y})
  BY <1>1, FS_AddElement
<1>3. IsFiniteSet(((S \cup {x}) \cup {y}) \cup {u})
  BY <1>2, FS_AddElement
<1>4. IsFiniteSet((((S \cup {x}) \cup {y}) \cup {u}) \cup {v})
  BY <1>3, FS_AddElement
<1>5. (((S \cup {x}) \cup {y}) \cup {u}) \cup {v} = S \cup {x, y, u, v}
  OBVIOUS
<1>. QED  BY <1>4, <1>5

\* A new revision is one, and nobody holds it.
LEMMA FreshNew ==
    ASSUME TypeOK
    PROVE  /\ Fresh \in Nat \ {0}
           /\ Fresh # prefs.rev /\ Fresh # place.rev
           /\ Fresh # load.place.rev /\ Fresh # load.rev
           /\ \A a \in Actors : Fresh # task[a].rev
<1>. DEFINE tasks == {task["bot"].rev, task["migration"].rev}
            held  == {prefs.rev, place.rev, load.place.rev, load.rev}
                         \cup {task[a].rev : a \in Actors}
            n     == Cardinality(held)
<1>1. IsFiniteSet(tasks)
  <2>1. IsFiniteSet({} \cup {task["bot"].rev, task["migration"].rev,
                            task["bot"].rev, task["migration"].rev})
    BY FS_EmptySet, FewMore
  <2>. QED  BY <2>1
<1>2. IsFiniteSet(tasks \cup {prefs.rev, place.rev, load.place.rev, load.rev})
  BY <1>1, FewMore
<1>3. held = tasks \cup {prefs.rev, place.rev, load.place.rev, load.rev}
  BY DEF Actors
<1>4. IsFiniteSet(held)
  BY <1>2, <1>3
<1>. HIDE DEF held
<1>5. n \in Nat
  BY <1>4, FS_CardinalityType
<1>6. \E r \in 1..(n + 1) : r \notin held
  <2>. SUFFICES ASSUME 1..(n + 1) \subseteq held  PROVE FALSE
    OBVIOUS
  <2>1. Cardinality(1..(n + 1)) = n + 1
    BY <1>5, FS_Interval
  <2>2. Cardinality(1..(n + 1)) <= n
    BY <1>4, FS_Subset
  <2>. QED  BY <1>5, <2>1, <2>2
<1>7. Fresh \in 1..(n + 1) /\ Fresh \notin held
  BY <1>6 DEF Fresh, held
<1>. QED  BY <1>5, <1>7 DEF held

-----------------------------------------------------------------------------
(* Type correctness.                                                       *)

\* A configuration, a document, and what a task and a load hold.
LEMMA ConfigType ==
    /\ Empty \in Config /\ Missing \in Doc
    /\ \A c \in Drafts : Draft(c) \in Config
    /\ \A c \in Config : c.prefs \in Content /\ c.place \in Content
    /\ \A p, q \in Content : [prefs |-> p, place |-> q] \in Config
    /\ \A x \in Content : \A r \in Nat : [data |-> x, rev |-> r] \in Doc
    /\ \A d \in Doc : d.data \in Content /\ d.rev \in Nat
  BY DraftsAssumption DEF Config, Content, Empty, Missing, Doc, Draft

LEMMA TaskFields ==
    ASSUME NEW t \in Task
    PROVE  /\ t.at \in {"idle", "oldPrefs", "oldPlace", "insert", "prefs", "place",
                        "commit", "remove", "setup"}
           /\ t.doing \in {"nothing", "default", "create", "copy", "save",
                           "activate", "restore"}
           /\ t.id \in Nat /\ t.config \in Config /\ t.rev \in Nat
           /\ t.undo \in Config \cup {None} /\ t.victim \in Nat /\ t.setup \in BOOLEAN
  BY DEF Task

\* Only the task of a changes.
Only(a) ==
    task' \in [Actors -> Task] /\ \A b \in Actors : b # a => task'[b] = task[b]

LEMMA Becoming ==
    ASSUME TypeOK, NEW a \in Actors, NEW t \in Task, Becomes(a, t)
    PROVE  Only(a) /\ task'[a] = t
  BY DEF TypeOK, Becomes, Only

LEMMA IdleTask ==
    /\ NoTask \in Task
    /\ NoTask.at = "idle" /\ NoTask.doing = "nothing" /\ NoTask.id = 0
    /\ NoTask.config = Empty /\ NoTask.rev = 0 /\ NoTask.undo = None
    /\ NoTask.victim = 0 /\ ~NoTask.setup
  BY ConfigType DEF NoTask, Task

\* The tasks an operation may begin with, by their fields.
Started(t) ==
    /\ t.rev = 0
    /\ \/ /\ t.at = "oldPrefs" /\ t.doing = "default" /\ t.id = made + 1
          /\ t.config = Empty /\ t.undo = None /\ t.victim = 0 /\ ~t.setup
          /\ DOMAIN profiles = {}
       \/ /\ t.at = "insert" /\ t.doing = "create" /\ t.id = made + 1
          /\ t.undo = None /\ t.victim = 0 /\ t.setup
          /\ \E c \in Drafts : t.config = Draft(c)
       \/ /\ t.at = "insert" /\ t.doing = "copy" /\ t.id = made + 1
          /\ t.undo = None /\ t.victim = 0 /\ ~t.setup
          /\ \E i \in DOMAIN profiles : t.config = profiles[i]
       \/ /\ t.doing = "save" /\ t.id \in DOMAIN profiles /\ t.victim = 0
          /\ t.at = IF t.id = active THEN "prefs" ELSE "commit"
          /\ t.undo = IF t.id = active THEN profiles[active] ELSE None
          /\ \/ t.config = profiles[t.id] /\ ~t.setup
             \/ (\E c \in Drafts : t.config = Draft(c)) /\ (t.setup => t.id = active)
       \/ /\ t.at = "prefs" /\ t.doing = "activate" /\ t.id \in DOMAIN profiles
          /\ t.config = profiles[t.id] /\ ~t.setup
          /\ t.undo = IF active \in DOMAIN profiles \ {t.id} THEN profiles[active] ELSE None
          /\ t.victim = 0 \/ (t.victim = active /\ t.victim # t.id)
       \/ /\ t.at = "remove" /\ t.doing = "nothing" /\ t.id = 0 /\ t.config = Empty
          /\ t.undo = None /\ ~t.setup /\ t.victim # active
          /\ \E j \in DOMAIN profiles : j # t.victim

LEMMA MakingType ==
    ASSUME TypeOK, NEW d \in {"default", "create", "copy"}, NEW c \in Config,
           NEW s \in BOOLEAN
    PROVE  Making(d, c, s) \in Task
<1>1. made + 1 \in Nat
  BY LimitsAssumption DEF TypeOK
<1>. QED  BY <1>1 DEF Task, Making

LEMMA ActivatingType ==
    ASSUME TypeOK, NEW i \in Nat, NEW c \in Config, NEW s \in BOOLEAN, NEW v \in Nat
    PROVE  Activating(i, c, s, v) \in Task
<1>1. (IF active \in DOMAIN profiles \ {i} THEN profiles[active] ELSE None)
          \in Config \cup {None}
  BY DEF TypeOK
<1>. QED  BY <1>1 DEF Activating, Task

LEMMA SavingType ==
    ASSUME TypeOK, NEW i \in DOMAIN profiles, NEW c \in Config, NEW s \in BOOLEAN
    PROVE  Saving(i, c, s) \in Task
<1>1. /\ (IF active = i THEN profiles[i] ELSE None) \in Config \cup {None}
      /\ i \in Nat
  BY LimitsAssumption DEF TypeOK
<1>. QED  BY <1>1 DEF Saving, Task

LEMMA RemovingType ==
    ASSUME NEW v \in Nat
    PROVE  LET t == [NoTask EXCEPT !.at = "remove", !.victim = v]
           IN  /\ t \in Task
               /\ t.at = "remove" /\ t.doing = "nothing" /\ t.id = 0
               /\ t.config = Empty /\ t.rev = 0 /\ t.undo = None
               /\ t.victim = v /\ ~t.setup
<1>. DEFINE t1 == [NoTask EXCEPT !.at = "remove"]
            t2 == [t1 EXCEPT !.victim = v]
<1>1. /\ t1 \in Task
      /\ t1.at = "remove" /\ t1.doing = "nothing" /\ t1.id = 0
      /\ t1.config = Empty /\ t1.rev = 0 /\ t1.undo = None /\ ~t1.setup
  BY IdleTask DEF Task
<1>2. /\ t2 \in Task
      /\ t2.at = "remove" /\ t2.doing = "nothing" /\ t2.id = 0
      /\ t2.config = Empty /\ t2.rev = 0 /\ t2.undo = None
      /\ t2.victim = v /\ ~t2.setup
  <2>. HIDE DEF t1
  <2>. QED  BY <1>1 DEF Task
<1>. QED  BY <1>2

\* An activation may begin for any profile.
LEMMA ActivatingStarts ==
    ASSUME TypeOK, NEW i \in DOMAIN profiles, NEW v \in Nat,
           v = 0 \/ (v = active /\ v # i)
    PROVE  /\ Activating(i, profiles[i], FALSE, v) \in Task
           /\ Started(Activating(i, profiles[i], FALSE, v))
<1>. /\ DOMAIN profiles \subseteq Nat
     /\ \A j \in DOMAIN profiles : profiles[j] \in Config
  BY LimitsAssumption DEF TypeOK
<1>1. Activating(i, profiles[i], FALSE, v) \in Task
  BY ActivatingType
<1>2. Started(Activating(i, profiles[i], FALSE, v))
  BY DEF Activating, Started
<1>. QED  BY <1>1, <1>2

\* What a task ensures when there is no active profile.
LEMMA EnsuringStarts ==
    ASSUME TypeOK
    PROVE  /\ Ensuring \in Task /\ Ensuring.victim = 0 /\ Ensuring.at # "remove"
           /\ Ensuring # NoTask => Started(Ensuring)
<1>. /\ active \in Nat /\ DOMAIN profiles \subseteq Nat
     /\ \A i \in DOMAIN profiles : profiles[i] \in Config
  BY LimitsAssumption DEF TypeOK
<1>1. CASE DOMAIN profiles = {}
  <2>1. Making("default", Empty, FALSE) \in Task
    BY ConfigType, MakingType
  <2>. QED  BY <1>1, <2>1 DEF Ensuring, Making, Started
<1>2. CASE DOMAIN profiles # {} /\ active \in DOMAIN profiles
  BY <1>2, IdleTask DEF Ensuring
<1>3. CASE DOMAIN profiles # {} /\ active \notin DOMAIN profiles
  <2>. DEFINE i == Least(DOMAIN profiles)
  <2>1. i \in DOMAIN profiles
    BY <1>3, LeastIn
  <2>. HIDE DEF i
  <2>2. Ensuring = Activating(i, profiles[i], FALSE, 0)
    BY <1>3 DEF Ensuring, i
  <2>3. /\ Activating(i, profiles[i], FALSE, 0) \in Task
        /\ Started(Activating(i, profiles[i], FALSE, 0))
    BY <2>1, ActivatingStarts
  <2>4. /\ Activating(i, profiles[i], FALSE, 0).victim = 0
        /\ Activating(i, profiles[i], FALSE, 0).at = "prefs"
    BY DEF Activating
  <2>. QED  BY <2>2, <2>3, <2>4
<1>. QED  BY <1>1, <1>2, <1>3

\* Every operation of the user begins with one of these tasks.
LEMMA BotStarts ==
    ASSUME TypeOK, Bot
    PROVE  \E t \in Task : Started(t) /\ Begin("bot", t) /\ migrated' = migrated
<1>. /\ active \in Nat /\ DOMAIN profiles \subseteq Nat
     /\ \A i \in DOMAIN profiles : profiles[i] \in Config
  BY LimitsAssumption DEF TypeOK
<1>1. CASE Ensure
  BY <1>1, EnsuringStarts DEF Ensure, User
<1>2. ASSUME NEW c \in Drafts, Create(c)
      PROVE  \E t \in Task : Started(t) /\ Begin("bot", t) /\ migrated' = migrated
  <2>1. Making("create", Draft(c), TRUE) \in Task
    BY ConfigType, MakingType
  <2>2. Started(Making("create", Draft(c), TRUE))
    BY DEF Making, Started
  <2>. QED  BY <1>2, <2>1, <2>2 DEF Create, User
<1>3. ASSUME NEW i \in DOMAIN profiles, Duplicate(i)
      PROVE  \E t \in Task : Started(t) /\ Begin("bot", t) /\ migrated' = migrated
  <2>1. Making("copy", profiles[i], FALSE) \in Task
    BY MakingType
  <2>2. Started(Making("copy", profiles[i], FALSE))
    BY DEF Making, Started
  <2>. QED  BY <1>3, <2>1, <2>2 DEF Duplicate, User
<1>4. ASSUME NEW c \in Drafts, SetUp(c)
      PROVE  \E t \in Task : Started(t) /\ Begin("bot", t) /\ migrated' = migrated
  <2>1. Saving(active, Draft(c), TRUE) \in Task
    BY <1>4, ConfigType, SavingType DEF SetUp
  <2>2. Started(Saving(active, Draft(c), TRUE))
    BY <1>4 DEF SetUp, Saving, Started
  <2>. QED  BY <1>4, <2>1, <2>2 DEF SetUp, User
<1>5. ASSUME NEW i \in DOMAIN profiles, NEW c \in Drafts, Save(i, c)
      PROVE  \E t \in Task : Started(t) /\ Begin("bot", t) /\ migrated' = migrated
  <2>1. Saving(i, Draft(c), FALSE) \in Task
    BY ConfigType, SavingType
  <2>2. Started(Saving(i, Draft(c), FALSE))
    BY DEF Saving, Started
  <2>. QED  BY <1>5, <2>1, <2>2 DEF Save, User
<1>6. ASSUME NEW i \in DOMAIN profiles, Rename(i)
      PROVE  \E t \in Task : Started(t) /\ Begin("bot", t) /\ migrated' = migrated
  <2>1. Saving(i, profiles[i], FALSE) \in Task
    BY SavingType
  <2>2. Started(Saving(i, profiles[i], FALSE))
    BY DEF Saving, Started
  <2>. QED  BY <1>6, <2>1, <2>2 DEF Rename, User
<1>7. ASSUME NEW i \in DOMAIN profiles, Activate(i)
      PROVE  \E t \in Task : Started(t) /\ Begin("bot", t) /\ migrated' = migrated
  <2>1. User(Activating(i, profiles[i], FALSE, 0))
    BY <1>7 DEF Activate
  <2>2. /\ Activating(i, profiles[i], FALSE, 0) \in Task
        /\ Started(Activating(i, profiles[i], FALSE, 0))
    BY ActivatingStarts
  <2>. QED  BY <2>1, <2>2 DEF User
<1>8. ASSUME NEW i \in DOMAIN profiles, Delete(i)
      PROVE  \E t \in Task : Started(t) /\ Begin("bot", t) /\ migrated' = migrated
  <2>1. DOMAIN profiles \ {i} # {}
    <3>1. DOMAIN profiles # {i}
      BY <1>8, FS_Singleton DEF Delete
    <3>. QED  BY <3>1
  <2>2. CASE active = i
    <3>. DEFINE j == Least(DOMAIN profiles \ {i})
    <3>1. j \in DOMAIN profiles \ {i}
      BY <2>1, LeastIn
    <3>. HIDE DEF j
    <3>2. User(Activating(j, profiles[j], FALSE, i))
      BY <1>8, <2>2 DEF Delete, j
    <3>. QED  BY <2>2, <3>1, <3>2, ActivatingStarts DEF User
  <2>3. CASE active # i
    <3>. DEFINE t == [NoTask EXCEPT !.at = "remove", !.victim = i]
    <3>1. /\ t \in Task
          /\ t.at = "remove" /\ t.doing = "nothing" /\ t.id = 0
          /\ t.config = Empty /\ t.rev = 0 /\ t.undo = None
          /\ t.victim = i /\ ~t.setup
      BY RemovingType
    <3>2. User(t)
      BY <1>8, <2>3 DEF Delete
    <3>. HIDE DEF t
    <3>3. Started(t)
      BY <2>1, <2>3, <3>1 DEF Started
    <3>. QED  BY <3>1, <3>2, <3>3 DEF User
  <2>. QED  BY <2>2, <2>3
<1>. QED  BY <1>1, <1>2, <1>3, <1>4, <1>5, <1>6, <1>7, <1>8 DEF Bot

\* What a task does, for whom and what it goes back to.
SameJob(t, u) ==
    /\ u.doing = t.doing /\ u.id = t.id /\ u.undo = t.undo /\ u.victim = t.victim
    /\ u.setup <=> t.setup

\* Only these operations read the old documents and insert; only the bot
\* deletes, and never the last profile.
TypeInv ==
    /\ TypeOK
    /\ DOMAIN profiles \subseteq 1..made
    /\ \A a \in Actors :
          /\ task[a].id <= made
          /\ task[a].at \in {"oldPrefs", "oldPlace", "insert"} => task[a].id # 0
          /\ task[a].at \in {"oldPrefs", "oldPlace"} => task[a].doing = "default"
          /\ task[a].at = "insert" => task[a].doing \in {"default", "create", "copy"}
          /\ task[a].victim # 0 \/ task[a].at = "remove" =>
                /\ a = "bot"
                /\ \E j \in DOMAIN profiles : j # task[a].victim

\* What each step makes of the task, by its fields.
LEMMA ReadOldPrefsTask ==
    ASSUME TypeOK, NEW a \in Actors, ReadOldPrefs(a)
    PROVE  /\ Only(a) /\ task'[a] \in Task /\ SameJob(task[a], task'[a])
           /\ task'[a].at = "oldPlace" /\ task'[a].rev = task[a].rev
           /\ task'[a].config.prefs = prefs.data
           /\ task'[a].config.place = task[a].config.place
<1>. DEFINE t == task[a]
            c == [t.config EXCEPT !.prefs = prefs.data]
            u == [t EXCEPT !.at = "oldPlace", !.config = c]
            t1 == [t EXCEPT !.at = "oldPlace"]
            t2 == [t1 EXCEPT !.config = c]
<1>1. t \in Task /\ prefs.data \in Content
  BY ConfigType DEF TypeOK
<1>2. c \in Config /\ c.prefs = prefs.data /\ c.place = t.config.place
  BY <1>1, TaskFields DEF Config
<1>3. Becomes(a, [t EXCEPT !.at = "oldPlace", !.config.prefs = prefs.data])
  BY DEF ReadOldPrefs
<1>4. [t EXCEPT !.at = "oldPlace", !.config.prefs = prefs.data] = t2
  BY <1>1 DEF Task
<1>. HIDE DEF c
<1>5. t1 \in Task /\ SameJob(t, t1) /\ t1.at = "oldPlace" /\ t1.rev = t.rev
  BY <1>1 DEF Task, SameJob
<1>. HIDE DEF t, t1
<1>6. t2 \in Task /\ SameJob(t1, t2) /\ t2.at = t1.at /\ t2.rev = t1.rev /\ t2.config = c
  BY <1>2, <1>5 DEF Task, SameJob
<1>7. Only(a) /\ task'[a] = t2
  BY <1>3, <1>4, <1>6, Becoming
<1>. QED  BY <1>2, <1>5, <1>6, <1>7 DEF SameJob, t

LEMMA ReadOldPlaceTask ==
    ASSUME TypeOK, NEW a \in Actors, ReadOldPlace(a)
    PROVE  /\ Only(a) /\ task'[a] \in Task /\ SameJob(task[a], task'[a])
           /\ task'[a].at = "insert" /\ task'[a].rev = task[a].rev
           /\ task'[a].config.place = place.data
           /\ task'[a].config.prefs = task[a].config.prefs
<1>. DEFINE t == task[a]
            c == [t.config EXCEPT !.place = place.data]
            u == [t EXCEPT !.at = "insert", !.config = c]
            t1 == [t EXCEPT !.at = "insert"]
            t2 == [t1 EXCEPT !.config = c]
<1>1. t \in Task /\ place.data \in Content
  BY ConfigType DEF TypeOK
<1>2. c \in Config /\ c.place = place.data /\ c.prefs = t.config.prefs
  BY <1>1, TaskFields DEF Config
<1>3. Becomes(a, [t EXCEPT !.at = "insert", !.config.place = place.data])
  BY DEF ReadOldPlace
<1>4. [t EXCEPT !.at = "insert", !.config.place = place.data] = t2
  BY <1>1 DEF Task
<1>. HIDE DEF c
<1>5. t1 \in Task /\ SameJob(t, t1) /\ t1.at = "insert" /\ t1.rev = t.rev
  BY <1>1 DEF Task, SameJob
<1>. HIDE DEF t, t1
<1>6. t2 \in Task /\ SameJob(t1, t2) /\ t2.at = t1.at /\ t2.rev = t1.rev /\ t2.config = c
  BY <1>2, <1>5 DEF Task, SameJob
<1>7. Only(a) /\ task'[a] = t2
  BY <1>3, <1>4, <1>6, Becoming
<1>. QED  BY <1>2, <1>5, <1>6, <1>7 DEF SameJob, t

LEMMA InsertTask ==
    ASSUME TypeInv, NEW a \in Actors, Insert(a)
    PROVE  /\ Only(a) /\ task'[a] \in Task
           /\ \/ /\ task[a].doing = "default"
                 /\ SameJob(task[a], task'[a]) /\ task'[a].at = "commit"
                 /\ task'[a].rev = task[a].rev /\ task'[a].config = task[a].config
              \/ /\ task[a].doing = "create"
                 /\ task'[a].at = "prefs" /\ task'[a].doing = "activate"
                 /\ task'[a].id = task[a].id /\ task'[a].config = task[a].config
                 /\ task'[a].rev = 0 /\ task'[a].victim = 0 /\ task'[a].setup
                 /\ task'[a].undo = IF active \in DOMAIN profiles \ {task[a].id}
                                    THEN profiles[active] ELSE None
              \/ task[a].doing = "copy" /\ task'[a] = NoTask
<1>. DEFINE t == task[a]
            u == [t EXCEPT !.at = "commit"]
            w == Activating(t.id, t.config, TRUE, 0)
<1>1. /\ TypeOK /\ t \in Task /\ t.id \in Nat /\ t.config \in Config
      /\ t.doing \in {"default", "create", "copy"}
  BY TaskFields DEF TypeInv, TypeOK, Insert, Inserted
<1>2. Becomes(a, CASE t.doing = "default" -> u
                   [] t.doing = "create"  -> w
                   [] t.doing = "copy"    -> NoTask)
  BY DEF Insert
<1>3. u \in Task /\ SameJob(t, u) /\ u.at = "commit" /\ u.rev = t.rev /\ u.config = t.config
  BY <1>1 DEF Task, SameJob
<1>4. w \in Task
  BY <1>1, ActivatingType
<1>8. /\ w.at = "prefs" /\ w.doing = "activate" /\ w.id = t.id /\ w.config = t.config
      /\ w.rev = 0 /\ w.victim = 0 /\ w.setup
      /\ w.undo = IF active \in DOMAIN profiles \ {t.id} THEN profiles[active] ELSE None
  BY DEF Activating
<1>. HIDE DEF t, u, w
<1>5. CASE t.doing = "default"
  <2>1. Only(a) /\ task'[a] = u
    BY <1>1, <1>2, <1>3, <1>5, Becoming
  <2>. QED  BY <1>3, <1>5, <2>1 DEF t
<1>6. CASE t.doing = "create"
  <2>1. Only(a) /\ task'[a] = w
    BY <1>1, <1>2, <1>4, <1>6, Becoming
  <2>. QED  BY <1>4, <1>6, <1>8, <2>1 DEF t
<1>7. CASE t.doing = "copy"
  <2>1. Only(a) /\ task'[a] = NoTask
    BY <1>1, <1>2, <1>7, IdleTask, Becoming
  <2>. QED  BY <1>7, <2>1, IdleTask DEF t
<1>. QED  BY <1>1, <1>5, <1>6, <1>7

LEMMA WritePrefsTask ==
    ASSUME TypeOK, NEW a \in Actors, WritePrefs(a)
    PROVE  /\ Only(a) /\ task'[a] \in Task /\ SameJob(task[a], task'[a])
           /\ task'[a].at = "place" /\ task'[a].rev = Fresh
           /\ task'[a].config = task[a].config
<1>. DEFINE t == task[a]
            t1 == [t EXCEPT !.at = "place"]
            t2 == [t1 EXCEPT !.rev = Fresh]
<1>1. t \in Task /\ Fresh \in Nat
  BY FreshNew DEF TypeOK
<1>2. Becomes(a, [t EXCEPT !.at = "place", !.rev = Fresh])
  BY DEF WritePrefs
<1>3. [t EXCEPT !.at = "place", !.rev = Fresh] = t2
  BY <1>1 DEF Task
<1>4. t1 \in Task /\ SameJob(t, t1) /\ t1.at = "place" /\ t1.config = t.config
  BY <1>1 DEF Task, SameJob
<1>. HIDE DEF t, t1
<1>5. t2 \in Task /\ SameJob(t1, t2) /\ t2.at = t1.at /\ t2.rev = Fresh /\ t2.config = t1.config
  BY <1>1, <1>4 DEF Task, SameJob
<1>6. Only(a) /\ task'[a] = t2
  BY <1>2, <1>3, <1>5, Becoming
<1>. QED  BY <1>4, <1>5, <1>6 DEF SameJob, t

LEMMA WritePlaceTask ==
    ASSUME TypeOK, NEW a \in Actors, WritePlace(a)
    PROVE  /\ Only(a) /\ task'[a] \in Task
           /\ task[a].doing = "restore" => task'[a] = NoTask
           /\ task[a].doing # "restore" =>
                 /\ SameJob(task[a], task'[a]) /\ task'[a].at = "commit"
                 /\ task'[a].rev = 0 /\ task'[a].config = task[a].config
<1>. DEFINE t == task[a]
            t1 == [t EXCEPT !.at = "commit"]
            t2 == [t1 EXCEPT !.rev = 0]
<1>1. t \in Task
  BY DEF TypeOK
<1>2. Becomes(a, IF t.doing = "restore" THEN NoTask
                 ELSE [t EXCEPT !.at = "commit", !.rev = 0])
  BY DEF WritePlace
<1>3. [t EXCEPT !.at = "commit", !.rev = 0] = t2
  BY <1>1 DEF Task
<1>4. t1 \in Task /\ SameJob(t, t1) /\ t1.at = "commit" /\ t1.config = t.config
  BY <1>1 DEF Task, SameJob
<1>. HIDE DEF t, t1
<1>5. t2 \in Task /\ SameJob(t1, t2) /\ t2.at = t1.at /\ t2.rev = 0 /\ t2.config = t1.config
  BY <1>4 DEF Task, SameJob
<1>6. CASE t.doing = "restore"
  <2>1. Becomes(a, NoTask)
    BY <1>2, <1>6
  <2>. QED  BY <1>6, <2>1, IdleTask, Becoming DEF t
<1>7. CASE t.doing # "restore"
  <2>1. Becomes(a, t2)
    BY <1>2, <1>3, <1>7
  <2>2. Only(a) /\ task'[a] = t2
    BY <1>5, <2>1, Becoming
  <2>. QED  BY <1>4, <1>5, <1>7, <2>2 DEF SameJob, t
<1>. QED  BY <1>6, <1>7

LEMMA FinishingType ==
    ASSUME NEW d \in {"nothing", "default", "create", "copy", "save",
                      "activate", "restore"}
    PROVE  LET u == [NoTask EXCEPT !.at = "setup", !.doing = d]
           IN  /\ u \in Task
               /\ u.at = "setup" /\ u.doing = d /\ u.id = 0 /\ u.config = Empty
               /\ u.rev = 0 /\ u.undo = None /\ u.victim = 0 /\ ~u.setup
<1>. DEFINE t1 == [NoTask EXCEPT !.at = "setup"]
            t2 == [t1 EXCEPT !.doing = d]
<1>1. /\ t1 \in Task
      /\ t1.at = "setup" /\ t1.id = 0 /\ t1.config = Empty
      /\ t1.rev = 0 /\ t1.undo = None /\ t1.victim = 0 /\ ~t1.setup
  BY IdleTask DEF Task
<1>2. /\ t2 \in Task
      /\ t2.at = "setup" /\ t2.doing = d /\ t2.id = 0 /\ t2.config = Empty
      /\ t2.rev = 0 /\ t2.undo = None /\ t2.victim = 0 /\ ~t2.setup
  <2>. HIDE DEF t1
  <2>. QED  BY <1>1 DEF Task
<1>. QED  BY <1>2

LEMMA CommitTask ==
    ASSUME TypeOK, NEW a \in Actors, Commit(a)
    PROVE  /\ Only(a) /\ task'[a] \in Task
           /\ IF task[a].victim # 0
              THEN /\ task'[a].at = "remove" /\ task'[a].doing = "nothing"
                   /\ task'[a].id = 0 /\ task'[a].config = Empty
                   /\ task'[a].rev = 0 /\ task'[a].undo = None
                   /\ task'[a].victim = task[a].victim /\ ~task'[a].setup
              ELSE IF task[a].setup
              THEN /\ task'[a].at = "setup" /\ task'[a].doing = task[a].doing
                   /\ task'[a].id = 0 /\ task'[a].config = Empty
                   /\ task'[a].rev = 0 /\ task'[a].undo = None
                   /\ task'[a].victim = 0 /\ ~task'[a].setup
              ELSE task'[a] = NoTask
<1>. DEFINE t == task[a]
            r == [NoTask EXCEPT !.at = "remove", !.victim = t.victim]
            w == [NoTask EXCEPT !.at = "setup", !.doing = t.doing]
<1>1. /\ t \in Task /\ t.victim \in Nat
      /\ t.doing \in {"nothing", "default", "create", "copy", "save",
                      "activate", "restore"}
  BY TaskFields DEF TypeOK
<1>2. Becomes(a, IF t.victim # 0 THEN r ELSE IF t.setup THEN w ELSE NoTask)
  BY DEF Commit
<1>. HIDE DEF t
<1>3. /\ r \in Task /\ r.at = "remove" /\ r.doing = "nothing" /\ r.id = 0
      /\ r.config = Empty /\ r.rev = 0 /\ r.undo = None
      /\ r.victim = t.victim /\ ~r.setup
  BY <1>1, RemovingType
<1>4. /\ w \in Task /\ w.at = "setup" /\ w.doing = t.doing /\ w.id = 0
      /\ w.config = Empty /\ w.rev = 0 /\ w.undo = None /\ w.victim = 0 /\ ~w.setup
  BY <1>1, FinishingType
<1>. HIDE DEF r, w
<1>5. CASE t.victim # 0
  <2>1. Only(a) /\ task'[a] = r
    BY <1>2, <1>3, <1>5, Becoming
  <2>. QED  BY <1>3, <1>5, <2>1 DEF t
<1>6. CASE t.victim = 0 /\ t.setup
  <2>1. Only(a) /\ task'[a] = w
    BY <1>2, <1>4, <1>6, Becoming
  <2>. QED  BY <1>4, <1>6, <2>1 DEF t
<1>7. CASE t.victim = 0 /\ ~t.setup
  <2>1. Only(a) /\ task'[a] = NoTask
    BY <1>2, <1>7, IdleTask, Becoming
  <2>. QED  BY <1>7, <2>1, IdleTask DEF t
<1>. QED  BY <1>5, <1>6, <1>7

LEMMA RemoveTask ==
    ASSUME TypeInv, NEW a \in Actors, Remove(a)
    PROVE  LET rest == DOMAIN profiles \ {task[a].victim}
           IN  /\ Only(a) /\ task'[a] \in Task
               /\ active \in rest => task'[a] = NoTask
               /\ active \notin rest =>
                     /\ task'[a].at = "prefs" /\ task'[a].doing = "activate"
                     /\ task'[a].id \in rest /\ task'[a].config = profiles[task'[a].id]
                     /\ task'[a].rev = 0 /\ task'[a].undo = None
                     /\ task'[a].victim = 0 /\ ~task'[a].setup
<1>. DEFINE rest == DOMAIN profiles \ {task[a].victim}
            i == Least(rest)
            t == Activating(i, profiles[i], FALSE, 0)
            u == [t EXCEPT !.undo = None]
<1>1. /\ TypeOK /\ DOMAIN profiles \subseteq Nat
      /\ \A k \in DOMAIN profiles : profiles[k] \in Config
  BY LimitsAssumption DEF TypeInv, TypeOK
<1>2. rest # {} /\ rest \in SUBSET Nat
  BY <1>1 DEF TypeInv, Remove, Removed
<1>3. i \in rest
  BY <1>2, LeastIn
<1>4. Becomes(a, IF active \in rest THEN NoTask ELSE u)
  BY DEF Remove
<1>. HIDE DEF i
<1>5. t \in Task /\ i \in DOMAIN profiles
  BY <1>1, <1>3, ActivatingType
<1>6. /\ t.at = "prefs" /\ t.doing = "activate" /\ t.id = i /\ t.config = profiles[i]
      /\ t.rev = 0 /\ t.victim = 0 /\ ~t.setup
  BY DEF Activating
<1>. HIDE DEF t
<1>7. /\ u \in Task
      /\ u.at = "prefs" /\ u.doing = "activate" /\ u.id = i /\ u.config = profiles[i]
      /\ u.rev = 0 /\ u.undo = None /\ u.victim = 0 /\ ~u.setup
  BY <1>5, <1>6 DEF Task
<1>. HIDE DEF u
<1>8. CASE active \in rest
  <2>1. Only(a) /\ task'[a] = NoTask
    BY <1>1, <1>4, <1>8, IdleTask, Becoming
  <2>. QED  BY <1>8, <2>1, IdleTask
<1>9. CASE active \notin rest
  <2>1. Only(a) /\ task'[a] = u
    BY <1>1, <1>4, <1>7, <1>9, Becoming
  <2>. QED  BY <1>3, <1>7, <1>9, <2>1
<1>. QED  BY <1>8, <1>9

\* A failed step ends the task, or begins the restoring.
LEMMA FailTask ==
    ASSUME TypeOK, NEW a \in Actors, Fail(a)
    PROVE  /\ Only(a) /\ task'[a] \in Task
           /\ task[a].undo = None => task'[a] = NoTask
           /\ task[a].undo # None =>
                 /\ task'[a].at = "prefs" /\ task'[a].doing = "restore"
                 /\ task'[a].id = 0 /\ task'[a].config = task[a].undo
                 /\ task'[a].rev = 0 /\ task'[a].undo = None
                 /\ task'[a].victim = 0 /\ ~task'[a].setup
<1>. DEFINE c == task[a].undo
            t1 == [NoTask EXCEPT !.at = "prefs"]
            t2 == [t1 EXCEPT !.doing = "restore"]
            t3 == [t2 EXCEPT !.config = c]
<1>1. c \in Config \cup {None} /\ task[a] \in Task
  BY TaskFields DEF TypeOK
<1>2. Becomes(a, IF c = None THEN NoTask ELSE t3)
  BY DEF Fail, Undone
<1>. HIDE DEF c
<1>3. /\ t1 \in Task /\ t1.at = "prefs" /\ t1.id = 0 /\ t1.rev = 0
      /\ t1.undo = None /\ t1.victim = 0 /\ ~t1.setup
  BY IdleTask DEF Task
<1>. HIDE DEF t1
<1>4. /\ t2 \in Task /\ t2.at = "prefs" /\ t2.doing = "restore" /\ t2.id = 0
      /\ t2.rev = 0 /\ t2.undo = None /\ t2.victim = 0 /\ ~t2.setup
  BY <1>3 DEF Task
<1>. HIDE DEF t2
<1>5. CASE c = None
  <2>1. Only(a) /\ task'[a] = NoTask
    BY <1>2, <1>5, IdleTask, Becoming
  <2>. QED  BY <1>5, <2>1, IdleTask DEF c
<1>6. CASE c # None
  <2>1. /\ t3 \in Task /\ t3.at = "prefs" /\ t3.doing = "restore" /\ t3.id = 0
        /\ t3.config = c
        /\ t3.rev = 0 /\ t3.undo = None /\ t3.victim = 0 /\ ~t3.setup
    BY <1>1, <1>4, <1>6 DEF Task
  <2>. HIDE DEF t3
  <2>2. Only(a) /\ task'[a] = t3
    BY <1>2, <1>6, <2>1, Becoming
  <2>. QED  BY <1>6, <2>1, <2>2 DEF c
<1>. QED  BY <1>5, <1>6

-----------------------------------------------------------------------------
(* What each step of the loader makes of what it has read.                 *)

LEMMA LoadFields ==
    ASSUME NEW l \in Load
    PROVE  /\ l.at \in {"idle", "place", "prefs", "end", "profile", "fixPrefs",
                        "fixPlace", "seePlace", "seePrefs", "seen"}
           /\ l.setup \in BOOLEAN /\ l.id \in Nat /\ l.place \in Doc
           /\ l.got \in Config \cup {None} /\ l.config \in Config /\ l.rev \in Nat
  BY DEF Load

LEMMA NoLoadType ==
    /\ NoLoad \in Load /\ NoLoad.at = "idle" /\ ~NoLoad.setup /\ NoLoad.id = 0
    /\ NoLoad.place = Missing /\ NoLoad.got = None /\ NoLoad.config = Empty
    /\ NoLoad.rev = 0
  BY ConfigType DEF NoLoad, Load

LEMMA PairType ==
    ASSUME NEW p \in Doc, NEW l \in Doc
    PROVE  /\ Pair(p, l) \in Config \cup {None}
           /\ Pair(p, l) # None => /\ p.rev # 0 /\ p.rev = l.rev
                                   /\ Pair(p, l).prefs = p.data
                                   /\ Pair(p, l).place = l.data
  BY ConfigType DEF Pair, Coherent

LEMMA LoadUserLoad ==
    ASSUME TypeOK, LoadUser
    PROVE  /\ load' \in Load
           /\ load'.at = IF setup THEN "place" ELSE "end"
           /\ load'.setup <=> setup
           /\ load'.id = active /\ load'.place = Missing /\ load'.got = None
           /\ load'.config = Empty /\ load'.rev = 0
<1>. DEFINE l1 == [NoLoad EXCEPT !.at = IF setup THEN "place" ELSE "end"]
            l2 == [l1 EXCEPT !.setup = setup]
            l3 == [l2 EXCEPT !.id = active]
<1>1. active \in Nat /\ setup \in BOOLEAN
  BY LimitsAssumption DEF TypeOK
<1>2. /\ l1 \in Load /\ l1.at = IF setup THEN "place" ELSE "end"
      /\ l1.place = Missing /\ l1.got = None /\ l1.config = Empty /\ l1.rev = 0
  BY NoLoadType DEF Load
<1>3. load' = l3
  BY DEF LoadUser
<1>. HIDE DEF l1
<1>4. /\ l2 \in Load /\ l2.at = IF setup THEN "place" ELSE "end"
      /\ l2.setup <=> setup
      /\ l2.place = Missing /\ l2.got = None /\ l2.config = Empty /\ l2.rev = 0
  BY <1>1, <1>2 DEF Load
<1>. HIDE DEF l2
<1>5. /\ l3 \in Load /\ l3.at = IF setup THEN "place" ELSE "end"
      /\ l3.setup <=> setup
      /\ l3.id = active /\ l3.place = Missing /\ l3.got = None
      /\ l3.config = Empty /\ l3.rev = 0
  BY <1>1, <1>4 DEF Load
<1>. QED  BY <1>3, <1>5

LEMMA LoadPlaceLoad ==
    ASSUME TypeOK, LoadPlace
    PROVE  /\ load' \in Load
           /\ load'.at = IF load.at = "place" THEN "prefs" ELSE "seePrefs"
           /\ load'.setup <=> load.setup
           /\ load'.id = load.id /\ load'.place = place /\ load'.got = load.got
           /\ load'.config = load.config /\ load'.rev = load.rev
<1>. DEFINE x == IF load.at = "place" THEN "prefs" ELSE "seePrefs"
            l1 == [load EXCEPT !.at = x]
            l2 == [l1 EXCEPT !.place = place]
<1>1. load \in Load /\ place \in Doc /\ x \in {"prefs", "seePrefs"}
  BY DEF TypeOK
<1>2. load' = l2
  BY <1>1 DEF LoadPlace, Load
<1>. HIDE DEF x
<1>3. /\ l1 \in Load /\ l1.at = x /\ (l1.setup <=> load.setup)
      /\ l1.id = load.id /\ l1.got = load.got
      /\ l1.config = load.config /\ l1.rev = load.rev
  BY <1>1 DEF Load
<1>. HIDE DEF l1
<1>4. /\ l2 \in Load /\ l2.at = x /\ (l2.setup <=> load.setup)
      /\ l2.id = load.id /\ l2.place = place /\ l2.got = load.got
      /\ l2.config = load.config /\ l2.rev = load.rev
  BY <1>1, <1>3 DEF Load
<1>. QED  BY <1>2, <1>4 DEF x

LEMMA LoadPrefsLoad ==
    ASSUME TypeOK, LoadPrefs
    PROVE  /\ load' \in Load
           /\ load'.at = IF load.at = "prefs" THEN "end" ELSE "seen"
           /\ load'.setup <=> load.setup
           /\ load'.id = load.id /\ load'.place = Missing
           /\ load'.got = Pair(prefs, load.place)
           /\ load'.config = load.config /\ load'.rev = load.rev
<1>. DEFINE x == IF load.at = "prefs" THEN "end" ELSE "seen"
            g == Pair(prefs, load.place)
            l1 == [load EXCEPT !.at = x]
            l2 == [l1 EXCEPT !.place = Missing]
            l3 == [l2 EXCEPT !.got = g]
<1>1. load \in Load /\ x \in {"end", "seen"}
  BY DEF TypeOK
<1>2. g \in Config \cup {None}
  BY <1>1, LoadFields, PairType DEF TypeOK
<1>3. load' = l3
  BY <1>1 DEF LoadPrefs, Load
<1>. HIDE DEF x, g
<1>4. /\ l1 \in Load /\ l1.at = x /\ (l1.setup <=> load.setup)
      /\ l1.id = load.id
      /\ l1.config = load.config /\ l1.rev = load.rev
  BY <1>1 DEF Load
<1>. HIDE DEF l1
<1>5. /\ l2 \in Load /\ l2.at = x /\ (l2.setup <=> load.setup)
      /\ l2.id = load.id /\ l2.place = Missing
      /\ l2.config = load.config /\ l2.rev = load.rev
  BY <1>4, ConfigType DEF Load
<1>. HIDE DEF l2
<1>6. /\ l3 \in Load /\ l3.at = x /\ (l3.setup <=> load.setup)
      /\ l3.id = load.id /\ l3.place = Missing /\ l3.got = g
      /\ l3.config = load.config /\ l3.rev = load.rev
  BY <1>2, <1>5 DEF Load
<1>. QED  BY <1>3, <1>6 DEF x, g

LEMMA BeginRepairLoad ==
    ASSUME TypeOK, BeginRepair
    PROVE  /\ load' \in Load /\ load'.at = "profile"
           /\ load'.setup <=> load.setup
           /\ load'.id = load.id /\ load'.place = load.place /\ load'.got = load.got
           /\ load'.config = load.config /\ load'.rev = load.rev
<1>1. load \in Load /\ load' = [load EXCEPT !.at = "profile"]
  BY DEF TypeOK, BeginRepair
<1>. QED  BY <1>1 DEF Load

LEMMA LoadProfileLoad ==
    ASSUME TypeOK, LoadProfile, load.id \in DOMAIN profiles
    PROVE  /\ load' \in Load /\ load'.at = "fixPrefs"
           /\ load'.setup <=> load.setup
           /\ load'.id = 0 /\ load'.place = load.place /\ load'.got = load.got
           /\ load'.config = profiles[load.id] /\ load'.rev = load.rev
<1>. DEFINE c == profiles[load.id]
            l1 == [load EXCEPT !.at = "fixPrefs"]
            l2 == [l1 EXCEPT !.id = 0]
            l3 == [l2 EXCEPT !.config = c]
<1>1. load \in Load /\ c \in Config
  BY DEF TypeOK
<1>2. load' = l3
  BY <1>1 DEF LoadProfile, Load
<1>. HIDE DEF c
<1>3. /\ l1 \in Load /\ l1.at = "fixPrefs" /\ (l1.setup <=> load.setup)
      /\ l1.place = load.place /\ l1.got = load.got /\ l1.rev = load.rev
  BY <1>1 DEF Load
<1>. HIDE DEF l1
<1>4. /\ l2 \in Load /\ l2.at = "fixPrefs" /\ (l2.setup <=> load.setup)
      /\ l2.id = 0 /\ l2.place = load.place /\ l2.got = load.got /\ l2.rev = load.rev
  BY <1>3 DEF Load
<1>. HIDE DEF l2
<1>5. /\ l3 \in Load /\ l3.at = "fixPrefs" /\ (l3.setup <=> load.setup)
      /\ l3.id = 0 /\ l3.place = load.place /\ l3.got = load.got
      /\ l3.config = c /\ l3.rev = load.rev
  BY <1>1, <1>4 DEF Load
<1>. QED  BY <1>2, <1>5 DEF c

LEMMA FixPrefsLoad ==
    ASSUME TypeOK, FixPrefs
    PROVE  /\ load' \in Load /\ load'.at = "fixPlace"
           /\ load'.setup <=> load.setup
           /\ load'.id = load.id /\ load'.place = load.place /\ load'.got = load.got
           /\ load'.config = load.config /\ load'.rev = Fresh
<1>. DEFINE l1 == [load EXCEPT !.at = "fixPlace"]
            l2 == [l1 EXCEPT !.rev = Fresh]
<1>1. load \in Load /\ Fresh \in Nat
  BY FreshNew DEF TypeOK
<1>2. load' = l2
  BY <1>1 DEF FixPrefs, Load
<1>3. /\ l1 \in Load /\ l1.at = "fixPlace" /\ (l1.setup <=> load.setup)
      /\ l1.id = load.id /\ l1.place = load.place /\ l1.got = load.got
      /\ l1.config = load.config
  BY <1>1 DEF Load
<1>. HIDE DEF l1
<1>4. /\ l2 \in Load /\ l2.at = "fixPlace" /\ (l2.setup <=> load.setup)
      /\ l2.id = load.id /\ l2.place = load.place /\ l2.got = load.got
      /\ l2.config = load.config /\ l2.rev = Fresh
  BY <1>1, <1>3 DEF Load
<1>. QED  BY <1>2, <1>4

LEMMA FixPlaceLoad ==
    ASSUME TypeOK, FixPlace
    PROVE  /\ load' \in Load /\ load'.at = "seePlace"
           /\ load'.setup <=> load.setup
           /\ load'.id = load.id /\ load'.place = load.place /\ load'.got = load.got
           /\ load'.config = Empty /\ load'.rev = 0
<1>. DEFINE l1 == [load EXCEPT !.at = "seePlace"]
            l2 == [l1 EXCEPT !.config = Empty]
            l3 == [l2 EXCEPT !.rev = 0]
<1>1. load \in Load
  BY DEF TypeOK
<1>2. load' = l3
  BY <1>1 DEF FixPlace, Load
<1>3. /\ l1 \in Load /\ l1.at = "seePlace" /\ (l1.setup <=> load.setup)
      /\ l1.id = load.id /\ l1.place = load.place /\ l1.got = load.got
  BY <1>1 DEF Load
<1>. HIDE DEF l1
<1>4. /\ l2 \in Load /\ l2.at = "seePlace" /\ (l2.setup <=> load.setup)
      /\ l2.id = load.id /\ l2.place = load.place /\ l2.got = load.got
      /\ l2.config = Empty
  BY <1>3, ConfigType DEF Load
<1>. HIDE DEF l2
<1>5. /\ l3 \in Load /\ l3.at = "seePlace" /\ (l3.setup <=> load.setup)
      /\ l3.id = load.id /\ l3.place = load.place /\ l3.got = load.got
      /\ l3.config = Empty /\ l3.rev = 0
  BY <1>4 DEF Load
<1>. QED  BY <1>2, <1>5

-----------------------------------------------------------------------------
(* Every step keeps the types.                                             *)

LEMMA RecordType ==
    Record => {crossed, met, disturbed}' \subseteq BOOLEAN
  BY DEF Record

\* The part of the type invariant that is about one task.
TaskSound(a) ==
    /\ task[a].id <= made
    /\ task[a].at \in {"oldPrefs", "oldPlace", "insert"} => task[a].id # 0
    /\ task[a].at \in {"oldPrefs", "oldPlace"} => task[a].doing = "default"
    /\ task[a].at = "insert" => task[a].doing \in {"default", "create", "copy"}
    /\ task[a].victim # 0 \/ task[a].at = "remove" =>
          /\ a = "bot"
          /\ \E j \in DOMAIN profiles : j # task[a].victim

LEMMA BeginTypes ==
    ASSUME TypeInv, NEW a \in Actors, NEW t \in Task, t = NoTask \/ Started(t),
           Begin(a, t), a = "bot" \/ (t.victim = 0 /\ t.at # "remove"),
           migrated' \in BOOLEAN
    PROVE  TypeInv'
<1>1. Only(a) /\ task'[a] = t
  BY Becoming DEF Begin, TypeInv
<1>2. /\ made \in Nat /\ t.id \in Nat /\ made' \in 0..MaxProfiles
      /\ made <= made' /\ t.id <= made'
  BY TaskFields, LimitsAssumption DEF Begin, Larger, TypeInv, TypeOK
<1>3. TypeOK'
  BY <1>1, <1>2, RecordType DEF TypeInv, TypeOK, Begin, Only, copy, worker
<1>4. DOMAIN profiles' \subseteq 1..made'
  BY <1>2, LimitsAssumption DEF TypeInv, TypeOK, Begin
<1>5. ASSUME NEW b \in Actors, b # a  PROVE TaskSound(b)'
  <2>1. TaskSound(b) /\ task'[b] = task[b] /\ profiles' = profiles /\ task[b].id \in Nat
    BY <1>1, <1>5, TaskFields DEF TypeInv, TypeOK, TaskSound, Only, Begin
  <2>. QED  BY <1>2, <2>1 DEF TaskSound
<1>6. TaskSound(a)'
  <2>1. t.at \in {"oldPrefs", "oldPlace", "insert"} => t.id # 0
    BY <1>2, IdleTask DEF Started
  <2>2. /\ t.at \in {"oldPrefs", "oldPlace"} => t.doing = "default"
        /\ t.at = "insert" => t.doing \in {"default", "create", "copy"}
    BY IdleTask DEF Started
  <2>3. t.victim # 0 \/ t.at = "remove" => \E j \in DOMAIN profiles : j # t.victim
    BY IdleTask DEF Started
  <2>. QED  BY <1>1, <1>2, <2>1, <2>2, <2>3 DEF TaskSound, Begin
<1>. QED  BY <1>3, <1>4, <1>5, <1>6 DEF TypeInv, TaskSound

\* A step of a task that leaves the profiles, the counter and the loader alone.
LEMMA TaskTypes ==
    ASSUME TypeInv, NEW a \in Actors, Only(a), task'[a] \in Task,
           made' = made, load' = load, image' = image, migrated' = migrated,
           DOMAIN profiles' \subseteq 1..made,
           \A i \in DOMAIN profiles' : profiles'[i] \in Config,
           a = "bot" \/ DOMAIN profiles \subseteq DOMAIN profiles',
           TaskSound(a)', active' \in 0..MaxProfiles, setup' \in BOOLEAN,
           prefs' \in Doc, place' \in Doc, invalidated' \in BOOLEAN,
           incidents' \in Nat, Record
    PROVE  TypeInv'
<1>1. TypeOK'
  BY RecordType, LimitsAssumption DEF TypeInv, TypeOK, Only
<1>2. ASSUME NEW b \in Actors, b # a  PROVE TaskSound(b)'
  <2>1. TaskSound(b) /\ task'[b] = task[b]
    BY <1>2 DEF TypeInv, TypeOK, TaskSound, Only
  <2>2. b # "bot" \/ a # "bot"
    BY <1>2
  <2>. QED  BY <2>1, <2>2 DEF TaskSound
<1>. QED  BY <1>1, <1>2 DEF TypeInv, TaskSound

\* What the types say of the profiles.
LEMMA ProfileTypes ==
    ASSUME TypeInv
    PROVE  /\ TypeOK /\ made \in Nat /\ made <= MaxProfiles
           /\ DOMAIN profiles \subseteq 1..made
           /\ \A i \in DOMAIN profiles : profiles[i] \in Config
           /\ active \in 0..MaxProfiles /\ setup \in BOOLEAN
           /\ prefs \in Doc /\ place \in Doc /\ invalidated \in BOOLEAN
           /\ incidents \in Nat /\ MaxProfiles \in Nat
           /\ \A a \in Actors : TaskSound(a) /\ task[a] \in Task
  BY LimitsAssumption DEF TypeInv, TypeOK, TaskSound

\* What the database calls of a task do to the types.
LEMMA EffectTypes ==
    ASSUME TypeInv, NEW a \in Actors, Effect(task[a])
    PROVE  /\ DOMAIN profiles' \subseteq 1..made
           /\ \A i \in DOMAIN profiles' : profiles'[i] \in Config
           /\ a = "bot" \/ DOMAIN profiles \subseteq DOMAIN profiles'
           /\ active' \in 0..MaxProfiles /\ setup' \in BOOLEAN
           /\ prefs' \in Doc /\ place' \in Doc
<1>. DEFINE t == task[a]
<1>1. /\ t \in Task /\ t.id \in Nat /\ t.config \in Config /\ t.rev \in Nat
      /\ t.config.prefs \in Content /\ t.config.place \in Content /\ TaskSound(a)
  BY ProfileTypes, TaskFields, ConfigType
<1>2. CASE Inserted(t)
  <2>1. t.id \in 1..made
    BY <1>1, <1>2, ProfileTypes DEF Inserted, TaskSound
  <2>. QED  BY <1>1, <1>2, <2>1, ProfileTypes DEF Inserted, copy
<1>3. CASE PrefsWritten(t)
  <2>1. Fresh \in Nat
    BY FreshNew, ProfileTypes
  <2>. QED  BY <1>1, <1>3, <2>1, ProfileTypes, ConfigType DEF PrefsWritten
<1>4. CASE PlaceWritten(t)
  BY <1>1, <1>4, ProfileTypes, ConfigType DEF PlaceWritten
<1>5. CASE Committed(t)
  <2>1. t.id \in 0..MaxProfiles
    BY <1>1, ProfileTypes DEF TaskSound
  <2>2. active' \in 0..MaxProfiles
    BY <1>5, <2>1, ProfileTypes DEF Committed
  <2>. QED  BY <1>1, <1>5, <2>2, ProfileTypes DEF Committed, copy
<1>6. CASE SetupSaved(t)
  BY <1>6, ProfileTypes DEF SetupSaved, copy
<1>7. CASE Removed(t)
  <2>1. a = "bot"
    BY <1>1, <1>7 DEF Removed, TaskSound
  <2>. QED  BY <1>7, <2>1, ProfileTypes DEF Removed, copy
<1>. QED  BY <1>2, <1>3, <1>4, <1>5, <1>6, <1>7 DEF Effect

LEMMA StepTypes ==
    ASSUME TypeInv, NEW a \in Actors, Step(a)
    PROVE  TypeInv'
<1>. DEFINE t == task[a]
            u == task'[a]
<1>1. /\ made' = made /\ load' = load /\ image' = image /\ migrated' = migrated
      /\ incidents' = incidents /\ Record
  BY DEF Step, ReadOldPrefs, ReadOldPlace, Insert, WritePrefs, WritePlace, Commit,
         FinishSetup, Remove, Unmoved
<1>2. /\ t \in Task /\ t.id \in Nat /\ TaskSound(a) /\ made \in Nat /\ TypeOK
      /\ TRUE \in BOOLEAN
  BY ProfileTypes, TaskFields
<1>3. CASE ReadOldPrefs(a)
  <2>1. Only(a) /\ u \in Task /\ SameJob(t, u) /\ u.at = "oldPlace"
    BY <1>2, <1>3, ReadOldPrefsTask
  <2>2. UNCHANGED <<profiles, active, setup, prefs, place, invalidated>> /\ t.at = "oldPrefs"
    BY <1>3 DEF ReadOldPrefs, copy
  <2>3. TaskSound(a)'
    BY <1>1, <1>2, <2>1, <2>2 DEF TaskSound, SameJob
  <2>. QED  BY <1>1, <2>1, <2>2, <2>3, ProfileTypes, TaskTypes
<1>4. CASE ReadOldPlace(a)
  <2>1. Only(a) /\ u \in Task /\ SameJob(t, u) /\ u.at = "insert"
    BY <1>2, <1>4, ReadOldPlaceTask
  <2>2. UNCHANGED <<profiles, active, setup, prefs, place, invalidated>> /\ t.at = "oldPlace"
    BY <1>4 DEF ReadOldPlace, copy
  <2>3. TaskSound(a)'
    BY <1>1, <1>2, <2>1, <2>2 DEF TaskSound, SameJob
  <2>. QED  BY <1>1, <2>1, <2>2, <2>3, ProfileTypes, TaskTypes
<1>5. CASE Insert(a)
  <2>1. /\ Only(a) /\ u \in Task /\ u.id <= made /\ u.at \in {"commit", "prefs", "idle"}
        /\ u.victim = 0 \/ u.victim = t.victim
    BY <1>2, <1>5, InsertTask, IdleTask DEF SameJob, TaskSound
  <2>2. Effect(t) /\ invalidated' = invalidated /\ DOMAIN profiles \subseteq DOMAIN profiles'
    BY <1>5 DEF Insert, Effect, Inserted
  <2>3. TaskSound(a)'
    BY <1>1, <1>2, <2>1, <2>2 DEF TaskSound
  <2>. QED  BY <1>1, <2>1, <2>2, <2>3, ProfileTypes, EffectTypes, TaskTypes
<1>6. CASE WritePrefs(a)
  <2>1. Only(a) /\ u \in Task /\ SameJob(t, u) /\ u.at = "place"
    BY <1>2, <1>6, WritePrefsTask
  <2>2. Effect(t) /\ invalidated' = invalidated /\ profiles' = profiles
    BY <1>6 DEF WritePrefs, Effect, PrefsWritten
  <2>3. TaskSound(a)'
    BY <1>1, <1>2, <2>1, <2>2 DEF TaskSound, SameJob
  <2>. QED  BY <1>1, <2>1, <2>2, <2>3, ProfileTypes, EffectTypes, TaskTypes
<1>7. CASE WritePlace(a)
  <2>1. Only(a) /\ u \in Task /\ (u = NoTask \/ (SameJob(t, u) /\ u.at = "commit"))
    BY <1>2, <1>7, WritePlaceTask
  <2>2. Effect(t) /\ invalidated' = TRUE /\ profiles' = profiles
    BY <1>7 DEF WritePlace, Effect, PlaceWritten
  <2>3. TaskSound(a)'
    BY <1>1, <1>2, <2>1, <2>2, IdleTask DEF TaskSound, SameJob
  <2>. QED  BY <1>1, <1>2, <2>1, <2>2, <2>3, ProfileTypes, EffectTypes, TaskTypes
<1>8. CASE Commit(a)
  <2>1. /\ Only(a) /\ u \in Task /\ u.id = 0 /\ u.at \in {"remove", "setup", "idle"}
        /\ u.victim = t.victim /\ (u.at = "remove" => t.victim # 0)
    BY <1>2, <1>8, CommitTask, IdleTask
  <2>2. Effect(t) /\ invalidated' = invalidated /\ DOMAIN profiles' = DOMAIN profiles
    BY <1>8 DEF Commit, Effect, Committed
  <2>3. TaskSound(a)'
    BY <1>1, <1>2, <2>1, <2>2 DEF TaskSound
  <2>. QED  BY <1>1, <2>1, <2>2, <2>3, ProfileTypes, EffectTypes, TaskTypes
<1>9. CASE FinishSetup(a)
  <2>1. Only(a) /\ u = NoTask
    BY <1>2, <1>9, IdleTask, Becoming DEF FinishSetup
  <2>2. Effect(t) /\ invalidated' \in BOOLEAN /\ profiles' = profiles
    BY <1>9, ProfileTypes DEF FinishSetup, Effect, SetupSaved
  <2>3. TaskSound(a)'
    BY <1>1, <1>2, <2>1, IdleTask DEF TaskSound
  <2>. QED  BY <1>1, <2>1, <2>2, <2>3, IdleTask, ProfileTypes, EffectTypes, TaskTypes
<1>10. CASE Remove(a)
  <2>1. /\ Only(a) /\ u \in Task /\ u.at \in {"prefs", "idle"} /\ u.victim = 0
        /\ u.id = 0 \/ u.id \in DOMAIN profiles
    BY <1>10, RemoveTask, IdleTask
  <2>2. Effect(t) /\ invalidated' = invalidated
    BY <1>10 DEF Remove, Effect
  <2>3. TaskSound(a)'
    BY <1>1, <1>2, <2>1, ProfileTypes DEF TaskSound
  <2>. QED  BY <1>1, <2>1, <2>2, <2>3, ProfileTypes, EffectTypes, TaskTypes
<1>. QED  BY <1>3, <1>4, <1>5, <1>6, <1>7, <1>8, <1>9, <1>10 DEF Step

LEMMA FailTypes ==
    ASSUME TypeInv, NEW a \in Actors, Fail(a)
    PROVE  TypeInv'
<1>. DEFINE u == task'[a]
<1>1. /\ made' = made /\ load' = load /\ image' = image /\ migrated' = migrated
      /\ invalidated' = invalidated /\ Record /\ incidents' = incidents + 1
      /\ UNCHANGED <<profiles, active, setup, copy>> \/ Effect(task[a])
  BY DEF Fail, worker
<1>2. Only(a) /\ u \in Task /\ u.id = 0 /\ u.at \in {"prefs", "idle"} /\ u.victim = 0
  BY ProfileTypes, FailTask, IdleTask
<1>3. TaskSound(a)'
  BY <1>1, <1>2, ProfileTypes DEF TaskSound
<1>4. CASE UNCHANGED <<profiles, active, setup, copy>>
  BY <1>1, <1>2, <1>3, <1>4, ProfileTypes, TaskTypes DEF copy
<1>5. CASE Effect(task[a])
  BY <1>1, <1>2, <1>3, <1>5, ProfileTypes, EffectTypes, TaskTypes
<1>. QED  BY <1>1, <1>4, <1>5

\* A step of the loader, or one that concerns no task.
LEMMA OtherTypes ==
    ASSUME TypeInv, task' = task \/ task' = [a \in Actors |-> NoTask],
           UNCHANGED <<profiles, made, active>>,
           setup' \in BOOLEAN, prefs' \in Doc, place' \in Doc,
           migrated' \in BOOLEAN, load' \in Load, image' \in Config \cup {None},
           invalidated' \in BOOLEAN, incidents' \in Nat, Record
    PROVE  TypeInv'
<1>1. task' \in [Actors -> Task]
  BY IdleTask DEF TypeInv, TypeOK
<1>2. TypeOK'
  BY <1>1, RecordType DEF TypeInv, TypeOK
<1>3. CASE task' = task
  BY <1>2, <1>3 DEF TypeInv
<1>4. CASE task' = [a \in Actors |-> NoTask]
  <2>1. \A a \in Actors : task'[a] = NoTask
    BY <1>4
  <2>2. 0 <= made
    BY ProfileTypes
  <2>. QED  BY <1>2, <2>1, <2>2, IdleTask DEF TypeInv
<1>. QED  BY <1>3, <1>4

LEMMA LoadingTypes ==
    ASSUME TypeInv, LoadUser \/ Loading
    PROVE  TypeInv'
<1>1. /\ TypeOK /\ prefs \in Doc /\ place \in Doc /\ invalidated \in BOOLEAN
      /\ setup \in BOOLEAN /\ incidents \in Nat /\ migrated \in BOOLEAN
      /\ load \in Load /\ image \in Config \cup {None}
      /\ TRUE \in BOOLEAN /\ FALSE \in BOOLEAN
  BY ProfileTypes DEF TypeInv, TypeOK
<1>2. /\ UNCHANGED <<profiles, made, active, setup, task, migrated, incidents>> /\ Record
  BY DEF Loading, LoadUser, LoadPlace, LoadPrefs, Decide, BeginRepair, LoadProfile,
         FixPrefs, FixPlace, Repaired, Loaded, Unmoving, user
<1>3. CASE LoadUser
  <2>1. UNCHANGED <<prefs, place, image, invalidated>>
    BY <1>3 DEF LoadUser, copy
  <2>. QED  BY <1>1, <1>2, <1>3, <2>1, LoadUserLoad, OtherTypes
<1>4. CASE LoadPlace
  <2>1. UNCHANGED <<prefs, place, image, invalidated>>
    BY <1>4 DEF LoadPlace, copy
  <2>. QED  BY <1>1, <1>2, <1>4, <2>1, LoadPlaceLoad, OtherTypes
<1>5. CASE LoadPrefs
  <2>1. UNCHANGED <<prefs, place, image, invalidated>>
    BY <1>5 DEF LoadPrefs, copy
  <2>. QED  BY <1>1, <1>2, <1>5, <2>1, LoadPrefsLoad, OtherTypes
<1>6. CASE BeginRepair
  <2>1. UNCHANGED <<prefs, place, image, invalidated>>
    BY <1>6 DEF BeginRepair, copy
  <2>. QED  BY <1>1, <1>2, <1>6, <2>1, BeginRepairLoad, OtherTypes
<1>7. ASSUME NEW c \in Config \cup {None}, Loaded(c)
      PROVE  TypeInv'
  <2>1. /\ UNCHANGED <<prefs, place>> /\ image' = c /\ invalidated' = FALSE
        /\ load' = NoLoad
    BY <1>7 DEF Loaded, copy
  <2>. QED  BY <1>1, <1>2, <2>1, NoLoadType, OtherTypes
<1>8. CASE Decide
  <2>1. Decision \in Config \cup {None}
    BY <1>1, LoadFields DEF Decision
  <2>. QED  BY <1>7, <1>8, <2>1 DEF Decide
<1>9. CASE LoadProfile
  <2>1. CASE load.id \in DOMAIN profiles
    <3>1. UNCHANGED <<prefs, place, image, invalidated>>
      BY <1>9, <2>1 DEF LoadProfile, copy
    <3>. QED  BY <1>1, <1>2, <1>9, <2>1, <3>1, LoadProfileLoad, OtherTypes
  <2>2. CASE load.id \notin DOMAIN profiles
    BY <1>7, <1>9, <2>2 DEF LoadProfile
  <2>. QED  BY <2>1, <2>2
<1>10. CASE FixPrefs
  <2>1. prefs' \in Doc /\ UNCHANGED <<place, image, invalidated>>
    BY <1>1, <1>10, LoadFields, ConfigType, FreshNew DEF FixPrefs, PrefsFixed
  <2>. QED  BY <1>1, <1>2, <1>10, <2>1, FixPrefsLoad, OtherTypes
<1>11. CASE FixPlace
  <2>1. place' \in Doc /\ UNCHANGED <<prefs, image>> /\ invalidated' = TRUE
    BY <1>1, <1>11, LoadFields, ConfigType DEF FixPlace, PlaceFixed
  <2>. QED  BY <1>1, <1>2, <1>11, <2>1, FixPlaceLoad, OtherTypes
<1>12. CASE Repaired
  BY <1>1, <1>7, <1>12, LoadFields DEF Repaired
<1>. QED  BY <1>3, <1>4, <1>5, <1>6, <1>8, <1>9, <1>10, <1>11, <1>12 DEF Loading

LEMMA IncidentTypes ==
    ASSUME TypeInv, LoadFails \/ Switch \/ Restart
    PROVE  TypeInv'
<1>1. /\ TypeOK /\ prefs \in Doc /\ place \in Doc /\ invalidated \in BOOLEAN
      /\ setup \in BOOLEAN /\ incidents \in Nat /\ migrated \in BOOLEAN
      /\ load \in Load /\ image \in Config \cup {None}
      /\ TRUE \in BOOLEAN /\ FALSE \in BOOLEAN /\ None \in Config \cup {None}
  BY ProfileTypes DEF TypeInv, TypeOK
<1>2. CASE LoadFails
  <2>1. /\ UNCHANGED <<profiles, made, active, setup, task, migrated>> /\ Record
        /\ load' = NoLoad /\ incidents' = incidents + 1
        /\ image' \in {image, None} /\ invalidated' \in {invalidated, FALSE}
        /\ UNCHANGED <<prefs, place>> \/ PrefsFixed \/ PlaceFixed
    BY <1>2 DEF LoadFails, user, copy
  <2>2. prefs' \in Doc /\ place' \in Doc
    BY <1>1, <2>1, LoadFields, ConfigType, FreshNew DEF PrefsFixed, PlaceFixed
  <2>3. load' \in Load /\ image' \in Config \cup {None} /\ invalidated' \in BOOLEAN
    BY <1>1, <2>1, NoLoadType, Zenon
  <2>4. incidents' \in Nat
    BY <1>1, <2>1
  <2>. QED  BY <1>1, <2>1, <2>2, <2>3, <2>4, OtherTypes
<1>3. CASE Switch
  <2>1. /\ UNCHANGED <<profiles, made, active, task, migrated, prefs, place, load,
                       image, invalidated>> /\ Record
        /\ incidents' = incidents + 1 /\ setup' = ~setup
    BY <1>3 DEF Switch, copy, worker
  <2>2. setup' \in BOOLEAN
    BY <2>1
  <2>. QED  BY <1>1, <2>1, <2>2, OtherTypes
<1>4. CASE Restart
  <2>1. /\ UNCHANGED <<profiles, made, active, setup, prefs, place>> /\ Record
        /\ task' = [a \in Actors |-> NoTask] /\ load' = NoLoad /\ image' = None
        /\ migrated' = FALSE /\ invalidated' = TRUE /\ incidents' = incidents + 1
    BY <1>4 DEF Restart, user, copy
  <2>2. /\ load' \in Load /\ image' \in Config \cup {None}
        /\ invalidated' \in BOOLEAN /\ migrated' \in BOOLEAN
    BY <1>1, <2>1, NoLoadType, Zenon
  <2>3. incidents' \in Nat
    BY <1>1, <2>1
  <2>. QED  BY <1>1, <2>1, <2>2, <2>3, OtherTypes
<1>. QED  BY <1>2, <1>3, <1>4

LEMMA TypeStep ==
    ASSUME TypeInv, [Next]_vars
    PROVE  TypeInv'
<1>1. CASE Bot
  <2>1. PICK t \in Task : Started(t) /\ Begin("bot", t) /\ migrated' = migrated
    BY <1>1, ProfileTypes, BotStarts
  <2>. QED  BY <2>1, BeginTypes DEF Actors, TypeInv, TypeOK
<1>2. CASE Migrate
  <2>1. Begin("migration", Ensuring) /\ migrated' = TRUE
    BY <1>2 DEF Migrate
  <2>2. /\ Ensuring \in Task /\ Ensuring.victim = 0 /\ Ensuring.at # "remove"
        /\ Ensuring = NoTask \/ Started(Ensuring)
    BY ProfileTypes, EnsuringStarts
  <2>. QED  BY <2>1, <2>2, BeginTypes DEF Actors
<1>3. CASE UNCHANGED vars
  BY <1>3 DEF TypeInv, TypeOK, TaskSound, vars, user, copy, worker, history
<1>. QED  BY <1>1, <1>2, <1>3, StepTypes, FailTypes, LoadingTypes, IncidentTypes DEF Next

LEMMA TypeInit ==
    Init => TypeInv
<1>. SUFFICES ASSUME Init  PROVE TypeInv
  OBVIOUS
<1>1. /\ prefs \in Doc /\ place \in Doc
      /\ Legacy \in Content
  BY ConfigType DEF Init, Content
<1>2. /\ DOMAIN profiles = {} /\ made = 0 /\ active = 0 /\ incidents = 0
      /\ \A a \in Actors : task[a] = NoTask
      /\ task \in [Actors -> Task]
      /\ load = NoLoad /\ image = None
      /\ setup \in BOOLEAN /\ migrated \in BOOLEAN /\ invalidated \in BOOLEAN
      /\ {crossed, met, disturbed} \subseteq BOOLEAN
  BY IdleTask DEF Init
<1>3. 0 \in 0..MaxProfiles /\ {} \in SUBSET (1..MaxProfiles)
  BY LimitsAssumption
<1>. QED  BY <1>1, <1>2, <1>3, IdleTask, NoLoadType DEF TypeInv, TypeOK

\* Type correctness, with what the operations on the profiles rest on: ids are
\* given once, and a deletion never takes the last profile (delete_profile).
THEOREM TypeCorrect == Spec => []TypeOK
<1>1. TypeInv => TypeOK
  BY DEF TypeInv
<1>2. TypeInv /\ [Next]_vars => TypeInv'
  BY TypeStep
<1>. QED  BY <1>1, <1>2, TypeInit, PTL DEF Spec

-----------------------------------------------------------------------------
(* A user who is watched stays watched.                                    *)

\* The loader repairs a copy only of a user it has no image of.
RepairInv ==
    load.at \in {"profile", "fixPrefs", "fixPlace", "seePlace", "seePrefs", "seen"} =>
        image = None

\* What does not touch the loader does not touch the image.
LEMMA LoaderRests ==
    ASSUME TypeInv, Bot \/ Migrate \/ Switch \/ \E a \in Actors : Step(a) \/ Fail(a)
    PROVE  load' = load /\ image' = image
<1>1. CASE Bot
  BY <1>1, ProfileTypes, BotStarts DEF Begin, worker
<1>2. CASE Migrate
  BY <1>2 DEF Migrate, Begin, worker
<1>3. CASE Switch
  BY <1>3 DEF Switch, worker
<1>4. ASSUME NEW a \in Actors, Step(a)  PROVE load' = load /\ image' = image
  BY <1>4 DEF Step, ReadOldPrefs, ReadOldPlace, Insert, WritePrefs, WritePlace, Commit,
              FinishSetup, Remove, Unmoved
<1>5. ASSUME NEW a \in Actors, Fail(a)  PROVE load' = load /\ image' = image
  BY <1>5 DEF Fail, worker
<1>. QED  BY <1>1, <1>2, <1>3, <1>4, <1>5

\* The loader takes an image away only when monitoring is switched off.
LEMMA LoaderKeeps ==
    ASSUME TypeInv, RepairInv, LoadUser \/ Loading \/ LoadFails
    PROVE  /\ RepairInv'
           /\ image # None /\ image' = None => load.at = "end" /\ ~load.setup
<1>1. TypeOK
  BY DEF TypeInv
<1>2. CASE LoadUser
  BY <1>1, <1>2, LoadUserLoad DEF LoadUser, RepairInv
<1>3. CASE LoadPlace
  BY <1>1, <1>3, LoadPlaceLoad DEF LoadPlace, RepairInv
<1>4. CASE LoadPrefs
  BY <1>1, <1>4, LoadPrefsLoad DEF LoadPrefs, RepairInv
<1>5. CASE Decide
  BY <1>5, NoLoadType DEF Decide, Decision, Loaded, RepairInv
<1>6. CASE BeginRepair
  BY <1>1, <1>6, BeginRepairLoad DEF BeginRepair, Repairs, Decision, RepairInv
<1>7. CASE LoadProfile
  <2>1. image = None
    BY <1>7 DEF LoadProfile, RepairInv
  <2>2. CASE load.id \in DOMAIN profiles
    BY <1>1, <1>7, <2>1, <2>2, LoadProfileLoad DEF LoadProfile, RepairInv
  <2>3. CASE load.id \notin DOMAIN profiles
    BY <1>7, <2>1, <2>3, NoLoadType DEF LoadProfile, Loaded, RepairInv
  <2>. QED  BY <2>2, <2>3
<1>8. CASE FixPrefs
  BY <1>1, <1>8, FixPrefsLoad DEF FixPrefs, PrefsFixed, RepairInv
<1>9. CASE FixPlace
  BY <1>1, <1>9, FixPlaceLoad DEF FixPlace, PlaceFixed, RepairInv
<1>10. CASE Repaired
  BY <1>10, NoLoadType DEF Repaired, Loaded, RepairInv
<1>11. CASE LoadFails
  BY <1>11, NoLoadType DEF LoadFails, RepairInv
<1>. QED  BY <1>2, <1>3, <1>4, <1>5, <1>6, <1>7, <1>8, <1>9, <1>10, <1>11 DEF Loading

\* Whatever is torn, fails, times out or is written beside it: the loader never
\* takes away a user whose monitoring is on (_load_active_users_coherent).
THEOREM StaysWatched == Spec => KeepsMonitoring
<1>1. Init => RepairInv
  BY NoLoadType DEF Init, RepairInv
<1>2. TypeInv /\ RepairInv /\ [Next]_vars =>
          /\ RepairInv'
          /\ image # None /\ image' = None => (load.at = "end" /\ ~load.setup) \/ Restart
  <2>. SUFFICES ASSUME TypeInv, RepairInv, [Next]_vars
                PROVE  /\ RepairInv'
                       /\ image # None /\ image' = None =>
                             (load.at = "end" /\ ~load.setup) \/ Restart
    OBVIOUS
  <2>1. CASE LoadUser \/ Loading \/ LoadFails
    BY <2>1, LoaderKeeps
  <2>2. CASE Restart
    BY <2>2, NoLoadType DEF Restart, RepairInv
  <2>3. CASE Bot \/ Migrate \/ Switch \/ \E a \in Actors : Step(a) \/ Fail(a)
    BY <2>3, LoaderRests DEF RepairInv
  <2>4. CASE UNCHANGED vars
    BY <2>4 DEF RepairInv, vars, worker
  <2>. QED  BY <2>1, <2>2, <2>3, <2>4 DEF Next
<1>3. TypeInv /\ [Next]_vars => TypeInv'
  BY TypeStep
<1>4. TypeInv /\ RepairInv /\ [Next]_vars =>
          [(image # None /\ image' = None) =>
              (load.at = "end" /\ ~load.setup) \/ Restart]_vars
  BY <1>2
<1>. QED  BY <1>1, <1>2, <1>3, <1>4, TypeInit, PTL DEF Spec, KeepsMonitoring

-----------------------------------------------------------------------------
(* The location and the preferences the monitor works with belong together. *)

\* The bot and the migration are not both in the middle of an operation.
Apart == \E a \in Actors : task[a] = NoTask

Whole(c) == c.prefs = c.place

\* If the preferences are of this revision, they belong to this location.
Meets(rev, data) == rev # 0 /\ prefs.rev = rev => prefs.data = data

\* A task writes a whole configuration, or puts back a whole one; before there
\* is a profile it has read of the old documents what they still say.
TaskWhole(t) ==
    /\ t.at # "oldPlace" => Whole(t.config)
    /\ t.undo # None => Whole(t.undo) /\ DOMAIN profiles # {}
    /\ t.at \in {"oldPrefs", "oldPlace"} => DOMAIN profiles = {}
    /\ t.at = "oldPlace" => t.config.prefs = Legacy
    /\ t.at \in {"prefs", "place"} => DOMAIN profiles # {}
    /\ t.at = "place" => Meets(t.rev, t.config.place)

WholeInv ==
    /\ \A i \in DOMAIN profiles : Whole(profiles[i])
    /\ \A a \in Actors : TaskWhole(task[a])
    /\ DOMAIN profiles = {} => prefs.data = Legacy /\ place.data = Legacy
    /\ Meets(place.rev, place.data)
    /\ Meets(load.place.rev, load.place.data)
    /\ load.at = "fixPlace" => Meets(load.rev, load.config.place)
    /\ load.at \in {"fixPrefs", "fixPlace"} => DOMAIN profiles # {}
    /\ Whole(load.config)
    /\ load.got # None => Whole(load.got)
    /\ image # None => Whole(image)

\* The part of it that is about what is stored and what the loader has read.
StoreWhole ==
    /\ \A i \in DOMAIN profiles : Whole(profiles[i])
    /\ DOMAIN profiles = {} => prefs.data = Legacy /\ place.data = Legacy
    /\ Meets(place.rev, place.data)
    /\ Meets(load.place.rev, load.place.data)
    /\ load.at = "fixPlace" => Meets(load.rev, load.config.place)
    /\ load.at \in {"fixPrefs", "fixPlace"} => DOMAIN profiles # {}

\* A call of one task keeps what is stored whole, and disturbs no other task.
LEMMA EffectWhole ==
    ASSUME TypeInv, WholeInv, Apart, NEW a \in Actors, task[a] # NoTask,
           Effect(task[a]) \/ UNCHANGED <<profiles, prefs, place>>, load' = load
    PROVE  /\ StoreWhole'
           /\ DOMAIN profiles # {} => DOMAIN profiles' # {}
           /\ \A b \in Actors : b # a /\ task'[b] = task[b] => TaskWhole(task[b])'
<1>. DEFINE t == task[a]
<1>1. /\ TypeOK /\ t \in Task /\ t.config \in Config /\ TaskSound(a) /\ TaskWhole(t)
      /\ \A b \in Actors : task[b] \in Task /\ task[b].rev \in Nat /\ TaskWhole(task[b])
      /\ prefs \in Doc /\ place \in Doc
  BY ProfileTypes, TaskFields DEF WholeInv
<1>2. \A b \in Actors : b # a => task[b] = NoTask
  BY DEF Apart, Actors
<1>3. \A b \in Actors : b # a /\ task'[b] = task[b] => TaskWhole(task[b])'
  BY <1>2, IdleTask DEF TaskWhole, Whole, Empty
<1>4. CASE UNCHANGED <<profiles, prefs, place>>
  BY <1>3, <1>4 DEF WholeInv, StoreWhole, Meets
<1>5. CASE Inserted(t)
  <2>1. /\ \A i \in DOMAIN profiles' : i # t.id => i \in DOMAIN profiles /\ profiles'[i] = profiles[i]
        /\ t.id \in DOMAIN profiles' /\ profiles'[t.id] = t.config
        /\ UNCHANGED <<prefs, place>>
    BY <1>5 DEF Inserted, copy
  <2>2. Whole(t.config)
    BY <1>1, <1>5 DEF Inserted, TaskWhole
  <2>. QED  BY <1>3, <2>1, <2>2 DEF WholeInv, StoreWhole, Meets
<1>6. CASE PrefsWritten(t)
  <2>1. /\ prefs'.rev = Fresh /\ prefs'.data = t.config.prefs
        /\ UNCHANGED <<profiles, place>> /\ t.at = "prefs"
    BY <1>6 DEF PrefsWritten
  <2>2. Fresh # place.rev /\ Fresh # load.place.rev /\ Fresh # load.rev
    BY <1>1, FreshNew
  <2>. QED  BY <1>1, <1>3, <2>1, <2>2 DEF WholeInv, StoreWhole, Meets, TaskWhole
<1>7. CASE PlaceWritten(t)
  <2>1. /\ place'.rev = 0 \/ (place'.rev = t.rev /\ place'.data = t.config.place)
        /\ UNCHANGED <<profiles, prefs>> /\ t.at = "place"
    BY <1>7 DEF PlaceWritten, Missing
  <2>. QED  BY <1>1, <1>3, <2>1 DEF WholeInv, StoreWhole, Meets, TaskWhole
<1>8. CASE Committed(t)
  <2>1. Whole(t.config) /\ UNCHANGED <<prefs, place>>
    BY <1>1, <1>8 DEF Committed, TaskWhole, copy
  <2>2. /\ DOMAIN profiles' = DOMAIN profiles
        /\ \A i \in DOMAIN profiles : profiles'[i] \in {profiles[i], t.config}
    BY <1>8 DEF Committed
  <2>. QED  BY <1>3, <2>1, <2>2 DEF WholeInv, StoreWhole, Meets
<1>9. CASE SetupSaved(t)
  BY <1>3, <1>9 DEF SetupSaved, WholeInv, StoreWhole, Meets, copy
<1>10. CASE Removed(t)
  <2>1. /\ UNCHANGED <<prefs, place>> /\ DOMAIN profiles' = DOMAIN profiles \ {t.victim}
        /\ \A i \in DOMAIN profiles' : profiles'[i] = profiles[i]
        /\ t.at = "remove"
    BY <1>10 DEF Removed, copy
  <2>2. DOMAIN profiles' # {} /\ DOMAIN profiles # {}
    BY <1>1, <2>1 DEF TaskSound
  <2>. QED  BY <1>3, <2>1, <2>2 DEF WholeInv, StoreWhole, Meets
<1>. QED  BY <1>4, <1>5, <1>6, <1>7, <1>8, <1>9, <1>10 DEF Effect

\* A step of a task keeps everything whole if it leaves the task so.
LEMMA TaskStepWhole ==
    ASSUME TypeInv, WholeInv, Apart, NEW a \in Actors, task[a] # NoTask,
           Effect(task[a]) \/ UNCHANGED <<profiles, prefs, place>>,
           load' = load, image' = image, Only(a), TaskWhole(task[a])'
    PROVE  WholeInv'
<1>1. /\ StoreWhole'
      /\ \A b \in Actors : b # a => TaskWhole(task[b])'
  BY EffectWhole DEF Only
<1>. QED  BY <1>1 DEF WholeInv, StoreWhole

LEMMA StepWhole ==
    ASSUME TypeInv, WholeInv, Apart, NEW a \in Actors, Step(a)
    PROVE  WholeInv'
<1>. DEFINE t == task[a]
            u == task'[a]
<1>1. load' = load /\ image' = image
  BY DEF Step, ReadOldPrefs, ReadOldPlace, Insert, WritePrefs, WritePlace, Commit,
         FinishSetup, Remove, Unmoved
<1>2. /\ TypeOK /\ t \in Task /\ TaskWhole(t) /\ TaskSound(a)
      /\ \A i \in DOMAIN profiles : Whole(profiles[i])
      /\ DOMAIN profiles = {} => prefs.data = Legacy /\ place.data = Legacy
  BY ProfileTypes DEF WholeInv
<1>3. CASE ReadOldPrefs(a)
  <2>1. /\ Only(a) /\ SameJob(t, u) /\ u.at = "oldPlace" /\ u.config.prefs = prefs.data
    BY <1>2, <1>3, ReadOldPrefsTask
  <2>2. UNCHANGED <<profiles, prefs, place>> /\ t.at = "oldPrefs" /\ t # NoTask
    BY <1>3, IdleTask DEF ReadOldPrefs, copy
  <2>3. TaskWhole(task[a])'
    BY <1>2, <2>1, <2>2 DEF TaskWhole, SameJob, Whole
  <2>. QED  BY <1>1, <2>1, <2>2, <2>3, TaskStepWhole
<1>4. CASE ReadOldPlace(a)
  <2>1. /\ Only(a) /\ SameJob(t, u) /\ u.at = "insert"
        /\ u.config.place = place.data /\ u.config.prefs = t.config.prefs
    BY <1>2, <1>4, ReadOldPlaceTask
  <2>2. UNCHANGED <<profiles, prefs, place>> /\ t.at = "oldPlace" /\ t # NoTask
    BY <1>4, IdleTask DEF ReadOldPlace, copy
  <2>3. TaskWhole(task[a])'
    BY <1>2, <2>1, <2>2 DEF TaskWhole, SameJob, Whole
  <2>. QED  BY <1>1, <2>1, <2>2, <2>3, TaskStepWhole
<1>5. CASE Insert(a)
  <2>1. /\ Only(a)
        /\ \/ SameJob(t, u) /\ u.at = "commit" /\ u.config = t.config
           \/ /\ u.at = "prefs" /\ u.config = t.config
              /\ u.undo = IF active \in DOMAIN profiles \ {t.id} THEN profiles[active] ELSE None
           \/ u = NoTask
    BY <1>5, InsertTask
  <2>2. Effect(t) /\ t.at = "insert" /\ t # NoTask /\ DOMAIN profiles' # {}
    BY <1>5, IdleTask DEF Insert, Effect, Inserted
  <2>3. Whole(t.config) /\ (t.undo # None => Whole(t.undo))
    BY <1>2, <2>2 DEF TaskWhole
  <2>4. TaskWhole(task[a])'
    BY <1>2, <2>1, <2>2, <2>3, IdleTask DEF TaskWhole, SameJob, Whole, Empty
  <2>. QED  BY <1>1, <2>1, <2>2, <2>4, TaskStepWhole
<1>6. CASE WritePrefs(a)
  <2>1. /\ Only(a) /\ SameJob(t, u) /\ u.at = "place" /\ u.rev = Fresh
        /\ u.config = t.config
    BY <1>2, <1>6, WritePrefsTask
  <2>2. /\ Effect(t) /\ profiles' = profiles /\ t.at = "prefs" /\ t # NoTask
        /\ prefs' = [data |-> t.config.prefs, rev |-> Fresh]
    BY <1>6, IdleTask DEF WritePrefs, Effect, PrefsWritten
  <2>3. TaskWhole(task[a])'
    BY <1>2, <2>1, <2>2 DEF TaskWhole, SameJob, Whole, Meets
  <2>. QED  BY <1>1, <2>1, <2>2, <2>3, TaskStepWhole
<1>7. CASE WritePlace(a)
  <2>1. /\ Only(a)
        /\ u = NoTask \/ (SameJob(t, u) /\ u.at = "commit" /\ u.config = t.config)
    BY <1>2, <1>7, WritePlaceTask
  <2>2. Effect(t) /\ profiles' = profiles /\ t.at = "place" /\ t # NoTask
    BY <1>7, IdleTask DEF WritePlace, Effect, PlaceWritten
  <2>3. TaskWhole(task[a])'
    BY <1>2, <2>1, <2>2, IdleTask DEF TaskWhole, SameJob, Whole, Empty
  <2>. QED  BY <1>1, <2>1, <2>2, <2>3, TaskStepWhole
<1>8. CASE Commit(a)
  <2>1. /\ Only(a) /\ u.undo = None /\ u.config = Empty
        /\ u.at \in {"remove", "setup", "idle"}
    BY <1>2, <1>8, CommitTask, IdleTask
  <2>2. Effect(t) /\ t.at = "commit" /\ t # NoTask
    BY <1>8, IdleTask DEF Commit, Effect, Committed
  <2>3. TaskWhole(task[a])'
    BY <2>1 DEF TaskWhole, Whole, Empty
  <2>. QED  BY <1>1, <2>1, <2>2, <2>3, TaskStepWhole
<1>9. CASE FinishSetup(a)
  <2>1. Only(a) /\ u = NoTask
    BY <1>2, <1>9, IdleTask, Becoming DEF FinishSetup
  <2>2. Effect(t) /\ t.at = "setup" /\ t # NoTask
    BY <1>9, IdleTask DEF FinishSetup, Effect, SetupSaved
  <2>3. TaskWhole(task[a])'
    BY <2>1, IdleTask DEF TaskWhole, Whole, Empty
  <2>. QED  BY <1>1, <2>1, <2>2, <2>3, TaskStepWhole
<1>10. CASE Remove(a)
  <2>1. /\ Only(a) /\ u.undo = None
        /\ \/ u = NoTask
           \/ /\ u.at = "prefs" /\ u.id \in DOMAIN profiles \ {t.victim}
              /\ u.config = profiles[u.id]
    BY <1>10, RemoveTask, IdleTask
  <2>2. /\ Effect(t) /\ t.at = "remove" /\ t # NoTask
        /\ DOMAIN profiles' = DOMAIN profiles \ {t.victim}
    BY <1>10, IdleTask DEF Remove, Effect, Removed
  <2>3. TaskWhole(task[a])'
    BY <1>2, <2>1, <2>2, IdleTask DEF TaskWhole, Whole, Empty
  <2>. QED  BY <1>1, <2>1, <2>2, <2>3, TaskStepWhole
<1>. QED  BY <1>3, <1>4, <1>5, <1>6, <1>7, <1>8, <1>9, <1>10 DEF Step

LEMMA FailWhole ==
    ASSUME TypeInv, WholeInv, Apart, NEW a \in Actors, Fail(a)
    PROVE  WholeInv'
<1>. DEFINE t == task[a]
            u == task'[a]
<1>1. /\ load' = load /\ image' = image /\ t # NoTask
      /\ Effect(t) \/ UNCHANGED <<profiles, prefs, place>>
  BY DEF Fail, worker, copy
<1>2. /\ Only(a) /\ u.undo = None
      /\ u = NoTask \/ (u.at = "prefs" /\ u.config = t.undo /\ t.undo # None)
  BY ProfileTypes, FailTask, IdleTask
<1>3. TaskWhole(t)
  BY DEF WholeInv
<1>4. DOMAIN profiles # {} => DOMAIN profiles' # {}
  BY <1>1, EffectWhole
<1>5. TaskWhole(task[a])'
  BY <1>2, <1>3, <1>4, IdleTask DEF TaskWhole, Whole, Empty
<1>. QED  BY <1>1, <1>2, <1>5, TaskStepWhole

LEMMA BeginWhole ==
    ASSUME TypeInv, WholeInv, NEW a \in Actors, NEW t \in Task,
           t = NoTask \/ Started(t), Begin(a, t)
    PROVE  WholeInv'
<1>1. Only(a) /\ task'[a] = t
  BY ProfileTypes, Becoming DEF Begin
<1>2. UNCHANGED <<profiles, prefs, place, load, image>>
  BY DEF Begin, copy, worker
<1>3. TaskWhole(t)
  <2>1. \A c \in Drafts : Whole(Draft(c))
    BY DEF Whole, Draft
  <2>2. Whole(Empty)
    BY DEF Whole, Empty
  <2>3. /\ Whole(t.config) /\ t.at \notin {"oldPlace", "place"}
        /\ t.at = "oldPrefs" => DOMAIN profiles = {}
        /\ t.at = "prefs" => DOMAIN profiles # {}
    BY <2>1, <2>2, IdleTask DEF Started, WholeInv
  <2>4. t.undo # None => Whole(t.undo) /\ DOMAIN profiles # {}
    BY IdleTask DEF Started, WholeInv
  <2>. QED  BY <2>3, <2>4 DEF TaskWhole
<1>4. \A b \in Actors : TaskWhole(task'[b])
  BY <1>1, <1>3 DEF Only, WholeInv
<1>. QED  BY <1>2, <1>4 DEF WholeInv, TaskWhole, Meets

\* A step of the loader that writes nothing keeps everything whole if it reads
\* and publishes so.
LEMMA ReadWhole ==
    ASSUME TypeInv, WholeInv, UNCHANGED <<profiles, prefs, place>>,
           \A a \in Actors : task'[a] = task[a] \/ task'[a] = NoTask,
           Meets(load.place.rev, load.place.data)',
           load'.at = "fixPlace" => Meets(load.rev, load.config.place)',
           load'.at \in {"fixPrefs", "fixPlace"} => DOMAIN profiles # {},
           Whole(load'.config), load'.got # None => Whole(load'.got),
           image' # None => Whole(image')
    PROVE  WholeInv'
<1>1. \A a \in Actors : TaskWhole(task[a])'
  BY IdleTask DEF WholeInv, TaskWhole, Meets, Whole, Empty
<1>. QED  BY <1>1 DEF WholeInv, Meets, Whole

\* A repair writes what the loader has read of the profile.
LEMMA RepairWhole ==
    ASSUME TypeInv, WholeInv, PrefsFixed \/ PlaceFixed,
           UNCHANGED <<profiles, task>>
    PROVE  /\ \A a \in Actors : TaskWhole(task[a])'
           /\ Meets(place.rev, place.data)'
           /\ DOMAIN profiles # {}
<1>1. /\ DOMAIN profiles # {} /\ Whole(load.config) /\ Meets(place.rev, place.data)
      /\ load.at = "fixPlace" => Meets(load.rev, load.config.place)
      /\ \A a \in Actors : TaskWhole(task[a])
  BY DEF WholeInv, PrefsFixed, PlaceFixed
<1>2. /\ Fresh # 0 /\ Fresh # place.rev /\ \A a \in Actors : Fresh # task[a].rev
  BY FreshNew, ProfileTypes
<1>3. CASE PrefsFixed
  <2>1. prefs'.data = load.config.prefs /\ prefs'.rev = Fresh /\ place' = place
    BY <1>3 DEF PrefsFixed
  <2>. QED  BY <1>1, <1>2, <2>1 DEF TaskWhole, Meets, Whole
<1>4. CASE PlaceFixed
  <2>1. /\ prefs' = prefs /\ load.at = "fixPlace"
        /\ place'.rev = 0 \/ (place'.rev = load.rev /\ place'.data = load.config.place)
    BY <1>4 DEF PlaceFixed, Missing
  <2>2. prefs.rev # Fresh
    BY FreshNew, ProfileTypes
  <2>. QED  BY <1>1, <1>2, <2>1, <2>2 DEF TaskWhole, Meets, Whole
<1>. QED  BY <1>3, <1>4

LEMMA LoaderWhole ==
    ASSUME TypeInv, WholeInv, LoadUser \/ Loading \/ LoadFails
    PROVE  WholeInv'
<1>1. /\ TypeOK /\ load \in Load /\ prefs \in Doc /\ place \in Doc /\ load.place \in Doc
  BY ProfileTypes, LoadFields DEF TypeInv, TypeOK
<1>2. /\ Meets(place.rev, place.data) /\ Meets(load.place.rev, load.place.data)
      /\ load.at = "fixPlace" => Meets(load.rev, load.config.place)
      /\ load.at \in {"fixPrefs", "fixPlace"} => DOMAIN profiles # {}
      /\ Whole(load.config) /\ (load.got # None => Whole(load.got))
      /\ image # None => Whole(image)
      /\ \A i \in DOMAIN profiles : Whole(profiles[i])
      /\ Whole(Empty) /\ Missing.rev = 0
  BY DEF WholeInv, Whole, Empty, Missing
<1>3. CASE LoadUser
  BY <1>1, <1>2, <1>3, LoadUserLoad, ReadWhole DEF LoadUser, Unmoving, user, copy, Meets
<1>4. CASE LoadPlace
  BY <1>1, <1>2, <1>4, LoadPlaceLoad, ReadWhole DEF LoadPlace, Unmoving, user, copy, Meets
<1>5. CASE LoadPrefs
  <2>1. Pair(prefs, load.place) # None => Whole(Pair(prefs, load.place))
    BY <1>1, <1>2, PairType DEF Whole, Meets
  <2>. QED  BY <1>1, <1>2, <1>5, <2>1, LoadPrefsLoad, ReadWhole
            DEF LoadPrefs, Unmoving, user, copy, Meets
<1>6. CASE BeginRepair
  BY <1>1, <1>2, <1>6, BeginRepairLoad, ReadWhole DEF BeginRepair, Unmoving, user, copy, Meets
<1>7. ASSUME NEW c, Loaded(c), c # None => Whole(c)
      PROVE  WholeInv'
  BY <1>2, <1>7, NoLoadType, ReadWhole DEF Loaded, Unmoving, user, copy, Meets
<1>8. CASE Decide
  BY <1>2, <1>7, <1>8 DEF Decide, Decision
<1>9. CASE LoadProfile
  <2>1. CASE load.id \in DOMAIN profiles
    BY <1>1, <1>2, <1>9, <2>1, LoadProfileLoad, ReadWhole
       DEF LoadProfile, Unmoving, user, copy, Meets
  <2>2. CASE load.id \notin DOMAIN profiles
    BY <1>7, <1>9, <2>2 DEF LoadProfile
  <2>. QED  BY <2>1, <2>2
<1>10. CASE FixPrefs
  <2>1. /\ PrefsFixed /\ UNCHANGED <<profiles, task, image>>
        /\ load'.at = "fixPlace" /\ load'.rev = Fresh /\ load'.config = load.config
        /\ load'.place = load.place /\ load'.got = load.got
    BY <1>1, <1>10, FixPrefsLoad DEF FixPrefs, Unmoving, user
  <2>2. Fresh # 0 /\ Fresh # load.place.rev /\ prefs'.rev = Fresh
    BY <1>1, <2>1, FreshNew DEF PrefsFixed
  <2>3. /\ \A a \in Actors : TaskWhole(task[a])'
        /\ Meets(place.rev, place.data)' /\ DOMAIN profiles # {}
        /\ Meets(load.place.rev, load.place.data)'
        /\ prefs'.data = load.config.prefs
    BY <1>1, <1>2, <2>1, <2>2, RepairWhole DEF PrefsFixed, Meets
  <2>. QED  BY <1>2, <2>1, <2>3 DEF WholeInv, Meets, Whole
<1>11. CASE FixPlace
  <2>1. /\ PlaceFixed /\ UNCHANGED <<profiles, task, image>>
        /\ load'.at = "seePlace" /\ load'.config = Empty
        /\ load'.place = load.place /\ load'.got = load.got
    BY <1>1, <1>11, FixPlaceLoad DEF FixPlace, Unmoving, user
  <2>2. /\ \A a \in Actors : TaskWhole(task[a])'
        /\ Meets(place.rev, place.data)' /\ DOMAIN profiles # {} /\ prefs' = prefs
    BY <2>1, RepairWhole DEF PlaceFixed
  <2>. QED  BY <1>2, <2>1, <2>2 DEF WholeInv, Meets
<1>12. CASE Repaired
  BY <1>2, <1>7, <1>12 DEF Repaired
<1>13. CASE LoadFails
  <2>1. /\ UNCHANGED <<profiles, task>> /\ load' = NoLoad /\ image' \in {image, None}
        /\ UNCHANGED copy \/ PrefsFixed \/ PlaceFixed
    BY <1>13 DEF LoadFails, user
  <2>2. CASE UNCHANGED copy
    BY <1>2, <2>1, <2>2, NoLoadType, ReadWhole DEF copy, Meets
  <2>3. CASE PrefsFixed \/ PlaceFixed
    <3>1. /\ \A a \in Actors : TaskWhole(task[a])'
          /\ Meets(place.rev, place.data)' /\ DOMAIN profiles # {}
      BY <2>1, <2>3, RepairWhole
    <3>. QED  BY <1>2, <2>1, <3>1, NoLoadType DEF WholeInv, Meets
  <2>. QED  BY <2>1, <2>2, <2>3
<1>. QED  BY <1>3, <1>4, <1>5, <1>6, <1>8, <1>9, <1>10, <1>11, <1>12, <1>13 DEF Loading

LEMMA WholeStep ==
    ASSUME TypeInv, WholeInv, Apart, [Next]_vars
    PROVE  WholeInv'
<1>1. CASE Bot
  <2>1. PICK t \in Task : Started(t) /\ Begin("bot", t)
    BY <1>1, ProfileTypes, BotStarts
  <2>. QED  BY <2>1, BeginWhole DEF Actors
<1>2. CASE Migrate
  <2>1. Begin("migration", Ensuring) /\ Ensuring \in Task
        /\ (Ensuring = NoTask \/ Started(Ensuring))
    BY <1>2, ProfileTypes, EnsuringStarts DEF Migrate
  <2>. QED  BY <2>1, BeginWhole DEF Actors
<1>3. CASE Switch
  BY <1>3, ReadWhole DEF Switch, copy, worker, WholeInv, Meets
<1>4. CASE Restart
  BY <1>4, NoLoadType, ReadWhole DEF Restart, user, copy, Meets, Whole, Empty, Missing
<1>5. CASE UNCHANGED vars
  BY <1>5, ReadWhole DEF vars, user, copy, worker, WholeInv, Meets
<1>. QED  BY <1>1, <1>2, <1>3, <1>4, <1>5, StepWhole, FailWhole, LoaderWhole DEF Next

LEMMA WholeInit ==
    Init => WholeInv
<1>. SUFFICES ASSUME Init  PROVE WholeInv
  OBVIOUS
<1>1. /\ DOMAIN profiles = {} /\ image = None /\ load = NoLoad
      /\ prefs.data = Legacy /\ place = prefs /\ place.rev = 0
      /\ \A a \in Actors : task[a] = NoTask
  BY DEF Init
<1>. QED  BY <1>1, IdleTask, NoLoadType DEF WholeInv, TaskWhole, Meets, Whole, Empty, Missing

\* Every step is recorded.
LEMMA Recorded ==
    ASSUME TypeInv, Next
    PROVE  Record
<1>1. CASE Bot
  BY <1>1, ProfileTypes, BotStarts DEF Begin
<1>2. CASE Migrate \/ Switch \/ Restart \/ LoadFails
  BY <1>2 DEF Migrate, Begin, Switch, Restart, LoadFails
<1>3. CASE LoadUser \/ Loading
  BY <1>3 DEF Loading, LoadUser, LoadPlace, LoadPrefs, Decide, BeginRepair, LoadProfile,
              FixPrefs, FixPlace, Repaired, Loaded, Unmoving
<1>4. ASSUME NEW a \in Actors, Step(a)  PROVE Record
  BY <1>4 DEF Step, ReadOldPrefs, ReadOldPlace, Insert, WritePrefs, WritePlace, Commit,
              FinishSetup, Remove, Unmoved
<1>5. ASSUME NEW a \in Actors, Fail(a)  PROVE Record
  BY <1>5 DEF Fail
<1>. QED  BY <1>1, <1>2, <1>3, <1>4, <1>5 DEF Next

\* Until the bot and the migration have met, only one of them is at work.
MetInv == ~met => Apart /\ WholeInv

LEMMA MetStep ==
    ASSUME TypeInv, MetInv, [Next]_vars
    PROVE  MetInv'
<1>. SUFFICES ASSUME ~met'  PROVE Apart' /\ WholeInv'
  BY DEF MetInv
<1>1. ~met /\ Apart'
  <2>1. CASE Next
    BY <2>1, Recorded DEF Record, Apart
  <2>2. CASE UNCHANGED vars
    BY <2>2 DEF vars, history, Apart, MetInv
  <2>. QED  BY <2>1, <2>2
<1>. QED  BY <1>1, WholeStep DEF MetInv

\* Whatever fails, restarts, is torn or is repaired in the middle of any operation or
\* load: until the bot and the migration have been at work at once, the monitor has the
\* location and the preferences of one configuration (_load_active_users_coherent). No
\* behaviour is left out: that they never meet is not assumed, the statement ends there.
THEOREM MixedOnlyIfMet == Spec => []NeverMixed
<1>1. MetInv => NeverMixed
  BY DEF MetInv, WholeInv, NeverMixed, Whole
<1>2. TypeInv /\ [Next]_vars => TypeInv'
  BY TypeStep
<1>3. TypeInv /\ MetInv /\ [Next]_vars => MetInv'
  BY MetStep
<1>4. Init => MetInv
  <2>1. Init => Apart
    BY DEF Init, Apart, Actors
  <2>. QED  BY <2>1, WholeInit DEF MetInv
<1>. QED  BY <1>1, <1>2, <1>3, <1>4, TypeInit, PTL DEF Spec

-----------------------------------------------------------------------------
(* Monitoring is switched on only with a complete copy.                    *)

\* What the history variables say: as long as nothing was disturbed only one
\* task is at work, and a repair began and goes on without any.
ApartInv ==
    /\ load.at # "idle" /\ ~crossed => Idle
    /\ ~disturbed => Apart /\ (Repairing => ~crossed)

LEMMA ApartStep ==
    ASSUME TypeInv, ApartInv, [Next]_vars
    PROVE  ApartInv' /\ (~disturbed' => ~disturbed)
<1>1. CASE Next
  <2>1. Record
    BY <1>1, Recorded
  <2>. QED  BY <2>1 DEF Record, ApartInv, Apart
<1>2. CASE UNCHANGED vars
  BY <1>2 DEF vars, user, copy, worker, history, ApartInv, Apart, Idle, Repairing
<1>. QED  BY <1>1, <1>2

LEMMA ApartInit ==
    Init => ApartInv
<1>. SUFFICES ASSUME Init  PROVE ApartInv
  OBVIOUS
<1>1. load = NoLoad /\ \A a \in Actors : task[a] = NoTask
  BY DEF Init
<1>. QED  BY <1>1, NoLoadType DEF ApartInv, Apart, Repairing, Actors

\* On the way to the end of a setup the copy is written completely.
TaskReady(t) ==
    /\ t.setup => /\ t.config.place # 0
                  /\ t.doing \in {"create", "activate", "save"}
                  /\ t.at \in {"insert", "prefs", "place", "commit"}
                  /\ t.at = "place" => prefs.rev = t.rev /\ t.rev # 0
                  /\ t.at = "commit" => Coherent(prefs, place)
    /\ t.at = "insert" /\ t.doing = "create" => t.config.place # 0
    /\ t.at = "setup" => Coherent(prefs, place)

ReadyInv == ~disturbed => \A a \in Actors : TaskReady(task[a])

LEMMA ReadyIdle == TaskReady(NoTask)
  BY IdleTask DEF TaskReady

LEMMA StepReady ==
    ASSUME TypeInv, ApartInv, ReadyInv, ~disturbed, NEW a \in Actors, Step(a) \/ Fail(a)
    PROVE  \A b \in Actors : TaskReady(task[b])'
<1>. DEFINE t == task[a]
            u == task'[a]
<1>1. TypeOK /\ t \in Task /\ TaskReady(t)
  BY ProfileTypes DEF ReadyInv
<1>2. t # NoTask
  BY IdleTask DEF Step, Fail, ReadOldPrefs, ReadOldPlace, Insert, Inserted, WritePrefs,
                  PrefsWritten, WritePlace, PlaceWritten, Commit, Committed,
                  FinishSetup, SetupSaved, Remove, Removed
<1>3. \A b \in Actors : b # a => task[b] = NoTask
  BY <1>2 DEF ApartInv, Apart, Actors
<1>4. ASSUME Only(a), TaskReady(task[a])'  PROVE \A b \in Actors : TaskReady(task[b])'
  BY <1>3, <1>4, IdleTask DEF Only, TaskReady
<1>5. CASE ReadOldPrefs(a)
  <2>1. Only(a) /\ SameJob(t, u) /\ u.at = "oldPlace" /\ t.at = "oldPrefs"
    BY <1>1, <1>5, ReadOldPrefsTask DEF ReadOldPrefs
  <2>. QED  BY <1>1, <1>4, <2>1 DEF TaskReady, SameJob
<1>6. CASE ReadOldPlace(a)
  <2>1. Only(a) /\ SameJob(t, u) /\ u.at = "insert" /\ t.doing = "default"
    BY <1>1, <1>6, ReadOldPlaceTask DEF ReadOldPlace, TypeInv
  <2>. QED  BY <1>1, <1>4, <2>1 DEF TaskReady, SameJob
<1>7. CASE Insert(a)
  <2>1. /\ Only(a)
        /\ \/ t.doing = "default" /\ SameJob(t, u) /\ u.at = "commit"
           \/ /\ t.doing = "create" /\ u.at = "prefs" /\ u.doing = "activate"
              /\ u.config = t.config
           \/ u = NoTask
    BY <1>7, InsertTask
  <2>2. t.at = "insert"
    BY <1>7 DEF Insert, Inserted
  <2>3. CASE t.doing = "default" /\ SameJob(t, u) /\ u.at = "commit"
    <3>1. ~t.setup
      BY <1>1, <2>3 DEF TaskReady
    <3>. QED  BY <1>4, <2>1, <2>3, <3>1 DEF TaskReady, SameJob
  <2>4. CASE t.doing = "create" /\ u.at = "prefs" /\ u.doing = "activate" /\ u.config = t.config
    <3>1. t.config.place # 0
      BY <1>1, <2>2, <2>4 DEF TaskReady
    <3>. QED  BY <1>4, <2>1, <2>4, <3>1 DEF TaskReady
  <2>5. CASE u = NoTask
    BY <1>4, <2>1, <2>5, IdleTask DEF TaskReady
  <2>. QED  BY <2>1, <2>3, <2>4, <2>5
<1>8. CASE WritePrefs(a)
  <2>1. Only(a) /\ SameJob(t, u) /\ u.at = "place" /\ u.rev = Fresh /\ u.config = t.config
    BY <1>1, <1>8, WritePrefsTask
  <2>2. prefs'.rev = Fresh /\ Fresh # 0 /\ t.at = "prefs"
    BY <1>1, <1>8, FreshNew DEF WritePrefs, PrefsWritten
  <2>. QED  BY <1>1, <1>4, <2>1, <2>2 DEF TaskReady, SameJob
<1>9. CASE WritePlace(a)
  <2>1. /\ Only(a)
        /\ u = NoTask \/ (SameJob(t, u) /\ u.at = "commit" /\ u.config = t.config)
    BY <1>1, <1>9, WritePlaceTask
  <2>2. /\ prefs' = prefs /\ t.at = "place"
        /\ t.config.place # 0 => place'.rev = t.rev
    BY <1>9 DEF WritePlace, PlaceWritten
  <2>. QED  BY <1>1, <1>4, <2>1, <2>2, IdleTask DEF TaskReady, SameJob, Coherent
<1>10. CASE Commit(a)
  <2>1. /\ Only(a) /\ ~u.setup /\ u.at \in {"remove", "setup", "idle"}
        /\ u.at = "setup" => t.setup
    BY <1>1, <1>10, CommitTask, IdleTask
  <2>2. UNCHANGED <<prefs, place>> /\ t.at = "commit"
    BY <1>10 DEF Commit, Committed, copy
  <2>. QED  BY <1>1, <1>4, <2>1, <2>2 DEF TaskReady, Coherent
<1>11. CASE FinishSetup(a)
  <2>1. Only(a) /\ u = NoTask
    BY <1>1, <1>11, IdleTask, Becoming DEF FinishSetup
  <2>. QED  BY <1>4, <2>1, IdleTask DEF TaskReady
<1>12. CASE Remove(a)
  <2>1. Only(a) /\ ~u.setup /\ u.at \notin {"setup", "insert"}
    BY <1>12, RemoveTask, IdleTask
  <2>. QED  BY <1>4, <2>1 DEF TaskReady
<1>13. CASE Fail(a)
  <2>1. Only(a) /\ ~u.setup /\ u.at \notin {"setup", "insert"}
    BY <1>1, <1>13, FailTask, IdleTask
  <2>. QED  BY <1>4, <2>1 DEF TaskReady
<1>. QED  BY <1>5, <1>6, <1>7, <1>8, <1>9, <1>10, <1>11, <1>12, <1>13 DEF Step

LEMMA BeginReady ==
    ASSUME TypeInv, ReadyInv, ~disturbed, NEW a \in Actors, NEW t \in Task,
           t = NoTask \/ Started(t), Begin(a, t)
    PROVE  \A b \in Actors : TaskReady(task[b])'
<1>1. Only(a) /\ task'[a] = t /\ UNCHANGED <<prefs, place>>
  BY ProfileTypes, Becoming DEF Begin, copy
<1>2. \A c \in Drafts : Draft(c).place # 0
  BY DraftsAssumption DEF Draft
<1>3. TaskReady(t)
  BY <1>2, IdleTask DEF Started, TaskReady
<1>4. \A b \in Actors : TaskReady(task'[b])
  BY <1>1, <1>3 DEF Only, ReadyInv
<1>. QED  BY <1>1, <1>4 DEF TaskReady, Coherent

\* What the loader does to the copy while nothing is disturbed, it does alone.
LEMMA LoaderAlone ==
    ASSUME TypeInv, ApartInv, ~disturbed, LoadUser \/ Loading \/ LoadFails
    PROVE  /\ UNCHANGED <<prefs, place>> \/ (Repairing /\ Idle /\ (PrefsFixed \/ PlaceFixed))
           /\ UNCHANGED <<profiles, made, active, setup, task>>
<1>1. CASE LoadUser \/ Loading
  BY <1>1 DEF Loading, LoadUser, LoadPlace, LoadPrefs, Decide, BeginRepair, LoadProfile,
              FixPrefs, FixPlace, PrefsFixed, PlaceFixed, Repaired, Loaded, Unmoving,
              user, copy, ApartInv, Repairing
<1>2. CASE LoadFails
  BY <1>2 DEF LoadFails, PrefsFixed, PlaceFixed, user, copy, ApartInv, Repairing
<1>. QED  BY <1>1, <1>2

LEMMA ReadyStep ==
    ASSUME TypeInv, ApartInv, ReadyInv, [Next]_vars
    PROVE  ReadyInv'
<1>. SUFFICES ASSUME ~disturbed'  PROVE \A b \in Actors : TaskReady(task[b])'
  BY DEF ReadyInv
<1>1. ~disturbed
  BY ApartStep
<1>2. CASE Bot
  <2>1. PICK t \in Task : Started(t) /\ Begin("bot", t)
    BY <1>2, ProfileTypes, BotStarts
  <2>. QED  BY <1>1, <2>1, BeginReady DEF Actors
<1>3. CASE Migrate
  <2>1. /\ Begin("migration", Ensuring) /\ Ensuring \in Task
        /\ Ensuring = NoTask \/ Started(Ensuring)
    BY <1>3, ProfileTypes, EnsuringStarts DEF Migrate
  <2>. QED  BY <1>1, <2>1, BeginReady DEF Actors
<1>4. CASE Restart
  BY <1>4, IdleTask DEF Restart, TaskReady
<1>5. CASE Switch \/ UNCHANGED vars
  BY <1>1, <1>5 DEF Switch, vars, user, copy, ReadyInv, TaskReady, Coherent
<1>6. CASE LoadUser \/ Loading \/ LoadFails
  BY <1>1, <1>6, LoaderAlone, IdleTask DEF ReadyInv, TaskReady, Coherent, Idle
<1>7. ASSUME NEW a \in Actors, Step(a) \/ Fail(a)
      PROVE  \A b \in Actors : TaskReady(task[b])'
  BY <1>1, <1>7, StepReady
<1>. QED  BY <1>2, <1>3, <1>4, <1>5, <1>6, <1>7 DEF Next

\* Whatever fails and restarts: as long as no operation meets another, a task
\* switches monitoring on only when the copy is complete (_save_new, save_edit_v542).
THEOREM SetupReady == Spec => SetupIsReady
<1>1. TypeInv /\ ApartInv /\ ReadyInv /\ [Next]_vars =>
          [(~disturbed /\ ~setup /\ setup' /\ task' # task) => Coherent(prefs, place)]_vars
  <2>. SUFFICES ASSUME TypeInv, ApartInv, ReadyInv, Next, ~disturbed, ~setup, setup',
                       task' # task
                PROVE  Coherent(prefs, place)
    OBVIOUS
  <2>1. CASE Bot
    BY <2>1, ProfileTypes, BotStarts DEF Begin
  <2>2. CASE Migrate \/ Switch \/ Restart
    BY <2>2 DEF Migrate, Begin, Switch, Restart, user
  <2>3. CASE LoadUser \/ Loading \/ LoadFails
    BY <2>3, LoaderAlone
  <2>4. ASSUME NEW a \in Actors, Step(a) \/ Fail(a)  PROVE Coherent(prefs, place)
    <3>1. task[a].at = "setup"
      BY <2>4 DEF Step, Fail, Effect, ReadOldPrefs, ReadOldPlace, Insert, Inserted,
                  WritePrefs, PrefsWritten, WritePlace, PlaceWritten, Commit, Committed,
                  FinishSetup, SetupSaved, Remove, Removed
    <3>. QED  BY <3>1 DEF ReadyInv, TaskReady
  <2>. QED  BY <2>1, <2>2, <2>3, <2>4 DEF Next
<1>2. Init => ReadyInv
  BY ReadyIdle DEF Init, ReadyInv
<1>3. TypeInv /\ [Next]_vars => TypeInv'
  BY TypeStep
<1>4. TypeInv /\ ApartInv /\ [Next]_vars => ApartInv'
  BY ApartStep
<1>5. TypeInv /\ ApartInv /\ ReadyInv /\ [Next]_vars => ReadyInv'
  BY ReadyStep
<1>. QED  BY <1>1, <1>2, <1>3, <1>4, <1>5, TypeInit, ApartInit, PTL DEF Spec, SetupIsReady

-----------------------------------------------------------------------------
(* Between the operations the copy is the active profile.                  *)

\* Every task knows what the copy is and what it was, so that it can end, or be
\* taken back, at every call: what it wrote is its configuration, what it did not
\* write yet is still the active profile's, and undo is the active profile.
CopyHolds(config) == prefs.data = config.prefs /\ place.data = config.place

Targets(t) ==
    /\ t.id \in DOMAIN profiles /\ t.config = profiles[t.id] /\ t.victim # t.id

Undoes(t) ==
    IF t.undo = None THEN active \in {0, t.id}
    ELSE active # 0 /\ t.undo = profiles[active]

TaskWrites(t) ==
    \/ t.doing = "activate" /\ Targets(t) /\ Undoes(t)
    \/ t.doing = "save" /\ t.id = active /\ active # 0 /\ t.undo = profiles[active]
    \/ t.doing = "save" /\ t.id # active /\ t.at = "commit" /\ t.undo = None /\ InStep
    \/ t.doing = "default" /\ t.at = "commit" /\ active = 0 /\ t.undo = None /\ Targets(t)
    \/ /\ t.doing = "restore" /\ t.at # "commit" /\ incidents >= 1
       /\ active # 0 => t.config = profiles[active]

TaskCopies(t) ==
    /\ t.at = "idle" => t = NoTask
    /\ t.at \in {"oldPrefs", "oldPlace"} => DOMAIN profiles = {}
    /\ t.at = "oldPlace" => t.config.prefs = prefs.data
    /\ t.at = "insert" => InStep /\ t.id \notin DOMAIN profiles
    /\ t.at = "insert" /\ t.doing = "default" =>
           DOMAIN profiles = {} /\ CopyHolds(t.config)
    /\ t.at \in {"prefs", "place", "commit"} => TaskWrites(t)
    /\ t.at = "prefs" /\ t.doing # "restore" => InStep
    /\ t.at = "place" =>
           /\ prefs.data = t.config.prefs
           /\ t.doing # "restore" /\ active # 0 => place.data = profiles[active].place
    /\ t.at = "commit" /\ ~(t.doing = "save" /\ t.id # active) => CopyHolds(t.config)
    /\ t.at \in {"remove", "setup"} => InStep
    /\ t.at = "remove" => t.victim # active
    /\ t.at \in {"oldPrefs", "oldPlace", "insert", "remove", "setup"} => t.undo = None
    /\ t.victim # 0 => /\ t.at \in {"prefs", "place", "commit", "remove"}
                       /\ t.doing \in {"activate", "nothing"}

CopyInv ==
    /\ ActiveExists
    /\ ~disturbed =>
           /\ load.at \in {"place", "prefs", "end", "profile"} /\ ~crossed =>
                  load.id = active
           /\ Repairing => active # 0 /\ load.config = profiles[active]
           /\ Idle => InStep
           /\ \A a \in Actors : TaskCopies(task[a])

LEMMA CopiesIdle == TaskCopies(NoTask)
  BY IdleTask DEF TaskCopies

LEMMA StepCopies ==
    ASSUME TypeInv, CopyInv, ~disturbed, NEW a \in Actors, Step(a)
    PROVE  /\ active' # 0 => active' \in DOMAIN profiles'
           /\ TaskCopies(task[a])'
           /\ task'[a] = NoTask => InStep'
<1>. DEFINE t == task[a]
            u == task'[a]
<1>1. /\ TypeOK /\ t \in Task /\ TaskCopies(t)
      /\ active # 0 => active \in DOMAIN profiles
      /\ 0 \notin DOMAIN profiles
      /\ \A i \in DOMAIN profiles : profiles[i] # None
  BY ProfileTypes, NoneAssumption DEF CopyInv, ActiveExists, TypeOK
<1>2. CASE ReadOldPrefs(a)
  <2>1. SameJob(t, u) /\ u.at = "oldPlace" /\ t.at = "oldPrefs" /\ u.config.prefs = prefs.data
    BY <1>1, <1>2, ReadOldPrefsTask DEF ReadOldPrefs
  <2>2. UNCHANGED <<profiles, active, prefs, place>>
    BY <1>2 DEF ReadOldPrefs, copy
  <2>. QED  BY <1>1, <2>1, <2>2, IdleTask DEF TaskCopies, SameJob
<1>3. CASE ReadOldPlace(a)
  <2>1. /\ SameJob(t, u) /\ u.at = "insert" /\ t.at = "oldPlace"
        /\ u.config.place = place.data /\ u.config.prefs = t.config.prefs
    BY <1>1, <1>3, ReadOldPlaceTask DEF ReadOldPlace
  <2>2. UNCHANGED <<profiles, active, prefs, place>>
    BY <1>3 DEF ReadOldPlace, copy
  <2>3. DOMAIN profiles = {} /\ active = 0
    BY <1>1, <2>1 DEF TaskCopies
  <2>. QED  BY <1>1, <2>1, <2>2, <2>3, IdleTask DEF TaskCopies, SameJob, CopyHolds, InStep
<1>4. CASE Insert(a)
  <2>1. /\ t.at = "insert" /\ UNCHANGED <<active, prefs, place>>
        /\ profiles' = [i \in DOMAIN profiles \cup {t.id} |->
                            IF i = t.id THEN t.config ELSE profiles[i]]
    BY <1>4 DEF Insert, Inserted, copy
  <2>2. /\ InStep /\ t.id \notin DOMAIN profiles /\ t.id # 0 /\ t.undo = None
        /\ t.victim = 0
    BY <1>1, <2>1 DEF TaskCopies, TypeInv
  <2>3. /\ DOMAIN profiles' = DOMAIN profiles \cup {t.id}
        /\ profiles'[t.id] = t.config
        /\ \A i \in DOMAIN profiles : profiles'[i] = profiles[i]
    BY <2>1, <2>2
  <2>4. InStep' /\ (active' # 0 => active' \in DOMAIN profiles')
    BY <1>1, <2>1, <2>2, <2>3 DEF InStep
  <2>5. CASE t.doing = "default" /\ SameJob(t, u) /\ u.at = "commit" /\ u.config = t.config
    <3>1. active = 0 /\ CopyHolds(t.config)
      BY <1>1, <2>1, <2>5 DEF TaskCopies
    <3>2. TaskWrites(task[a])'
      BY <2>1, <2>2, <2>3, <2>5, <3>1 DEF TaskWrites, Targets, SameJob
    <3>. QED  BY <2>1, <2>2, <2>4, <2>5, <3>1, <3>2, IdleTask
              DEF TaskCopies, SameJob, CopyHolds
  <2>6. CASE /\ u.at = "prefs" /\ u.doing = "activate" /\ u.id = t.id
             /\ u.config = t.config /\ u.victim = 0
             /\ u.undo = IF active \in DOMAIN profiles \ {t.id}
                         THEN profiles[active] ELSE None
    <3>1. TaskWrites(task[a])'
      BY <1>1, <2>1, <2>2, <2>3, <2>6 DEF TaskWrites, Targets, Undoes
    <3>. QED  BY <2>4, <2>6, <3>1, IdleTask DEF TaskCopies
  <2>7. CASE u = NoTask
    BY <2>4, <2>7, IdleTask DEF TaskCopies
  <2>. QED  BY <1>4, <2>5, <2>6, <2>7, InsertTask
<1>5. CASE WritePrefs(a)
  <2>1. SameJob(t, u) /\ u.at = "place" /\ u.config = t.config
    BY <1>1, <1>5, WritePrefsTask
  <2>2. /\ t.at = "prefs" /\ UNCHANGED <<profiles, active, place, incidents>>
        /\ prefs'.data = t.config.prefs
    BY <1>5 DEF WritePrefs, PrefsWritten, Unmoved
  <2>3. TaskWrites(t) /\ (t.doing # "restore" => InStep)
    BY <1>1, <2>2 DEF TaskCopies
  <2>4. TaskWrites(task[a])'
    BY <2>1, <2>2, <2>3 DEF TaskWrites, SameJob, Targets, Undoes
  <2>5. t.doing # "restore" /\ active # 0 => place.data = profiles[active].place
    BY <2>3 DEF InStep
  <2>. QED  BY <1>1, <2>1, <2>2, <2>4, <2>5, IdleTask DEF TaskCopies, SameJob
<1>6. CASE WritePlace(a)
  <2>1. /\ t.at = "place" /\ UNCHANGED <<profiles, active, prefs, incidents>>
        /\ place'.data = t.config.place
    BY <1>6 DEF WritePlace, PlaceWritten, Missing, Unmoved
  <2>2. TaskWrites(t) /\ prefs'.data = t.config.prefs
    BY <1>1, <2>1 DEF TaskCopies
  <2>3. CASE t.doing = "restore"
    <3>1. u = NoTask
      BY <1>1, <1>6, <2>3, WritePlaceTask
    <3>2. InStep'
      BY <2>1, <2>2, <2>3 DEF TaskWrites, InStep, CopyHolds
    <3>. QED  BY <1>1, <2>1, <3>1, <3>2, IdleTask DEF TaskCopies
  <2>4. CASE t.doing # "restore"
    <3>1. SameJob(t, u) /\ u.at = "commit" /\ u.config = t.config
      BY <1>1, <1>6, <2>4, WritePlaceTask
    <3>2. TaskWrites(task[a])'
      BY <2>1, <2>2, <2>4, <3>1 DEF TaskWrites, SameJob, Targets, Undoes
    <3>. QED  BY <1>1, <2>1, <2>2, <3>1, <3>2, IdleTask DEF TaskCopies, SameJob, CopyHolds
  <2>. QED  BY <2>3, <2>4
<1>7. CASE Commit(a)
  <2>1. t.at = "commit" /\ UNCHANGED <<prefs, place>> /\ TaskWrites(t)
    BY <1>1, <1>7 DEF Commit, Committed, copy, TaskCopies
  <2>2. /\ InStep' /\ (active' # 0 => active' \in DOMAIN profiles')
        /\ t.victim # 0 => t.victim # active'
    <3>1. CASE t.doing = "save"
      <4>1. /\ UNCHANGED active /\ t.victim = 0
            /\ profiles' = [i \in DOMAIN profiles |->
                                IF i = t.id THEN t.config ELSE profiles[i]]
        BY <1>1, <1>7, <3>1 DEF Commit, Committed, TaskCopies
      <4>2. t.id = active => CopyHolds(t.config)
        BY <1>1, <2>1 DEF TaskCopies
      <4>3. t.id # active => InStep
        BY <2>1, <3>1 DEF TaskWrites
      <4>. QED  BY <1>1, <2>1, <4>1, <4>2, <4>3 DEF InStep, CopyHolds
    <3>2. CASE t.doing # "save"
      <4>1. active' = t.id /\ UNCHANGED profiles /\ CopyHolds(t.config)
        BY <1>1, <1>7, <2>1, <3>2 DEF Commit, Committed, TaskCopies
      <4>2. Targets(t)
        BY <2>1, <3>2 DEF TaskWrites
      <4>. QED  BY <2>1, <4>1, <4>2 DEF InStep, CopyHolds, Targets
    <3>. QED  BY <3>1, <3>2
  <2>3. \/ /\ u.at = "remove" /\ u.doing = "nothing" /\ u.undo = None
           /\ u.victim = t.victim /\ t.victim # 0
        \/ u.at = "setup" /\ u.undo = None /\ u.victim = 0
        \/ u = NoTask
    BY <1>1, <1>7, CommitTask
  <2>. QED  BY <2>2, <2>3, IdleTask DEF TaskCopies
<1>8. CASE FinishSetup(a)
  <2>1. u = NoTask
    BY <1>1, <1>8, IdleTask, Becoming DEF FinishSetup
  <2>2. t.at = "setup" /\ UNCHANGED <<profiles, active, prefs, place>>
    BY <1>8 DEF FinishSetup, SetupSaved, copy
  <2>. QED  BY <1>1, <2>1, <2>2, IdleTask DEF TaskCopies, InStep
<1>9. CASE Remove(a)
  <2>. DEFINE rest == DOMAIN profiles \ {t.victim}
  <2>1. /\ t.at = "remove" /\ UNCHANGED <<active, prefs, place>>
        /\ profiles' = [i \in rest |-> profiles[i]]
    BY <1>9 DEF Remove, Removed, copy
  <2>2. InStep /\ t.victim # active
    BY <1>1, <2>1 DEF TaskCopies
  <2>3. active # 0 => active \in rest
    BY <1>1, <2>2
  <2>4. InStep' /\ DOMAIN profiles' = rest /\ \A i \in rest : profiles'[i] = profiles[i]
    BY <2>1, <2>2, <2>3 DEF InStep
  <2>5. CASE u = NoTask
    BY <2>1, <2>3, <2>4, <2>5, IdleTask DEF TaskCopies
  <2>6. CASE /\ active \notin rest /\ u.at = "prefs" /\ u.doing = "activate"
             /\ u.id \in rest /\ u.config = profiles[u.id]
             /\ u.undo = None /\ u.victim = 0
    <3>1. TaskWrites(task[a])'
      BY <1>1, <2>1, <2>3, <2>4, <2>6 DEF TaskWrites, Targets, Undoes
    <3>. QED  BY <2>1, <2>3, <2>4, <2>6, <3>1, IdleTask DEF TaskCopies
  <2>. QED  BY <1>9, <2>5, <2>6, RemoveTask
<1>. QED  BY <1>2, <1>3, <1>4, <1>5, <1>6, <1>7, <1>8, <1>9 DEF Step

\* A task that fails leaves the copy of the active profile, or restores it next.
LEMMA FailCopies ==
    ASSUME TypeInv, CopyInv, ~disturbed, ~disturbed', MaxIncidents <= 1,
           NEW a \in Actors, Fail(a)
    PROVE  /\ active' # 0 => active' \in DOMAIN profiles'
           /\ TaskCopies(task[a])'
           /\ task'[a] = NoTask => InStep'
<1>. DEFINE t == task[a]
            u == task'[a]
<1>1. /\ TypeOK /\ t \in Task /\ TaskCopies(t) /\ t # NoTask
      /\ active # 0 => active \in DOMAIN profiles
  BY ProfileTypes DEF CopyInv, ActiveExists, Fail
<1>2. incidents = 0 /\ incidents' = 1
  BY <1>1, LimitsAssumption DEF Fail, TypeOK
<1>3. UNCHANGED <<profiles, active>>
  BY <1>2 DEF Fail, Record
<1>4. \/ UNCHANGED <<prefs, place>>
      \/ t.at = "prefs" /\ prefs'.data = t.config.prefs /\ UNCHANGED place
      \/ t.at = "place" /\ place'.data = t.config.place /\ UNCHANGED prefs
  BY DEF Fail, Effect, Inserted, PrefsWritten, PlaceWritten, Committed, SetupSaved,
         Removed, copy, Missing
<1>5. CASE t.undo = None
  <2>. SUFFICES InStep'
    <3>1. u = NoTask
      BY <1>1, <1>5, FailTask
    <3>. QED  BY <1>1, <1>3, <3>1, IdleTask DEF TaskCopies
  <2>2. CASE t.at \in {"oldPrefs", "oldPlace"}
    BY <1>1, <1>3, <2>2 DEF TaskCopies, InStep
  <2>3. CASE t.at \in {"insert", "remove", "setup"}
    BY <1>1, <1>3, <1>4, <2>3 DEF TaskCopies, InStep
  <2>4. CASE t.at \in {"prefs", "place", "commit"}
    <3>1. /\ TaskWrites(t) /\ t.doing # "restore"
      BY <1>1, <1>2, <2>4 DEF TaskCopies, TaskWrites
    <3>2. CASE active = 0
      BY <1>3, <3>2 DEF InStep
    <3>3. CASE active # 0 /\ t.doing = "save"
      <4>1. t.at = "commit" /\ InStep
        BY <1>1, <1>5, <3>1, <3>3, NoneAssumption DEF TaskWrites, TypeOK
      <4>. QED  BY <1>3, <1>4, <4>1 DEF InStep
    <3>4. CASE active # 0 /\ t.doing # "save"
      <4>1. t.config = profiles[active]
        BY <1>5, <3>1, <3>4 DEF TaskWrites, Targets, Undoes
      <4>. QED  BY <1>1, <1>3, <1>4, <2>4, <3>1, <3>4, <4>1 DEF TaskCopies, InStep, CopyHolds
    <3>. QED  BY <3>2, <3>3, <3>4
  <2>. QED  BY <1>1, <2>2, <2>3, <2>4, TaskFields DEF TaskCopies
<1>6. CASE t.undo # None
  <2>1. u.at = "prefs" /\ u.doing = "restore" /\ u.config = t.undo /\ u.victim = 0
    BY <1>1, <1>6, FailTask
  <2>2. t.at \in {"prefs", "place", "commit"}
    BY <1>1, <1>6, TaskFields DEF TaskCopies
  <2>3. TaskWrites(t) /\ t.doing # "restore"
    BY <1>1, <1>2, <2>2 DEF TaskCopies, TaskWrites
  <2>4. active # 0 /\ t.undo = profiles[active]
    BY <1>6, <2>3 DEF TaskWrites, Undoes
  <2>5. TaskWrites(task[a])'
    BY <1>2, <1>3, <2>1, <2>4 DEF TaskWrites
  <2>. QED  BY <1>1, <1>3, <2>1, <2>5, IdleTask DEF TaskCopies
<1>. QED  BY <1>5, <1>6

LEMMA BeginCopies ==
    ASSUME TypeInv, CopyInv, ~disturbed, Idle, NEW a \in Actors, NEW t \in Task,
           t = NoTask \/ Started(t), Begin(a, t)
    PROVE  /\ active' # 0 => active' \in DOMAIN profiles'
           /\ TaskCopies(task[a])'
           /\ task'[a] = NoTask => InStep'
<1>1. task'[a] = t /\ UNCHANGED <<profiles, active, prefs, place>>
  BY ProfileTypes, Becoming DEF Begin, copy
<1>2. /\ InStep /\ (active # 0 => active \in DOMAIN profiles)
      /\ 0 \notin DOMAIN profiles /\ made + 1 \notin DOMAIN profiles
      /\ made + 1 # 0
      /\ \A i \in DOMAIN profiles : profiles[i] # None
  <2>1. TypeOK /\ DOMAIN profiles \subseteq 1..made /\ made \in Nat
    BY LimitsAssumption DEF TypeInv, TypeOK
  <2>. QED  BY <2>1, NoneAssumption DEF CopyInv, ActiveExists, TypeOK
<1>. DEFINE n == made + 1
<1>3. CASE t = NoTask
  BY <1>1, <1>2, <1>3, IdleTask DEF TaskCopies, InStep
<1>4. CASE Started(t)
  <2>1. Started(t) /\ n \notin DOMAIN profiles
    BY <1>2, <1>4
  <2>2. t.at \in {"prefs", "commit"} => TaskWrites(t)
    BY <1>2, <2>1 DEF Started, TaskWrites, Targets, Undoes
  <2>3. TaskCopies(t)
    BY <1>2, <2>1, <2>2, IdleTask DEF Started, TaskCopies, CopyHolds
  <2>. QED  BY <1>1, <1>2, <2>3, IdleTask
            DEF Started, TaskCopies, TaskWrites, Targets, Undoes, CopyHolds, InStep
<1>. QED  BY <1>3, <1>4

\* One task alone made a step: the loader has to begin again or knows of it.
LEMMA TaskAlone ==
    ASSUME TypeInv, ~disturbed', Record, NEW a \in Actors, Only(a), load' = load,
           \A b \in Actors : b # a => task[b] = NoTask,
           ~Idle \/ ~Idle',
           active' # 0 => active' \in DOMAIN profiles',
           TaskCopies(task[a])',
           task'[a] = NoTask => InStep'
    PROVE  CopyInv'
<1>1. /\ load'.at # "idle" => crossed'
      /\ ~(Repairing' /\ crossed')
  BY DEF Record
<1>2. \A b \in Actors : TaskCopies(task[b])'
  BY IdleTask DEF Only, TaskCopies
<1>3. Idle' => InStep'
  BY DEF Idle
<1>. QED  BY <1>1, <1>2, <1>3 DEF CopyInv, ActiveExists, Repairing

LEMMA BeginAlone ==
    ASSUME TypeInv, CopyInv, ~disturbed, ~disturbed', NEW a \in Actors, NEW t \in Task,
           t = NoTask \/ Started(t), Begin(a, t)
    PROVE  CopyInv'
<1>1. /\ Only(a) /\ task[a] = NoTask /\ task'[a] = t /\ Record
      /\ UNCHANGED <<profiles, active, prefs, place, load, incidents>>
  BY ProfileTypes, Becoming DEF Begin, copy, worker
<1>2. CASE t = NoTask
  <2>1. \A b \in Actors : task'[b] = task[b]
    BY <1>1, <1>2 DEF Only
  <2>2. load.at # "idle" /\ crossed => crossed'
    BY <1>1 DEF Record
  <2>. QED  BY <1>1, <2>1, <2>2
            DEF CopyInv, ActiveExists, Repairing, Idle, InStep, TaskCopies, TaskWrites,
                Targets, Undoes, CopyHolds
<1>3. CASE t # NoTask
  <2>1. \A b \in Actors : b # a => task[b] = NoTask
    <3>1. ~(\A b \in Actors : task'[b] # NoTask)
      BY <1>1 DEF Record
    <3>. QED  BY <1>1, <1>3, <3>1 DEF Only, Actors
  <2>2. Idle /\ ~Idle'
    BY <1>1, <1>3, <2>1 DEF Idle
  <2>. QED  BY <1>1, <2>1, <2>2, BeginCopies, TaskAlone
<1>. QED  BY <1>2, <1>3

\* The loader writes nothing but the active profile.
LEMMA LoaderCopies ==
    ASSUME TypeInv, ApartInv, CopyInv, ~disturbed, ~disturbed',
           LoadUser \/ Loading \/ LoadFails
    PROVE  CopyInv'
<1>1. /\ UNCHANGED <<profiles, active, task>>
      /\ UNCHANGED <<prefs, place>> \/ (Repairing /\ Idle /\ (PrefsFixed \/ PlaceFixed))
  BY LoaderAlone
<1>2. /\ TypeOK /\ Record /\ incidents' \in {incidents, incidents + 1} /\ incidents \in Nat
  BY DEF LoadUser, Loading, LoadFails, LoadPlace, LoadPrefs, Decide, BeginRepair,
         LoadProfile, FixPrefs, FixPlace, Repaired, Loaded, Unmoving, TypeInv, TypeOK
<1>3. /\ load'.at # "idle" /\ ~crossed' => ~crossed
      /\ ~(Repairing' /\ crossed')
  BY <1>2 DEF Record
<1>4. \A a \in Actors : TaskCopies(task[a])'
  <2>1. CASE UNCHANGED <<prefs, place>>
    <3>1. \A a \in Actors : TaskCopies(task[a])
      BY DEF CopyInv
    <3>2. incidents >= 1 => incidents' >= 1
      BY <1>2
    <3>3. TAKE a \in Actors
    <3>4. InStep => InStep'
      BY <1>1, <2>1 DEF InStep
    <3>5. TaskWrites(task[a]) => TaskWrites(task[a])'
      BY <1>1, <3>2, <3>4 DEF TaskWrites, Targets, Undoes
    <3>. QED  BY <1>1, <2>1, <3>1, <3>4, <3>5 DEF TaskCopies, CopyHolds
  <2>2. CASE Idle
    BY <1>1, <2>2, IdleTask DEF Idle, TaskCopies
  <2>. QED  BY <1>1, <2>1, <2>2
<1>5. Idle' => InStep'
  <2>1. CASE UNCHANGED <<prefs, place>>
    BY <1>1, <2>1 DEF CopyInv, Idle, InStep
  <2>2. CASE Repairing /\ Idle /\ (PrefsFixed \/ PlaceFixed)
    BY <1>1, <2>2 DEF CopyInv, InStep, PrefsFixed, PlaceFixed, Missing
  <2>. QED  BY <1>1, <2>1, <2>2
<1>6. /\ load'.at \in {"place", "prefs", "end", "profile"} /\ ~crossed' => load'.id = active
      /\ Repairing' => active # 0 /\ load'.config = profiles[active]
  <2>1. CASE LoadUser
    BY <1>2, <2>1, LoadUserLoad DEF Repairing
  <2>2. CASE LoadPlace
    BY <1>2, <1>3, <2>2, LoadPlaceLoad DEF LoadPlace, Repairing, CopyInv
  <2>3. CASE LoadPrefs
    BY <1>2, <1>3, <2>3, LoadPrefsLoad DEF LoadPrefs, Repairing, CopyInv
  <2>4. CASE BeginRepair
    BY <1>2, <1>3, <2>4, BeginRepairLoad DEF BeginRepair, Repairs, Repairing, CopyInv
  <2>5. CASE LoadProfile /\ load.id \in DOMAIN profiles
    <3>1. load'.at = "fixPrefs" /\ load'.config = profiles[load.id]
      BY <1>2, <2>5, LoadProfileLoad
    <3>2. ~crossed /\ load.id = active
      BY <1>3, <2>5, <3>1 DEF Repairing, CopyInv, LoadProfile
    <3>3. active # 0
      BY <1>2, <2>5, <3>2 DEF TypeOK
    <3>. QED  BY <3>1, <3>2, <3>3
  <2>6. CASE Decide \/ Repaired \/ LoadFails \/ (LoadProfile /\ load.id \notin DOMAIN profiles)
    BY <2>6, NoLoadType DEF Decide, Repaired, LoadFails, LoadProfile, Loaded, Repairing
  <2>7. CASE FixPrefs
    BY <1>2, <2>7, FixPrefsLoad DEF FixPrefs, PrefsFixed, Repairing, CopyInv
  <2>8. CASE FixPlace
    BY <1>2, <2>8, FixPlaceLoad DEF Repairing
  <2>. QED  BY <2>1, <2>2, <2>3, <2>4, <2>5, <2>6, <2>7, <2>8 DEF Loading
<1>. QED  BY <1>1, <1>4, <1>5, <1>6 DEF CopyInv, ActiveExists

LEMMA CopyStep ==
    ASSUME TypeInv, ApartInv, CopyInv, [Next]_vars, MaxIncidents <= 1, ~Restarting
    PROVE  CopyInv'
<1>. SUFFICES ASSUME ~disturbed'  PROVE CopyInv'
  BY DEF CopyInv, ActiveExists
<1>1. ~disturbed
  BY ApartStep
<1>2. CASE Bot
  <2>1. PICK t \in Task : Started(t) /\ Begin("bot", t)
    BY <1>2, ProfileTypes, BotStarts
  <2>. QED  BY <1>1, <2>1, BeginAlone DEF Actors
<1>3. CASE Migrate
  <2>1. /\ Begin("migration", Ensuring) /\ Ensuring \in Task
        /\ Ensuring = NoTask \/ Started(Ensuring)
    BY <1>3, ProfileTypes, EnsuringStarts DEF Migrate
  <2>. QED  BY <1>1, <2>1, BeginAlone DEF Actors
<1>4. CASE LoadUser \/ Loading \/ LoadFails
  BY <1>1, <1>4, LoaderCopies
<1>5. CASE Switch
  <2>1. /\ UNCHANGED <<profiles, active, prefs, place, task, load>> /\ Record
        /\ incidents \in Nat /\ incidents' = incidents + 1
    BY <1>5, ProfileTypes DEF Switch, copy, worker, TypeOK
  <2>2. load.at # "idle" /\ crossed => crossed'
    BY <2>1 DEF Record
  <2>. QED  BY <1>1, <2>1, <2>2
            DEF CopyInv, ActiveExists, Repairing, Idle, InStep, TaskCopies, TaskWrites,
                Targets, Undoes, CopyHolds
<1>6. CASE UNCHANGED vars
  BY <1>6 DEF vars, user, copy, worker, history, CopyInv, ActiveExists, Repairing, Idle,
              InStep, TaskCopies, TaskWrites, Targets, Undoes, CopyHolds
<1>7. ASSUME NEW a \in Actors, Step(a) \/ Fail(a)  PROVE CopyInv'
  <2>1. /\ task[a] # NoTask
    BY <1>7, IdleTask DEF Step, Fail, ReadOldPrefs, ReadOldPlace, Insert, Inserted, WritePrefs,
                PrefsWritten, WritePlace, PlaceWritten, Commit, Committed, FinishSetup,
                SetupSaved, Remove, Removed
  <2>2. /\ \A b \in Actors : b # a => task[b] = NoTask
        /\ ~Idle
    BY <1>1, <2>1 DEF ApartInv, Apart, Actors, Idle
  <2>3. Only(a)
    BY <1>7, ProfileTypes, ReadOldPrefsTask, ReadOldPlaceTask, InsertTask, WritePrefsTask,
       WritePlaceTask, CommitTask, RemoveTask, FailTask, Becoming, IdleTask
       DEF Step, FinishSetup
  <2>4. load' = load /\ Record
    BY <1>7 DEF Step, Fail, ReadOldPrefs, ReadOldPlace, Insert, WritePrefs, WritePlace,
                Commit, FinishSetup, Remove, Unmoved, worker
  <2>5. /\ active' # 0 => active' \in DOMAIN profiles'
        /\ TaskCopies(task[a])'
        /\ task'[a] = NoTask => InStep'
    BY <1>1, <1>7, StepCopies, FailCopies
  <2>. QED  BY <2>2, <2>3, <2>4, <2>5, TaskAlone
<1>. QED  BY <1>2, <1>3, <1>4, <1>5, <1>6, <1>7 DEF Next, Restart

LEMMA CopyInit ==
    Init => CopyInv
<1>. SUFFICES ASSUME Init  PROVE CopyInv
  OBVIOUS
<1>1. /\ load = NoLoad /\ active = 0 /\ ~disturbed
      /\ \A a \in Actors : task[a] = NoTask
  BY DEF Init
<1>. QED  BY <1>1, NoLoadType, CopiesIdle DEF CopyInv, ActiveExists, Repairing, InStep

\* With one incident at most and without a restart: between operations that do not
\* meet, the copy is the active profile, also after an operation that failed
\* half-way, and the active profile exists. A second failure, of the roll-back, or
\* a restart between the two writes, leaves a torn copy, which the loader finds.
THEOREM CopyActive ==
    ASSUME MaxIncidents <= 1, ~Restarting
    PROVE  Spec => []CopyIsActive
<1>1. CopyInv => CopyIsActive
  BY DEF CopyInv, CopyIsActive
<1>2. TypeInv /\ [Next]_vars => TypeInv'
  BY TypeStep
<1>3. TypeInv /\ ApartInv /\ [Next]_vars => ApartInv'
  BY ApartStep
<1>4. TypeInv /\ ApartInv /\ CopyInv /\ [Next]_vars => CopyInv'
  BY CopyStep
<1>. QED  BY <1>1, <1>2, <1>3, <1>4, TypeInit, ApartInit, CopyInit, PTL DEF Spec
=============================================================================
