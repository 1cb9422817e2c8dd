---------------------------- MODULE DecisionsProofs ----------------------------
(***************************************************************************)
(* The conversation of a user with the bot, for every number of profiles,   *)
(* of changes of one and of preset drafts; and, as named instances, the     *)
(* selection of aircraft, their hand-out to the users of a region, the      *)
(* scoring of predictions and the optional AI.  The assumption of an        *)
(* instance is a hypothesis of its theorem.                                 *)
(***************************************************************************)
EXTENDS Dialogues, Integers, Sequences, FiniteSets, FiniteSetTheorems, WellFoundedInduction, TLAPS

CONSTANTS
  Types, Categories, CategoriesOf, Rank, Cargo, Operators, CargoOperators, Mixed, Sky, Radii,
  Altitudes, AirlineLists, MaxRadius, Margin, MaxSettings,
  People, Homes, Reaches, Around, CellSize, MaxCells, MaxCandidates, MaxAircraft,
  Paths, Near, Horizon, Throttle, Reset, Pause, Window, Tolerance, Recent, Concurrency,
  Ladder, KeysOf, Questions, Kinds, MaxTurns

VARIABLES
  config, editing, polled,
  users, feed, bucket,
  now, flight, reports, alert, tracked, throttled, kept, work, recent, rows,
  kind, down, refused, turns, rested, cooling, cursor, ask, able

Filter == INSTANCE AircraftFilter
Partition == INSTANCE SkyPartition WITH Users <- People, Radii <- Reaches
Scoring == INSTANCE PassScoring WITH
  Radius <- Near, Kept <- Recent, path <- flight, cached <- kept
Optional == INSTANCE AiCascade WITH Cascade <- Ladder

-----------------------------------------------------------------------------
(* The inductive invariant.                                                 *)

Users ==
  /\ made \in 1..MaxProfiles /\ DOMAIN profiles \subseteq 1..made
  /\ \A p \in DOMAIN profiles : profiles[p] \in Profile
  /\ active \in DOMAIN profiles

\* The questions that only somebody with a draft is asked.
Asking == {"name", "location", "question", "ruleInput", "quickLocation"}

\* A conversation from which a draft can be saved, or can become one again.
InHand(c) == c.draft # None \/ c.preset \/ c.at \in Asking

\* Its draft is a copy of what its profile is now.
Current(c) == c.target \in DOMAIN profiles => c.base = profiles[c.target].version

\* Who is asked for the place of a profile has a draft of it.
Placed(c) == c.at = "quickLocation" => c.draft \in BOOLEAN

\* What is left to do of a handler that changed what a draft is a copy of, or made a
\* profile of one.
Dues == {"activate", "setup", "end"}

\* Whoever has a draft in hand saved it as often as a save failed, and no oftener.
Counted(c) == uses <= failed /\ (failed = 0 => Current(c))

\* A target that is gone never comes back: ids grow.
Fine(c) ==
  /\ c \in Conversation /\ c.target <= made /\ Placed(c)
  /\ InHand(c) /\ pending \notin Dues => Counted(c)

Safe ==
  /\ Users /\ sessions \in 0..MaxSessions
  /\ uses \in Nat /\ failed \in Nat /\ uses <= failed + 1
  /\ pending \in {"nothing", "leave"} \cup Dues
  /\ pending = "activate" => made \in DOMAIN profiles
  /\ Fine(stored) /\ (cached = None \/ Fine(cached))

-----------------------------------------------------------------------------
(* Conversations.                                                           *)

LEMMA SilenceIsFine ==
    ASSUME DialogueAssumption
    PROVE  Silence \in Conversation /\ ~InHand(Silence) /\ Silence.target = 0 /\ Placed(Silence)
  BY DEF DialogueAssumption, Placed, Silence, Conversation, States, InHand, Asking

LEMMA AtFields ==
    ASSUME NEW c \in Conversation, NEW at \in States
    PROVE  LET d == [c EXCEPT !.at = at]
           IN  /\ d \in Conversation /\ d.at = at /\ d.draft = c.draft /\ (d.preset <=> c.preset)
               /\ d.target = c.target /\ d.base = c.base
  BY DEF Conversation

LEMMA DraftedFields ==
    ASSUME NEW c \in Conversation, NEW at \in States, NEW ok \in BOOLEAN \cup {None}
    PROVE  LET d == Drafted(c, at, ok)
           IN  /\ d \in Conversation /\ d.at = at /\ d.draft = ok /\ (d.preset <=> c.preset)
               /\ d.target = c.target /\ d.base = c.base
<1>. DEFINE e == [c EXCEPT !.at = at]
            d == [e EXCEPT !.draft = ok]
<1>1. /\ e \in Conversation /\ e.at = at /\ (e.preset <=> c.preset)
      /\ e.target = c.target /\ e.base = c.base
  BY AtFields
<1>2. Drafted(c, at, ok) = d
  BY DEF Drafted
<1>. HIDE DEF e
<1>3. /\ d \in Conversation /\ d.at = e.at /\ d.draft = ok /\ (d.preset <=> e.preset)
      /\ d.target = e.target /\ d.base = e.base
  BY <1>1 DEF Conversation
<1>. QED  BY <1>1, <1>2, <1>3

LEMMA BoundFields ==
    ASSUME NEW c \in Conversation, sessions \in Nat, Bound(c).session <= MaxSessions,
           MaxSessions \in Nat
    PROVE  LET d == Bound(c)
           IN  /\ d \in Conversation /\ d.at = "review" /\ d.draft = c.draft
               /\ (d.preset <=> c.preset) /\ d.target = c.target /\ d.base = c.base
<1>. DEFINE e == [c EXCEPT !.at = "review"]
            d == [e EXCEPT !.session = sessions + 1]
<1>1. /\ e \in Conversation /\ e.at = "review" /\ e.draft = c.draft /\ (e.preset <=> c.preset)
      /\ e.target = c.target /\ e.base = c.base
  BY AtFields DEF States
<1>2. Bound(c) \in {d, e}
  BY DEF Bound
<1>. HIDE DEF e
<1>3. /\ d.at = e.at /\ d.draft = e.draft /\ (d.preset <=> e.preset)
      /\ d.target = e.target /\ d.base = e.base /\ d.session = sessions + 1
  BY <1>1 DEF Conversation
<1>4. sessions + 1 <= MaxSessions => d \in Conversation
  BY <1>1 DEF Conversation
<1>. HIDE DEF d
<1>. QED  BY <1>1, <1>2, <1>3, <1>4

\* The copy of a profile.
LEMMA CopiedFields ==
    ASSUME DialogueAssumption, Users, NEW p \in DOMAIN profiles, NEW at \in States,
           NEW flow \in {"none", "create", "edit", "setup"}
    PROVE  LET d == Copied(p, at, flow)
           IN  /\ d \in Conversation /\ d.at = at /\ d.target = p /\ d.draft \in BOOLEAN
               /\ d.base = profiles[p].version
<1>. DEFINE a == [Silence EXCEPT !.at = at]
            b == [a EXCEPT !.flow = flow]
            c == [b EXCEPT !.target = p]
            d == [c EXCEPT !.draft = profiles[p].whole]
            e == [d EXCEPT !.base = profiles[p].version]
<1>1. Copied(p, at, flow) = e
  BY DEF Copied
<1>2. /\ p \in 0..MaxProfiles /\ profiles[p].whole \in BOOLEAN
      /\ profiles[p].version \in 0..MaxVersion
  BY DEF Users, Profile, DialogueAssumption
<1>3. a \in Conversation /\ a.at = at
  BY SilenceIsFine, AtFields
<1>. HIDE DEF a
<1>4. b \in Conversation /\ b.at = at
  BY <1>3 DEF Conversation
<1>. HIDE DEF b
<1>5. c \in Conversation /\ c.at = at /\ c.target = p
  BY <1>2, <1>4 DEF Conversation
<1>. HIDE DEF c
<1>6. d \in Conversation /\ d.at = at /\ d.draft \in BOOLEAN /\ d.target = p
  BY <1>2, <1>5 DEF Conversation
<1>. HIDE DEF d
<1>7. /\ e \in Conversation /\ e.at = at /\ e.draft \in BOOLEAN /\ e.target = p
      /\ e.base = profiles[p].version
  BY <1>2, <1>6 DEF Conversation
<1>. QED  BY <1>1, <1>7
-----------------------------------------------------------------------------
(* How a conversation goes on.                                              *)

\* It is silent, or nothing of it but a draft that was in hand is in hand.
From(d, c) == d.target = c.target /\ d.base = c.base /\ (InHand(d) => InHand(c))
Follows(d) ==
  /\ d \in Conversation /\ Placed(d)
  /\ \/ d = Silence \/ From(d, stored) \/ From(d, View)
     \/ d.target <= made /\ ~InHand(d)

LEMMA ViewIsFine ==
    ASSUME Safe
    PROVE  Fine(View) /\ View \in Conversation
  BY DEF Safe, Fine, View

LEMMA FollowsSelf ==
    ASSUME Safe
    PROVE  Follows(View) /\ Follows(stored)
  BY ViewIsFine DEF Follows, From, Safe, Fine

LEMMA FollowsSilence ==
    ASSUME DialogueAssumption
    PROVE  Follows(Silence)
  BY SilenceIsFine DEF Follows

LEMMA UsersKept ==
    ASSUME Users, UNCHANGED user
    PROVE  Users'
  BY DEF Users, user

\* The conversation goes on, and no profile changes.
LEMMA Continued ==
    ASSUME DialogueAssumption, Safe, pending = "nothing",
           UNCHANGED <<user, uses, failed>>, pending' \in {"nothing", "leave"}, sessions' \in 0..MaxSessions,
           Follows(stored'), cached' = None \/ Follows(cached')
    PROVE  Safe'
<1>1. profiles' = profiles /\ made' = made /\ made \in Nat
  BY DEF user, Safe, Users, DialogueAssumption
<1>2. ASSUME NEW d, Follows(d)
      PROVE  /\ d \in Conversation /\ d.target <= made /\ Placed(d)
             /\ InHand(d) => Counted(d)
  <2>1. CASE d = Silence
    <3>1. 0 <= made
      BY <1>1
    <3>. QED  BY <2>1, <3>1, SilenceIsFine
  <2>2. CASE d # Silence
    <3>1. CASE d.target <= made /\ ~InHand(d)
      BY <1>2, <3>1 DEF Follows
    <3>2. ASSUME NEW c, Fine(c), From(d, c)
          PROVE  d.target <= made /\ (InHand(d) => Counted(d))
      BY <3>2 DEF From, Fine, Dues, Counted, Current
    <3>3. Fine(stored) /\ Fine(View)
      BY ViewIsFine DEF Safe
    <3>. QED  BY <1>2, <2>2, <3>1, <3>2, <3>3 DEF Follows
  <2>. QED  BY <2>1, <2>2
<1>3. Fine(stored)'
  BY <1>1, <1>2 DEF Fine, Counted, Current, InHand, Placed
<1>4. cached' = None \/ Fine(cached)'
  BY <1>1, <1>2 DEF Fine, Counted, Current, InHand, Placed
<1>5. uses' \in Nat /\ failed' \in Nat /\ uses' <= failed' + 1
  BY DEF Safe
<1>. QED  BY <1>3, <1>4, <1>5, UsersKept DEF Safe

\* Whatever happens to the profiles, nothing is in hand after it.
LEMMA Hushed ==
    ASSUME DialogueAssumption, Users', Hush, sessions' \in 0..MaxSessions,
           uses' \in Nat, failed' \in Nat, uses' <= failed' + 1, pending' = "nothing"
    PROVE  Safe'
<1>1. stored' = Silence /\ cached' = Silence
  BY DEF Hush, Say
<1>2. Fine(stored)' /\ Fine(cached)'
  BY <1>1, SilenceIsFine DEF Fine, InHand, Placed, Users, DialogueAssumption
<1>. QED  BY <1>2 DEF Safe

\* A profile changed or was made; what is in hand is not looked at until the rest is done.
LEMMA Changed ==
    ASSUME DialogueAssumption, Safe, Users', made <= made', stored' = stored,
           cached' \in {cached, View}, sessions' = sessions, pending' \in Dues,
           pending' = "activate" => made' \in DOMAIN (profiles'),
           uses' \in Nat, failed' = failed, uses' <= failed' + 1
    PROVE  Safe'
<1>1. ASSUME NEW c, Fine(c)
      PROVE  c \in Conversation /\ c.target <= made' /\ Placed(c)
  <2>1. c.target \in Nat /\ c.target <= made
    BY <1>1 DEF Fine, Conversation, DialogueAssumption
  <2>2. made \in Nat /\ made' \in Nat
    BY DEF Safe, Users, DialogueAssumption
  <2>. QED  BY <1>1, <2>1, <2>2 DEF Fine
<1>2. Fine(stored) /\ Fine(View) /\ (cached = None \/ Fine(cached))
  BY ViewIsFine DEF Safe
<1>3. Fine(stored)'
  BY <1>1, <1>2 DEF Fine, Placed
<1>4. cached' = None \/ Fine(cached)'
  BY <1>1, <1>2 DEF Fine, Placed
<1>. QED  BY <1>3, <1>4 DEF Safe

\* Another profile is active, or one is gone; the drafts of the others stay what they are.
LEMMA Parted ==
    ASSUME DialogueAssumption, Safe, pending = "nothing", Users', made' = made,
           \A q \in DOMAIN (profiles') : q \in DOMAIN profiles /\ profiles'[q] = profiles[q],
           stored' = stored, cached' = cached, Unused, pending' = "leave"
    PROVE  Safe'
<1>1. ASSUME NEW c, Fine(c)
      PROVE  /\ c \in Conversation /\ c.target <= made' /\ Placed(c)
             /\ InHand(c) => /\ uses <= failed
                             /\ failed = 0 => (c.target \in DOMAIN (profiles') =>
                                                   c.base = profiles'[c.target].version)
  BY <1>1 DEF Fine, Dues, Counted, Current
<1>2. Fine(stored)' /\ (cached' = None \/ Fine(cached)')
  BY <1>1 DEF Safe, Fine, Dues, Counted, Current, InHand, Placed, Unused
<1>. QED  BY <1>2 DEF Safe, Unused

LEMMA UntouchedHush ==
    ASSUME DialogueAssumption, Safe, Hush, UNCHANGED user, Unused, pending' = "nothing"
    PROVE  Safe'
  BY Hushed, UsersKept DEF Safe, Unused

LEMMA Quiet ==
    ASSUME DialogueAssumption, Safe, pending = "nothing", Hush, Untouched
    PROVE  Safe'
  BY UntouchedHush DEF Untouched, Safe

-----------------------------------------------------------------------------
(* What happens to the profiles.                                            *)

LEMMA RewrittenUsers ==
    ASSUME DialogueAssumption, Users, NEW p \in DOMAIN profiles, NEW ok \in BOOLEAN,
           Rewritten(p, ok), UNCHANGED <<made, active>>
    PROVE  Users'
<1>. DEFINE q == [whole |-> ok, version |-> profiles[p].version + 1]
<1>1. profiles[p].version < MaxVersion /\ profiles[p].version \in Nat
  BY DEF Rewritten, Users, Profile
<1>2. q \in Profile
  BY <1>1 DEF Profile, DialogueAssumption
<1>3. profiles' = [profiles EXCEPT ![p] = q]
  BY DEF Rewritten
<1>. HIDE DEF q
<1>. QED  BY <1>2, <1>3 DEF Users

LEMMA AddedUsers ==
    ASSUME DialogueAssumption, Users, NEW ok \in BOOLEAN, Added(ok), active' \in {active, made'}
    PROVE  Users'
<1>. DEFINE q == [whole |-> ok, version |-> 0]
<1>1. q \in Profile
  BY DEF Profile, DialogueAssumption
<1>2. /\ made < MaxProfiles /\ made' = made + 1
      /\ profiles' = [p \in DOMAIN profiles \cup {made + 1} |->
                        IF p = made + 1 THEN q ELSE profiles[p]]
  BY DEF Added
<1>. HIDE DEF q
<1>3. made \in Nat /\ made \in 1..MaxProfiles /\ MaxProfiles \in Nat
  BY DEF Users, DialogueAssumption
<1>4. made' \in 1..MaxProfiles /\ DOMAIN (profiles') = DOMAIN profiles \cup {made + 1}
  BY <1>2, <1>3
<1>5. \A p \in DOMAIN (profiles') : profiles'[p] \in Profile
  BY <1>1, <1>2 DEF Users
<1>6. DOMAIN (profiles') \subseteq 1..made' /\ active' \in DOMAIN (profiles')
  BY <1>2, <1>3, <1>4 DEF Users
<1>. QED  BY <1>4, <1>5, <1>6 DEF Users

\* The oldest of the profiles that are left.
LEMMA OldestLeft ==
    ASSUME NEW S \in SUBSET Nat, S # {}
    PROVE  \E q \in S : \A r \in S : q <= r
<1>1. PICK q \in S : \A r \in S : <<r, q>> \notin OpToRel(<, Nat)
  BY NatLessThanWellFounded, WFMin
<1>2. \A r \in S : ~(r < q)
  BY <1>1 DEF OpToRel
<1>. QED  BY <1>2

LEMMA DeletedUsers ==
    ASSUME DialogueAssumption, Users, NEW p, Delete(p), p \in DOMAIN profiles,
           DOMAIN profiles # {p}
    PROVE  /\ Users' /\ made' = made
           /\ \A q \in DOMAIN (profiles') : q \in DOMAIN profiles /\ profiles'[q] = profiles[q]
<1>. DEFINE S == DOMAIN profiles \ {p}
<1>1. /\ profiles' = [q \in S |-> profiles[q]] /\ made' = made
      /\ active' = IF active = p
                   THEN CHOOSE q \in DOMAIN profiles' : \A r \in DOMAIN profiles' : q <= r
                   ELSE active
  BY DEF Delete
<1>2. DOMAIN (profiles') = S /\ \A q \in S : profiles'[q] = profiles[q]
  BY <1>1
<1>3. S \in SUBSET Nat /\ S # {}
  BY DEF Users
<1>4. \E q \in S : \A r \in S : q <= r
  BY <1>3, OldestLeft
<1>5. active' \in S
  BY <1>1, <1>2, <1>4 DEF Users
<1>. QED  BY <1>1, <1>2, <1>5 DEF Users
-----------------------------------------------------------------------------
(* Commands and buttons that begin something.                               *)

\* A new draft, of which nothing was saved.
LEMMA Started ==
    ASSUME DialogueAssumption, Safe, pending = "nothing",
           UNCHANGED user, Begun, sessions' \in 0..MaxSessions,
           cached' = stored', stored' \in Conversation, stored'.target <= made, Current(stored'),
           Placed(stored')
    PROVE  Safe'
<1>1. Fine(stored)' /\ Fine(cached)'
  BY DEF Fine, Counted, Current, Placed, Begun, user
<1>. QED  BY <1>1, UsersKept DEF Safe, Begun

LEMMA EditStep ==
    ASSUME DialogueAssumption, Safe, pending = "nothing", NEW p, Edit(p)
    PROVE  Safe'
<1>. USE DEF Safe
<1>1. CASE p \in DOMAIN profiles
  <2>. DEFINE d == Copied(p, "menu", "edit")
  <2>1. stored' = d /\ cached' = d /\ Begun /\ UNCHANGED <<user, sessions>>
    BY <1>1 DEF Edit, Say
  <2>2. /\ d \in Conversation /\ d.target = p /\ d.base = profiles[p].version
        /\ d.at = "menu"
    BY <1>1, CopiedFields DEF States
  <2>. HIDE DEF d
  <2>3. p <= made
    BY <1>1 DEF Users, DialogueAssumption
  <2>. QED  BY <2>1, <2>2, <2>3, Started DEF Current, Placed
<1>2. CASE p \notin DOMAIN profiles
  BY <1>2, Quiet DEF Edit
<1>. QED  BY <1>1, <1>2

LEMMA CreateStep ==
    ASSUME DialogueAssumption, Safe, pending = "nothing", Create
    PROVE  Safe'
<1>. DEFINE a == [Silence EXCEPT !.at = "name"]
            b == [a EXCEPT !.flow = "create"]
            c == [b EXCEPT !.draft = FALSE]
<1>1. stored' = c /\ cached' = c /\ Begun /\ UNCHANGED <<user, sessions>>
  BY DEF Create, Say
<1>2. a \in Conversation /\ a.target = 0 /\ a.at = "name"
  BY SilenceIsFine, AtFields DEF States
<1>. HIDE DEF a
<1>3. b \in Conversation /\ b.target = 0 /\ b.at = "name"
  BY <1>2 DEF Conversation
<1>. HIDE DEF b
<1>4. c \in Conversation /\ c.target = 0 /\ c.at = "name"
  BY <1>3 DEF Conversation
<1>. HIDE DEF c
<1>5. 0 \notin DOMAIN profiles /\ 0 <= made
  BY DEF Safe, Users, DialogueAssumption
<1>. QED  BY <1>1, <1>4, <1>5, Started DEF Current, Placed, Safe

LEMMA SetUpStep ==
    ASSUME DialogueAssumption, Safe, pending = "nothing", SetUp
    PROVE  Safe'
<1>. USE DEF Safe
<1>. DEFINE c == Copied(active, "location", "setup")
            d == [c EXCEPT !.draft = FALSE]
<1>1. stored' = d /\ cached' = d /\ Begun /\ UNCHANGED <<user, sessions>>
  BY DEF SetUp, Say
<1>2. active \in DOMAIN profiles /\ active <= made
  BY DEF Users, DialogueAssumption
<1>3. /\ c \in Conversation /\ c.target = active /\ c.base = profiles[active].version
      /\ c.at = "location"
  BY <1>2, CopiedFields DEF States
<1>. HIDE DEF c
<1>4. /\ d \in Conversation /\ d.target = active /\ d.base = profiles[active].version
      /\ d.at = "location"
  BY <1>3 DEF Conversation
<1>. HIDE DEF d
<1>. QED  BY <1>1, <1>2, <1>4, Started DEF Current, Placed

LEMMA RelocateStep ==
    ASSUME DialogueAssumption, Safe, pending = "nothing", Relocate
    PROVE  Safe'
<1>. USE DEF Safe
<1>. DEFINE d == Copied(active, "quickLocation", "none")
<1>1. stored' = d /\ cached' = d /\ Begun /\ UNCHANGED <<user, sessions>>
  BY DEF Relocate, Say
<1>2. active \in DOMAIN profiles /\ active <= made
  BY DEF Users, DialogueAssumption
<1>3. /\ d \in Conversation /\ d.target = active /\ d.base = profiles[active].version
      /\ d.draft \in BOOLEAN
  BY <1>2, CopiedFields DEF States
<1>. HIDE DEF d
<1>. QED  BY <1>1, <1>2, <1>3, Started DEF Current, Placed

LEMMA RenameStep ==
    ASSUME DialogueAssumption, Safe, pending = "nothing", NEW p, Rename(p)
    PROVE  Safe'
<1>. USE DEF Safe, Untouched, Unused
<1>1. CASE p \in DOMAIN profiles
  <2>. DEFINE a == [Silence EXCEPT !.at = "rename"]
              d == [a EXCEPT !.target = p]
  <2>1. stored' = d /\ cached' = d
    BY <1>1 DEF Rename, Say
  <2>2. p \in 0..MaxProfiles /\ p <= made
    BY <1>1 DEF Users, DialogueAssumption
  <2>3. a \in Conversation /\ a.at = "rename" /\ a.draft = None /\ (a.preset <=> FALSE)
    <3>1. Silence \in Conversation /\ (Silence.preset <=> FALSE) /\ Silence.draft = None
      BY SilenceIsFine DEF Silence
    <3>. QED  BY <3>1, AtFields DEF States
  <2>. HIDE DEF a
  <2>4. /\ d \in Conversation /\ d.target = p /\ d.at = "rename" /\ d.draft = None
        /\ (d.preset <=> FALSE)
    BY <2>2, <2>3 DEF Conversation
  <2>. HIDE DEF d
  <2>5. Follows(d)
    BY <2>2, <2>4 DEF Follows, Placed, InHand, Asking
  <2>. QED  BY <2>1, <2>5, Continued DEF Rename
<1>2. CASE p \notin DOMAIN profiles
  BY <1>2, Quiet DEF Rename
<1>. QED  BY <1>1, <1>2

\* A conversation that is shown for review.
LEMMA ReviewedFields ==
    ASSUME DialogueAssumption, Safe, NEW c \in Conversation, Reviewed(c)
    PROVE  /\ stored' = Bound(c) /\ cached' = stored' /\ stored' \in Conversation
           /\ sessions' \in 0..MaxSessions
           /\ stored'.at = "review" /\ stored'.draft = c.draft /\ (stored'.preset <=> c.preset)
           /\ stored'.target = c.target /\ stored'.base = c.base
<1>1. sessions \in Nat /\ MaxSessions \in Nat /\ sessions \in 0..MaxSessions
  BY DEF Safe, DialogueAssumption
<1>2. Bound(c).session <= MaxSessions /\ stored' = Bound(c) /\ cached' = Bound(c)
      /\ sessions' = IF Bound(c).session > sessions THEN sessions + 1 ELSE sessions
  BY DEF Reviewed, Say
<1>3. /\ Bound(c) \in Conversation /\ Bound(c).at = "review" /\ Bound(c).draft = c.draft
      /\ (Bound(c).preset <=> c.preset) /\ Bound(c).target = c.target /\ Bound(c).base = c.base
  BY <1>1, <1>2, BoundFields
<1>4. Bound(c).session \in Nat
  BY <1>3 DEF Conversation
<1>5. sessions' \in 0..MaxSessions
  BY <1>1, <1>2, <1>4
<1>. QED  BY <1>2, <1>3, <1>5

LEMMA PickPresetStep ==
    ASSUME DialogueAssumption, Safe, pending = "nothing", PickPreset
    PROVE  Safe'
<1>1. PICK ok \in Preset(active) :
        Reviewed([Silence EXCEPT !.flow = "create", !.preset = TRUE, !.draft = ok])
  BY DEF PickPreset
<1>2. ok \in BOOLEAN
  BY DEF Preset
<1>. DEFINE a == [Silence EXCEPT !.flow = "create"]
            b == [a EXCEPT !.preset = TRUE]
            c == [b EXCEPT !.draft = ok]
<1>3. Reviewed(c)
  BY <1>1
<1>4. a \in Conversation /\ a.target = 0
  BY SilenceIsFine DEF Conversation
<1>. HIDE DEF a
<1>5. b \in Conversation /\ b.target = 0
  BY <1>4 DEF Conversation
<1>. HIDE DEF b
<1>6. c \in Conversation /\ c.target = 0
  BY <1>2, <1>5 DEF Conversation
<1>. HIDE DEF c
<1>7. /\ stored' \in Conversation /\ cached' = stored' /\ sessions' \in 0..MaxSessions
      /\ stored'.target = 0 /\ stored'.at = "review"
  BY <1>3, <1>6, ReviewedFields
<1>8. 0 \notin DOMAIN profiles /\ 0 <= made
  BY DEF Safe, Users, DialogueAssumption
<1>. QED  BY <1>7, <1>8, Started DEF Current, Placed, PickPreset
-----------------------------------------------------------------------------
(* Menus.  An expired one leads nowhere, one with a draft keeps it in hand. *)

LEMMA Listened ==
    ASSUME DialogueAssumption, Safe, pending = "nothing", Listen, Untouched
    PROVE  Safe'
  BY FollowsSelf, Continued DEF Listen, Untouched, Unused, Safe

LEMMA Spoken ==
    ASSUME DialogueAssumption, Safe, pending = "nothing", InHand(View),
           NEW at \in States \ {"quickLocation"},
           NEW ok \in BOOLEAN \cup {None}, Say(Drafted(View, at, ok)), Untouched
    PROVE  Safe'
<1>1. Follows(Drafted(View, at, ok))
  BY ViewIsFine, DraftedFields DEF Follows, From, Placed
<1>. QED  BY <1>1, Continued DEF Say, Untouched, Unused, Safe

LEMMA Asked ==
    ASSUME DialogueAssumption, Safe, pending = "nothing", InHand(View),
           NEW at \in States \ {"quickLocation"},
           Say([View EXCEPT !.at = at]), Untouched
    PROVE  Safe'
<1>. DEFINE d == [View EXCEPT !.at = at]
<1>1. stored' = d /\ cached' = d
  BY DEF Say
<1>2. Follows(d)
  BY ViewIsFine, AtFields DEF Follows, From, Placed
<1>. HIDE DEF d
<1>. QED  BY <1>1, <1>2, Continued DEF Untouched, Unused, Safe

\* What a menu in hand may be given as its draft.
LEMMA DraftInHand ==
    ASSUME Safe
    PROVE  View.draft \in BOOLEAN \cup {None}
  BY ViewIsFine DEF Conversation

LEMMA ReviewStep ==
    ASSUME DialogueAssumption, Safe, pending = "nothing", NEW ok \in BOOLEAN \cup {None},
           \/ Reviewed(View)
           \/ View.preset /\ Reviewed(Drafted(View, "review", ok)),
           UNCHANGED <<user, uses, failed, pending>>
    PROVE  Safe'
<1>1. CASE Reviewed(View)
  <2>1. Follows(stored') /\ cached' = stored' /\ sessions' \in 0..MaxSessions
    BY <1>1, ViewIsFine, ReviewedFields DEF Follows, From, Placed, InHand, Asking
  <2>. QED  BY <2>1, Continued
<1>2. CASE View.preset /\ Reviewed(Drafted(View, "review", ok))
  <2>. DEFINE d == Drafted(View, "review", ok)
  <2>1. /\ d \in Conversation /\ d.target = View.target /\ d.base = View.base
        /\ Reviewed(d) /\ InHand(View)
    BY <1>2, ViewIsFine, DraftedFields DEF States, InHand
  <2>. HIDE DEF d
  <2>2. Follows(stored') /\ cached' = stored' /\ sessions' \in 0..MaxSessions
    BY <2>1, ReviewedFields DEF Follows, From, Placed
  <2>. QED  BY <2>2, Continued
<1>. QED  BY <1>1, <1>2

LEMMA PresetAsksStep ==
    ASSUME DialogueAssumption, Safe, pending = "nothing",
           NEW at \in {"presetLocation", "presetRadius", "menu"},
           PresetAsks(at)
    PROVE  Safe'
<1>1. CASE View.preset
  BY <1>1, Asked DEF PresetAsks, InHand, States
<1>2. CASE ~View.preset
  BY <1>2, Quiet DEF PresetAsks
<1>. QED  BY <1>1, <1>2

\* A draft in hand was saved as often as a save failed, and now once more.
LEMMA SavedAsNewStep ==
    ASSUME DialogueAssumption, Safe, pending = "nothing", InHand(View), View.draft = TRUE,
           SavedAsNew
    PROVE  Safe'
<1>1. /\ uses <= failed /\ uses' = uses + 1 /\ failed' = failed /\ sessions' = sessions
      /\ cached' = View /\ stored' = stored /\ pending' \in Dues
  BY ViewIsFine DEF Fine, Counted, Dues, SavedAsNew, Listen, Then
<1>2. Added(TRUE) /\ active' = active
  BY DEF SavedAsNew
<1>3. Users'
  BY <1>2, AddedUsers DEF Safe
<1>4. made <= made' /\ made' \in DOMAIN (profiles')
  BY <1>2 DEF Safe, Users, Added, DialogueAssumption
<1>. QED  BY <1>1, <1>3, <1>4, Changed DEF Safe

LEMMA SavePresetStep ==
    ASSUME DialogueAssumption, Safe, pending = "nothing", NEW s, SavePreset(s)
    PROVE  Safe'
<1>1. CASE Saves(s) /\ View.draft = TRUE
  BY <1>1, SavedAsNewStep DEF SavePreset, Saves, InHand
<1>2. CASE ~(Saves(s) /\ View.draft = TRUE)
  BY <1>2, Listened DEF SavePreset
<1>. QED  BY <1>1, <1>2

LEMMA SaveNewStep ==
    ASSUME DialogueAssumption, Safe, pending = "nothing", SaveNew
    PROVE  Safe'
<1>1. CASE View.draft = None
  BY <1>1, Quiet DEF SaveNew, Nested
<1>2. CASE View.draft # None /\ View.draft = TRUE
  BY <1>2, SavedAsNewStep DEF SaveNew, Nested, InHand
<1>3. CASE View.draft # None /\ View.draft # TRUE
  BY <1>3, Listened DEF SaveNew, Nested
<1>. QED  BY <1>1, <1>2, <1>3

\* A profile is given another configuration, and the draft is yet to be ended.
LEMMA Rewriting ==
    ASSUME DialogueAssumption, Safe, Users', UNCHANGED <<made, active>>, Unused,
           stored' = stored, cached' \in {cached, View}, pending' \in Dues \ {"activate"}
    PROVE  Safe'
<1>1. made <= made'
  BY DEF Safe, Users, DialogueAssumption
<1>2. uses' \in Nat /\ failed' = failed /\ uses' <= failed' + 1 /\ sessions' = sessions
  BY DEF Safe, Unused
<1>. QED  BY <1>1, <1>2, Changed

LEMMA SaveEditStep ==
    ASSUME DialogueAssumption, Safe, pending = "nothing", SaveEdit
    PROVE  Safe'
<1>1. CASE View.draft = None
  BY <1>1, Quiet DEF SaveEdit, Nested
<1>2. CASE View.draft # None /\ View.draft = FALSE
  BY <1>2, Listened DEF SaveEdit, Nested
<1>3. CASE /\ View.draft # None /\ View.draft # FALSE
           /\ View.target \notin DOMAIN profiles
  BY <1>3, Quiet DEF SaveEdit, Nested
<1>4. CASE /\ View.draft # None /\ View.draft # FALSE
           /\ View.target \in DOMAIN profiles
  <2>1. /\ Rewritten(View.target, TRUE) /\ Listen /\ pending' \in Dues \ {"activate"}
        /\ UNCHANGED <<made, active>> /\ Unused
    BY <1>4 DEF SaveEdit, Nested, Then, Dues
  <2>2. Users'
    BY <1>4, <2>1, RewrittenUsers DEF Safe
  <2>. QED  BY <2>1, <2>2, Rewriting DEF Listen
<1>. QED  BY <1>1, <1>2, <1>3, <1>4

\* The menus that edit the draft.
LEMMA MenuStep ==
    ASSUME DialogueAssumption, Safe, pending = "nothing",
           \/ UseLocation \/ Choose \/ RuleField \/ Look \/ GiveUp
           \/ \E at \in {"question", "location", "menu"} : Ask(at)
    PROVE  Safe'
<1>1. CASE View.draft = None
  <2>1. Hush /\ Untouched
    BY <1>1 DEF UseLocation, Choose, RuleField, Look, GiveUp, Ask, Nested
  <2>. QED  BY <2>1, Quiet
<1>2. CASE View.draft # None
  <2>1. InHand(View)
    BY <1>2 DEF InHand
  <2>2. View.draft \in BOOLEAN \cup {None}
    BY DraftInHand
  <2>3. CASE UseLocation
    <3>1. PICK ok \in {View.draft, TRUE} : Say(Drafted(View, "question", ok)) \/ Listen
      BY <1>2, <2>3 DEF UseLocation, Nested
    <3>2. Untouched
      BY <1>2, <2>3 DEF UseLocation, Nested
    <3>. QED  BY <2>1, <2>2, <3>1, <3>2, Spoken, Listened DEF States
  <2>4. CASE Choose
    <3>1. PICK at \in {"menu", "question"}, ok \in BOOLEAN : Say(Drafted(View, at, ok))
      BY <1>2, <2>4 DEF Choose, Nested
    <3>2. Untouched
      BY <1>2, <2>4 DEF Choose, Nested
    <3>. QED  BY <2>1, <3>1, <3>2, Spoken DEF States
  <2>5. CASE RuleField
    <3>1. Untouched
      BY <1>2, <2>5 DEF RuleField, Nested
    <3>2. \/ Say([View EXCEPT !.at = "ruleInput"])
          \/ \E ok \in {View.draft, TRUE} : Say(Drafted(View, "menu", ok))
          \/ Hush
      BY <1>2, <2>5 DEF RuleField, Nested
    <3>. QED  BY <2>1, <2>2, <3>1, <3>2, Asked, Spoken, Quiet DEF States
  <2>6. CASE Look \/ GiveUp
    BY <1>2, <2>6, Listened, Quiet DEF Look, GiveUp, Nested
  <2>7. ASSUME NEW at \in {"question", "location", "menu"}, Ask(at)
        PROVE  Safe'
    BY <1>2, <2>1, <2>7, Asked DEF Ask, Nested, States
  <2>. QED  BY <2>3, <2>4, <2>5, <2>6, <2>7
<1>. QED  BY <1>1, <1>2
-----------------------------------------------------------------------------
(* Buttons on a profile: the draft is given up once they have changed it.   *)

LEMMA ApplyPresetStep ==
    ASSUME DialogueAssumption, Safe, pending = "nothing", NEW p, ApplyPreset(p)
    PROVE  Safe'
<1>1. CASE p \in DOMAIN profiles
  <2>1. PICK ok \in Preset(p) : Rewritten(p, ok)
    BY <1>1 DEF ApplyPreset
  <2>2. /\ UNCHANGED <<made, active, stored, cached>> /\ Unused
        /\ pending' \in Dues \ {"activate"}
    BY <1>1 DEF ApplyPreset, Then, Dues
  <2>3. Users'
    BY <1>1, <2>1, <2>2, RewrittenUsers DEF Preset, Safe
  <2>. QED  BY <2>2, <2>3, Rewriting
<1>2. CASE p \notin DOMAIN profiles
  BY <1>2, Quiet DEF ApplyPreset
<1>. QED  BY <1>1, <1>2

LEMMA ActivateStep ==
    ASSUME DialogueAssumption, Safe, pending = "nothing", NEW p, Activate(p)
    PROVE  Safe'
<1>1. CASE p \in DOMAIN profiles
  <2>1. /\ active' = p /\ profiles' = profiles /\ made' = made /\ Unused
        /\ stored' = stored /\ cached' = cached /\ pending' = "leave"
    BY <1>1 DEF Activate, Then
  <2>2. Users'
    BY <1>1, <2>1 DEF Safe, Users
  <2>. QED  BY <2>1, <2>2, Parted
<1>2. CASE p \notin DOMAIN profiles
  BY <1>2, Quiet DEF Activate
<1>. QED  BY <1>1, <1>2

\* A duplicate is no target of a draft: its id is new.
LEMMA DuplicateStep ==
    ASSUME DialogueAssumption, Safe, pending = "nothing", NEW p, Duplicate(p)
    PROVE  Safe'
<1>1. CASE p \notin DOMAIN profiles
  BY <1>1, Quiet DEF Duplicate
<1>2. CASE p \in DOMAIN profiles
  <2>1. /\ Added(profiles[p].whole)
        /\ UNCHANGED <<active, stored, cached, pending, uses, failed, sessions>>
    BY <1>2 DEF Duplicate, Unused
  <2>2. profiles[p].whole \in BOOLEAN
    BY <1>2 DEF Safe, Users, Profile
  <2>3. Users'
    BY <2>1, <2>2, AddedUsers DEF Safe
  <2>4. /\ made' = made + 1 /\ made \in Nat
        /\ DOMAIN (profiles') = DOMAIN profiles \cup {made + 1}
        /\ \A q \in DOMAIN profiles : q # made + 1 => profiles'[q] = profiles[q]
    BY <2>1 DEF Added, Safe, Users, DialogueAssumption
  <2>5. ASSUME NEW c, Fine(c)
        PROVE  /\ c \in Conversation /\ c.target <= made + 1 /\ Placed(c)
               /\ InHand(c) => /\ uses <= failed
                               /\ failed = 0 => (c.target \in DOMAIN (profiles') =>
                                                     c.base = profiles'[c.target].version)
    <3>1. c.target \in Nat /\ c.target <= made
      BY <2>5 DEF Fine, Conversation, DialogueAssumption
    <3>2. c.target # made + 1 /\ c.target <= made + 1
      BY <2>4, <3>1
    <3>. QED  BY <2>4, <2>5, <3>2 DEF Fine, Counted, Dues, Current
  <2>6. Fine(stored)' /\ (cached' = None \/ Fine(cached)')
    BY <2>1, <2>4, <2>5 DEF Safe, Fine, Counted, Current, InHand, Placed
  <2>. QED  BY <2>1, <2>3, <2>6 DEF Safe
<1>. QED  BY <1>1, <1>2

LEMMA DeleteStep ==
    ASSUME DialogueAssumption, Safe, pending = "nothing", NEW p, Delete(p)
    PROVE  Safe'
<1>1. CASE p \in DOMAIN profiles /\ DOMAIN profiles # {p}
  <2>1. Unused /\ stored' = stored /\ cached' = cached /\ pending' = "leave"
    BY <1>1 DEF Delete, Then
  <2>. QED  BY <1>1, <2>1, DeletedUsers, Parted DEF Safe
<1>2. CASE ~(p \in DOMAIN profiles /\ DOMAIN profiles # {p})
  BY <1>2, Quiet DEF Delete
<1>. QED  BY <1>1, <1>2

-----------------------------------------------------------------------------
(* Messages.                                                                *)

LEMMA AnsweredPresetStep ==
    ASSUME DialogueAssumption, Safe, pending = "nothing", AnsweredPreset
    PROVE  Safe'
<1>1. PICK ok \in {View.draft, TRUE} : Reviewed(Drafted(View, "review", ok))
  BY DEF AnsweredPreset
<1>2. ok \in BOOLEAN \cup {None}
  BY DraftInHand
<1>. QED  BY <1>1, <1>2, ReviewStep DEF AnsweredPreset

LEMMA TextTakenStep ==
    ASSUME DialogueAssumption, Safe, pending = "nothing", TextTaken
    PROVE  Safe'
<1>1. View.at \in Asking => InHand(View)
  BY DEF InHand
<1>2. CASE View.at = "presetRadius" /\ AnsweredPreset
  BY <1>2, AnsweredPresetStep
<1>3. CASE View.at = "name" /\ Say([View EXCEPT !.at = "location"]) /\ Untouched
  BY <1>1, <1>3, Asked DEF States, Asking
<1>4. CASE Answered
  <2>1. PICK ok \in {View.draft, TRUE} : Say(Drafted(View, "menu", ok))
    BY <1>4 DEF Answered
  <2>2. ok \in BOOLEAN \cup {None} /\ InHand(View)
    BY <1>1, <1>4, DraftInHand DEF Answered, Asking
  <2>. QED  BY <1>4, <2>1, <2>2, Spoken DEF Answered, States
<1>5. CASE /\ View.at = "ruleInput" /\ Untouched
           /\ \E ok \in BOOLEAN : Say(Drafted(View, "menu", ok))
  BY <1>1, <1>5, Spoken DEF States, Asking
<1>6. CASE Listen /\ Then("leave") /\ Unused /\ UNCHANGED user
  BY <1>6, FollowsSelf, Continued DEF Listen, Then, Unused, Safe
<1>7. CASE Listen /\ Untouched
  BY <1>7, Listened
<1>. QED  BY <1>2, <1>3, <1>4, <1>5, <1>6, <1>7 DEF TextTaken

LEMMA LocationTakenStep ==
    ASSUME DialogueAssumption, Safe, pending = "nothing", LocationTaken
    PROVE  Safe'
<1>1. CASE View.at = "presetLocation" /\ AnsweredPreset
  BY <1>1, AnsweredPresetStep
<1>2. CASE Relocated
  <2>1. PICK ok \in {View.draft, TRUE} : Rewritten(View.target, ok)
    BY <1>2 DEF Relocated
  <2>2. ok \in BOOLEAN
    BY <1>2, ViewIsFine DEF Relocated, Fine, Placed
  <2>3. Users'
    BY <1>2, <2>1, <2>2, RewrittenUsers DEF Relocated, Safe
  <2>. QED  BY <1>2, <2>3, Rewriting DEF Relocated, Listen, Then, Dues
<1>3. CASE /\ View.at = "location" /\ Untouched
           /\ \E at \in {"menu", "question"}, ok \in {View.draft, TRUE} :
                Say(Drafted(View, at, ok))
  <2>1. PICK at \in {"menu", "question"}, ok \in {View.draft, TRUE} :
          Say(Drafted(View, at, ok))
    BY <1>3
  <2>2. ok \in BOOLEAN \cup {None} /\ InHand(View) /\ at \in States \ {"quickLocation"}
    BY <1>3, DraftInHand DEF InHand, Asking, States
  <2>. QED  BY <1>3, <2>1, <2>2, Spoken
<1>. QED  BY <1>1, <1>2, <1>3 DEF LocationTaken

LEMMA ElsewhereFollows ==
    ASSUME DialogueAssumption, Safe
    PROVE  Follows([Silence EXCEPT !.at = "elsewhere"])
<1>1. Silence \in Conversation /\ (Silence.preset <=> FALSE) /\ Silence.draft = None
      /\ Silence.target = 0
  BY SilenceIsFine DEF Silence
<1>2. 0 <= made
  BY DEF Safe, Users, DialogueAssumption
<1>. QED  BY <1>1, <1>2, AtFields DEF Follows, Placed, InHand, Asking, States

LEMMA LeftStep ==
    ASSUME DialogueAssumption, Safe, pending = "nothing", TextLeft \/ LocationLeft
    PROVE  Safe'
<1>1. Untouched /\ cached' = View
      /\ stored' \in {stored, Silence, [Silence EXCEPT !.at = "elsewhere"]}
  BY DEF TextLeft, LocationLeft
<1>2. Follows([Silence EXCEPT !.at = "elsewhere"])
  BY ElsewhereFollows
<1>. QED
  BY <1>1, <1>2, FollowsSelf, FollowsSilence, Continued DEF Untouched, Unused, Safe

LEMMA OlderStep ==
    ASSUME DialogueAssumption, Safe, pending = "nothing", Older
    PROVE  Safe'
<1>1. /\ Untouched /\ cached' = cached
      /\ \/ stored' = [stored EXCEPT !.at = "elsewhere"]
         \/ stored' = [Silence EXCEPT !.at = "elsewhere"]
         \/ stored' = Silence
  <2>1. CASE Start \/ OldCodes
    BY <2>1 DEF Start, OldCodes, SayDirectly
  <2>2. CASE AskCamera \/ OldSkip
    BY <2>2 DEF AskCamera, OldSkip, SayDirectly
  <2>3. CASE Cancel \/ OldDone
    BY <2>3 DEF Cancel, OldDone, SayDirectly
  <2>. QED  BY <2>1, <2>2, <2>3 DEF Older
<1>2. Follows([stored EXCEPT !.at = "elsewhere"])
  <2>. DEFINE d == [stored EXCEPT !.at = "elsewhere"]
  <2>1. stored \in Conversation /\ "elsewhere" \in States
    BY DEF Safe, Fine, States
  <2>2. /\ d \in Conversation /\ d.at = "elsewhere" /\ d.draft = stored.draft
        /\ (d.preset <=> stored.preset) /\ d.target = stored.target /\ d.base = stored.base
    BY <2>1, AtFields
  <2>3. Follows(d)
    <3>. HIDE DEF d
    <3>. QED  BY <2>2 DEF Follows, From, Placed, InHand, Asking
  <2>. QED  BY <2>3
<1>3. cached = None \/ Follows(cached)
  BY FollowsSelf DEF View
<1>. QED
  BY <1>1, <1>2, <1>3, ElsewhereFollows, FollowsSilence, Continued DEF Untouched, Unused, Safe

-----------------------------------------------------------------------------
(* The invariant.                                                           *)

LEMMA SafeInit ==
    ASSUME DialogueAssumption, Init
    PROVE  Safe
<1>1. PICK ok \in BOOLEAN : profiles = [p \in {1} |-> [whole |-> ok, version |-> 0]]
  BY DEF Init
<1>2. Users
  BY <1>1 DEF Init, Users, Profile, DialogueAssumption
<1>3. Fine(stored)
  BY <1>2, SilenceIsFine DEF Init, Fine, Users, DialogueAssumption
<1>. QED  BY <1>2, <1>3 DEF Init, Safe, DialogueAssumption

LEMMA PressedStep ==
    ASSUME DialogueAssumption, Safe, pending = "nothing", Pressed
    PROVE  Safe'
<1>1. CASE Home
  BY <1>1, Quiet DEF Home
<1>2. CASE Create \/ SetUp \/ Relocate \/ PickPreset
  BY <1>2, CreateStep, SetUpStep, RelocateStep, PickPresetStep
<1>3. CASE Review
  BY <1>3, ReviewStep DEF Review
<1>4. ASSUME NEW p, Edit(p) \/ Rename(p) \/ ApplyPreset(p) \/ Activate(p) \/ Duplicate(p)
                    \/ Delete(p)
      PROVE  Safe'
  BY <1>4, EditStep, RenameStep, ApplyPresetStep, ActivateStep, DuplicateStep, DeleteStep
<1>5. CASE SaveNew \/ SaveEdit
  BY <1>5, SaveNewStep, SaveEditStep
<1>6. CASE \/ UseLocation \/ Choose \/ RuleField \/ Look \/ GiveUp
           \/ \E at \in {"question", "location", "menu"} : Ask(at)
  BY <1>6, MenuStep
<1>. QED
  BY <1>1, <1>2, <1>3, <1>4, <1>5, <1>6, PresetAsksStep, SavePresetStep DEF Pressed

\* The rest of a handler: what it goes on with, and where it is left.
LEMMA RestStep ==
    ASSUME DialogueAssumption, Safe, Activated \/ Monitored \/ Ended
    PROVE  Safe'
<1>1. CASE Activated \/ Monitored
  <2>1. /\ profiles' = profiles /\ made' = made /\ Unused
        /\ stored' = stored /\ cached' = cached /\ pending' \in Dues \ {"activate"}
    BY <1>1 DEF Activated, Monitored, Then, Dues, user
  <2>2. ASSUME NEW p \in DOMAIN profiles  PROVE p \in 1..made
    BY DEF Safe, Users
  <2>3. active' = active \/ (pending = "activate" /\ active' = made)
    BY <1>1 DEF Activated, Monitored, user
  <2>4. pending = "activate" => made \in DOMAIN profiles
    BY DEF Safe
  <2>5. Users'
    BY <2>1, <2>3, <2>4 DEF Safe, Users
  <2>6. made <= made' /\ uses' \in Nat /\ failed' = failed /\ uses' <= failed' + 1
        /\ sessions' = sessions
    BY <2>1 DEF Safe, Users, Unused, DialogueAssumption
  <2>. QED  BY <2>1, <2>5, <2>6, Changed
<1>2. CASE Ended
  BY <1>2, UntouchedHush DEF Ended, Then
<1>. QED  BY <1>1, <1>2

\* A handler that fails half-way leaves what was in hand, and is counted.
LEMMA InterruptedStep ==
    ASSUME DialogueAssumption, Safe, Interrupted
    PROVE  Safe'
<1>1. /\ pending' = "nothing" /\ profiles' = profiles /\ made' = made /\ cached' = cached
      /\ uses' = uses /\ sessions' = sessions /\ stored' \in {stored, Silence}
      /\ failed' = IF pending = "leave" THEN failed ELSE failed + 1
  BY DEF Interrupted, Then
<1>2. Users'
  BY <1>1 DEF Interrupted, Safe, Users
<1>3. ASSUME NEW c, Fine(c)
      PROVE  /\ c \in Conversation /\ c.target <= made /\ Placed(c)
             /\ InHand(c) => uses <= failed' /\ (failed' = 0 => Current(c))
  <2>1. CASE pending = "leave"
    BY <1>1, <1>3, <2>1 DEF Fine, Counted, Dues
  <2>2. CASE pending # "leave"
    <3>1. failed' = failed + 1 /\ failed' # 0 /\ uses <= failed'
      BY <1>1, <2>2 DEF Safe
    <3>. QED  BY <1>3, <3>1 DEF Fine
  <2>. QED  BY <2>1, <2>2
<1>4. Fine(Silence)
  BY SilenceIsFine DEF Fine, Safe, Users, DialogueAssumption
<1>5. Fine(stored)' /\ (cached' = None \/ Fine(cached)')
  BY <1>1, <1>3, <1>4 DEF Safe, Fine, Counted, Current, InHand, Placed
<1>6. uses' \in Nat /\ failed' \in Nat /\ uses' <= failed' + 1
  <2>1. CASE pending = "leave"
    BY <1>1, <2>1 DEF Safe
  <2>2. CASE pending # "leave"
    BY <1>1, <2>2 DEF Safe
  <2>. QED  BY <2>1, <2>2
<1>. QED  BY <1>1, <1>2, <1>5, <1>6 DEF Safe

LEMMA SafeNext ==
    ASSUME DialogueAssumption, Safe, [Next]_vars
    PROVE  Safe'
<1>1. CASE pending = "nothing" /\ Message
  BY <1>1, TextTakenStep, LocationTakenStep, LeftStep DEF Message
<1>2. CASE pending = "nothing" /\ Forget
  BY <1>2, FollowsSelf, Continued DEF Forget, Untouched, Unused, Safe
<1>3. CASE UNCHANGED vars
  BY <1>3, UsersKept DEF vars, user, Safe, Fine, Counted, Current, InHand, Placed
<1>. QED
  BY <1>1, <1>2, <1>3, PressedStep, OlderStep, RestStep, InterruptedStep DEF Next

LEMMA SafeAlways ==
    ASSUME DialogueAssumption
    PROVE  Spec => []Safe
<1>1. Init => Safe
  BY SafeInit
<1>2. Safe /\ [Next]_vars => Safe'
  BY SafeNext
<1>. QED  BY <1>1, <1>2, PTL DEF Spec

-----------------------------------------------------------------------------
(* The theorems.                                                            *)

(* Profiles, conversation and cache have their types; the active profile is *)
(* one that exists, whichever was deleted.                                  *)
THEOREM TypeCorrect ==
    DialogueAssumption => (Spec => []TypeOK)
<1>. SUFFICES ASSUME DialogueAssumption
              PROVE  Spec => []TypeOK
  OBVIOUS
<1>1. Safe => TypeOK
  BY DEF Safe, Users, Fine, Dues, TypeOK, DialogueAssumption
<1>. QED  BY <1>1, SafeAlways, PTL

(* Whatever old button of whatever message is pressed in between, and       *)
(* whatever fails or restarts in the middle of a handler: as long as no     *)
(* handler was cut off after it changed a profile, saving a draft undoes no *)
(* change made since it was begun; and a draft is made a profile at most    *)
(* once more than saves of it failed after the profile was inserted, which  *)
(* is what the writes of _save_new, one after the other, come to.  With the *)
(* cache of five minutes, and the handlers that know nothing of it, for any *)
(* number of profiles, changes, sessions and failures.                      *)
THEOREM NoDraftMisused ==
    DialogueAssumption => (Spec => []DraftsAreSafe)
<1>. SUFFICES ASSUME DialogueAssumption
              PROVE  Spec => []DraftsAreSafe
  OBVIOUS
<1>1. Safe => DraftsAreSafe
  <2>. SUFFICES ASSUME Safe
                PROVE  DraftsAreSafe
    OBVIOUS
  <2>1. Fine(stored) /\ Fine(View)
    BY ViewIsFine DEF Safe
  <2>2. DraftIsCurrent
    BY <2>1 DEF DraftIsCurrent, Fine, Counted, Dues, InHand, Current
  <2>3. OneProfilePerDraft
    BY DEF OneProfilePerDraft, Safe
  <2>. QED  BY <2>2, <2>3 DEF DraftsAreSafe
<1>. QED  BY <1>1, SafeAlways, PTL

-----------------------------------------------------------------------------
(* Numbers.                                                                 *)

Below == {p \in Nat \X Nat : p[1] < p[2]}

(* Every inhabited set of numbers has a least element. *)
LEMMA LeastElement ==
  ASSUME NEW S \in SUBSET Nat, S # {}
  PROVE  \E m \in S : \A n \in S : m <= n
<1>1. IsWellFoundedOn(Below, Nat)
  BY NatLessThanWellFounded DEF OpToRel, Below
<1>2. \E m \in S : \A n \in S : ~ (<<n, m>> \in Below)
  BY <1>1, WFMin
<1>3. PICK m \in S : \A n \in S : ~ (<<n, m>> \in Below)
  BY <1>2
<1>4. ASSUME NEW n \in S PROVE m <= n
  <2>1. m \in Nat /\ n \in Nat
    OBVIOUS
  <2>2. <<n, m>> \in Nat \X Nat
    BY <2>1
  <2>3. ~ (n < m)
    BY <1>3, <2>2 DEF Below
  <2> QED BY <2>1, <2>3
<1> QED BY <1>4

(* Every inhabited set of numbers below a bound has a greatest element. *)
LEMMA GreatestElement ==
  ASSUME NEW S \in SUBSET Nat, S # {}, NEW b \in Nat, \A n \in S : n <= b
  PROVE  \E m \in S : \A n \in S : n <= m
<1> DEFINE T == {b - n : n \in S}
<1>1. ASSUME NEW k \in T PROVE k \in Nat /\ \E n \in S : k = b - n /\ n \in Nat /\ n <= b
  <2>1. PICK n \in S : k = b - n
    OBVIOUS
  <2>2. n \in Nat /\ n <= b
    OBVIOUS
  <2> QED BY <2>1, <2>2
<1>2. T \in SUBSET Nat /\ T # {}
  BY <1>1
<1> HIDE DEF T
<1>3. PICK k \in T : \A n \in T : k <= n
  BY <1>2, LeastElement
<1>4. PICK m \in S : k = b - m /\ m \in Nat
  BY <1>1
<1>5. ASSUME NEW n \in S PROVE n <= m
  <2>1. k <= b - n
    BY <1>3 DEF T
  <2>2. n \in Nat
    OBVIOUS
  <2> QED BY <1>4, <2>1, <2>2
<1> QED BY <1>5

-----------------------------------------------------------------------------
(* The selection: what the matcher computes is what the profile asks for.   *)

\* The setting of a field that is in force is that of the merged rule.
Fields == {"enabled", "min", "max", "mode", "airlines", "radius"}

LEMMA SettingInForce ==
    ASSUME NEW c, NEW t, NEW k, NEW f \in Fields
    PROVE  Filter!Merged(c, t, k)[f] = Filter!Setting(c, t, k, f)
<1>. DEFINE profile == Filter!Apply(Filter!System, c.rules["profile"])
            category == Filter!Apply(profile, c.rules[k])
<1>1. DOMAIN Filter!System = Fields
  BY DEF Filter!System, Fields
<1>2. /\ profile = [g \in Fields |-> IF g \in DOMAIN c.rules["profile"] THEN c.rules["profile"][g] ELSE Filter!System[g]]
      /\ DOMAIN profile = Fields
  BY <1>1 DEF Filter!Apply
<1>. HIDE DEF profile
<1>3. /\ category = [g \in Fields |-> IF g \in DOMAIN c.rules[k] THEN c.rules[k][g] ELSE profile[g]]
      /\ DOMAIN category = Fields
  BY <1>2 DEF Filter!Apply
<1>. HIDE DEF category
<1>4. Filter!Merged(c, t, k) = [g \in Fields |-> IF g \in DOMAIN c.rules[t] THEN c.rules[t][g] ELSE category[g]]
  BY <1>3 DEF Filter!Merged, Filter!Apply, profile, category
<1>5. Filter!Merged(c, t, k)[f] = IF f \in DOMAIN c.rules[t] THEN c.rules[t][f]
                                  ELSE IF f \in DOMAIN c.rules[k] THEN c.rules[k][f]
                                  ELSE IF f \in DOMAIN c.rules["profile"] THEN c.rules["profile"][f]
                                  ELSE Filter!System[f]
  BY <1>2, <1>3, <1>4
<1>. QED  BY <1>5 DEF Filter!Setting

\* The operator counts for the categories as the role it plays.
LEMMA RoleCategories ==
    ASSUME Filter!FilterAssumption, NEW t, NEW op
    PROVE  Filter!CategoriesFor(t, Filter!RoleOperator(op))
             = CategoriesOf[t] \cup (IF op \in CargoOperators \ Mixed THEN {Cargo} ELSE {})
<1>1. Filter!Unknown \notin CargoOperators
  BY DEF Filter!FilterAssumption
<1>. QED  BY <1>1 DEF Filter!CategoriesFor, Filter!RoleOperator

\* The menu shows what is applied to a flight whose operator adds no category.
LEMMA MenuShowsIt ==
    ASSUME Filter!FilterAssumption
    PROVE  Filter!MenuIsHonest
<1>. SUFFICES ASSUME NEW t \in Types, NEW op \in (Operators \cup {Filter!Unknown}) \ (CargoOperators \ Mixed)
              PROVE  /\ Filter!Ticked(config, t) = Filter!TypeSelected(config, t, op)
                     /\ Filter!Shown(config, t) = Filter!Resolved(config, t, op)
  BY DEF Filter!MenuIsHonest
<1>1. Filter!CategoriesFor(t, Filter!RoleOperator(op)) = CategoriesOf[t]
  BY RoleCategories
<1>2. Filter!CategoriesFor(t, Filter!Unknown) = CategoriesOf[t]
  BY DEF Filter!FilterAssumption, Filter!CategoriesFor
<1>3. Filter!Ticked(config, t) = Filter!TypeSelected(config, t, op)
  BY <1>1 DEF Filter!Ticked, Filter!TypeSelected
<1>4. Filter!Primary(t, Filter!Unknown) = Filter!Primary(t, Filter!RoleOperator(op))
  BY <1>1, <1>2 DEF Filter!Primary
<1>. QED  BY <1>3, <1>4 DEF Filter!Shown, Filter!Resolved

\* A press turns one type over.
LEMMA PressTurnsOne ==
    ASSUME NEW t \in Types, config.mode = "selected", Filter!ToggleType(t),
           config = [mode |-> config.mode, categories |-> config.categories, types |-> config.types,
                     excluded |-> config.excluded, rules |-> config.rules, radius |-> config.radius]
    PROVE  {u \in Types : Filter!Ticked(config', u) # Filter!Ticked(config, u)} = {t}
<1>. DEFINE again == CategoriesOf[t] \cap config.categories # {}
            ByCategory(c, u) == u \notin c.excluded /\ c.categories \cap CategoriesOf[u] # {}
<1>1. /\ config'.mode = "selected" /\ config'.categories = config.categories
      /\ \/ /\ Filter!Ticked(config, t) /\ t \in config.types /\ config'.types = config.types \ {t}
            /\ config'.excluded = IF again THEN config.excluded \cup {t} ELSE config.excluded
         \/ /\ Filter!Ticked(config, t) /\ t \notin config.types /\ config'.types = config.types
            /\ config'.excluded = config.excluded \cup {t}
         \/ /\ ~Filter!Ticked(config, t) /\ config'.types = config.types \cup {t}
            /\ config'.excluded = config.excluded \ {t}
  BY DEF Filter!ToggleType, Filter!Edited
<1>2. \A u : /\ Filter!Ticked(config, u) <=> (u \in config.types \/ ByCategory(config, u))
             /\ Filter!Ticked(config', u) <=> (u \in config'.types \/ ByCategory(config', u))
  BY <1>1 DEF Filter!Ticked, Filter!Selects
<1>3. Filter!Ticked(config', t) <=> ~Filter!Ticked(config, t)
  BY <1>1, <1>2
<1>4. \A u \in Types \ {t} : Filter!Ticked(config', u) <=> Filter!Ticked(config, u)
  BY <1>1, <1>2
<1>5. \A u : Filter!Ticked(config', u) \in BOOLEAN /\ Filter!Ticked(config, u) \in BOOLEAN
  BY DEF Filter!Ticked, Filter!Selects
<1>. QED  BY <1>3, <1>4, <1>5

-----------------------------------------------------------------------------
(* The selection: the inductive invariant.                                  *)

Modes == {"all", "selected"}
ConfigTyped(c) ==
  /\ c = [mode |-> c.mode, categories |-> c.categories, types |-> c.types, excluded |-> c.excluded,
          rules |-> c.rules, radius |-> c.radius]
  /\ c.mode \in Modes /\ c.categories \subseteq Categories /\ c.types \subseteq Types
  /\ c.excluded \subseteq Types /\ c.radius \in Radii
  /\ c.rules = [s \in Filter!Scopes |-> c.rules[s]]
  /\ \A s \in Filter!Scopes : Filter!Rule(c.rules[s])

\* A snapshot reaches as far as its key says.
Sound ==
  /\ ConfigTyped(config)
  /\ polled = Filter!NoSnapshot \/ (polled.key \in Nat \ {0} /\ polled.reach = polled.key + Margin)

LEMMA MergedTyped ==
    ASSUME Filter!FilterAssumption, NEW c, ConfigTyped(c), NEW t \in Types, NEW k \in Categories
    PROVE  LET rule == Filter!Merged(c, t, k)
           IN  /\ rule.enabled \in BOOLEAN
               /\ rule.min \in Nat \cup {Filter!NoLimit} /\ rule.max \in Nat \cup {Filter!NoLimit}
               /\ rule.mode \in {"all", "whitelist", "blacklist"}
<1>. DEFINE rule == Filter!Merged(c, t, k)
<1>1. /\ t \in Filter!Scopes /\ k \in Filter!Scopes /\ "profile" \in Filter!Scopes
  BY DEF Filter!Scopes
<1>2. \A s \in {t, k, "profile"} : \A f \in DOMAIN c.rules[s] : c.rules[s][f] \in Filter!Values[f]
  BY <1>1 DEF ConfigTyped, Filter!Rule
<1>3. ASSUME NEW f \in Fields
      PROVE  \/ \E s \in {t, k, "profile"} : f \in DOMAIN c.rules[s] /\ rule[f] = c.rules[s][f]
             \/ rule[f] = Filter!System[f]
  BY SettingInForce DEF Filter!Setting
<1>4. ASSUME NEW f \in Fields
      PROVE  rule[f] \in Filter!Values[f] \/ rule[f] = Filter!System[f]
  BY <1>2, <1>3
<1>. HIDE DEF rule
<1>5. Altitudes \subseteq Nat
  BY DEF Filter!FilterAssumption
<1>6. rule["enabled"] \in BOOLEAN
  BY <1>4 DEF Fields, Filter!Values, Filter!System
<1>7. rule["min"] \in Nat \cup {Filter!NoLimit}
  BY <1>4, <1>5 DEF Fields, Filter!Values, Filter!System
<1>8. rule["max"] \in Nat \cup {Filter!NoLimit}
  BY <1>4, <1>5 DEF Fields, Filter!Values, Filter!System
<1>9. rule["mode"] \in {"all", "whitelist", "blacklist"}
  BY <1>4 DEF Fields, Filter!Values, Filter!System
<1>. QED  BY <1>6, <1>7, <1>8, <1>9 DEF rule

LEMMA SomeLeastRank ==
    ASSUME Filter!FilterAssumption, NEW S \in (SUBSET Categories) \ {{}}
    PROVE  (CHOOSE c \in S : \A d \in S : Rank[c] <= Rank[d]) \in S
<1>1. {Rank[c] : c \in S} \in SUBSET Nat /\ {Rank[c] : c \in S} # {}
  BY DEF Filter!FilterAssumption
<1>2. \E m \in {Rank[c] : c \in S} : \A n \in {Rank[c] : c \in S} : m <= n
  BY <1>1, LeastElement
<1>3. \E c \in S : \A d \in S : Rank[c] <= Rank[d]
  BY <1>2
<1>. QED  BY <1>3

LEMMA MatchesWhatIsAsked ==
    ASSUME Filter!FilterAssumption, Sound, NEW a \in Sky
    PROVE  Filter!Matched(config, a) <=> Filter!Wanted(config, a)
<1>. DEFINE kinds == CategoriesOf[a.type] \cup (IF a.operator \in CargoOperators \ Mixed THEN {Cargo} ELSE {})
            category == CHOOSE k \in kinds : \A l \in kinds : Rank[k] <= Rank[l]
            rule == Filter!Merged(config, a.type, category)
            set(f) == Filter!Setting(config, a.type, category, f)
<1>1. /\ a.type \in Types /\ a.altitude \in Nat \cup {Filter!NoLimit}
  BY DEF Filter!FilterAssumption
<1>2. Filter!CategoriesFor(a.type, Filter!RoleOperator(a.operator)) = kinds
  BY RoleCategories
<1>3. Filter!Primary(a.type, Filter!RoleOperator(a.operator)) = category
  BY <1>2 DEF Filter!Primary
<1>4. Filter!Resolved(config, a.type, a.operator) = rule
  BY <1>3 DEF Filter!Resolved
<1>5. category \in Categories
  <2>1. kinds \in (SUBSET Categories) \ {{}}
    BY <1>1 DEF Filter!FilterAssumption
  <2>. HIDE DEF kinds
  <2>. QED  BY <2>1, SomeLeastRank
<1>6. /\ rule.enabled = set("enabled") /\ rule.min = set("min") /\ rule.max = set("max")
      /\ rule.mode = set("mode") /\ rule.airlines = set("airlines")
  BY SettingInForce DEF Fields
<1>7. /\ rule.enabled \in BOOLEAN
      /\ rule.min \in Nat \cup {Filter!NoLimit} /\ rule.max \in Nat \cup {Filter!NoLimit}
      /\ rule.mode \in {"all", "whitelist", "blacklist"}
  BY <1>1, <1>5, MergedTyped DEF Sound
<1>8. Filter!Matched(config, a) <=>
        /\ Filter!Selects(config, a.type, kinds)
        /\ rule.enabled /\ Filter!AltitudeFits(rule, a) /\ Filter!AirlineFits(rule, a)
  BY <1>2, <1>4 DEF Filter!Matched, Filter!TypeSelected
<1>9. Filter!Wanted(config, a) <=>
        /\ \/ config.mode = "all" \/ a.type \in config.types
           \/ kinds \cap config.categories # {} /\ a.type \notin config.excluded
        /\ set("enabled")
        /\ set("min") # Filter!NoLimit => a.altitude >= set("min")
        /\ set("max") # Filter!NoLimit => a.altitude # Filter!NoLimit /\ a.altitude <= set("max")
        /\ set("mode") = "whitelist" => a.operator \in set("airlines")
        /\ set("mode") = "blacklist" => a.operator \notin set("airlines")
  BY <1>6, <1>7 DEF Filter!Wanted
<1>. HIDE DEF rule, set, kinds, category
<1>10. Filter!Selects(config, a.type, kinds) <=>
         \/ config.mode = "all" \/ a.type \in config.types
         \/ kinds \cap config.categories # {} /\ a.type \notin config.excluded
  BY DEF Filter!Selects
<1>11. Filter!AltitudeFits(rule, a) <=>
         /\ rule.min # Filter!NoLimit => a.altitude >= rule.min
         /\ rule.max # Filter!NoLimit => a.altitude # Filter!NoLimit /\ a.altitude <= rule.max
  BY <1>1, <1>7 DEF Filter!AltitudeFits, Filter!Low, Filter!High, Filter!NoLimit
<1>12. Filter!AirlineFits(rule, a) <=>
         /\ rule.mode = "whitelist" => a.operator \in rule.airlines
         /\ rule.mode = "blacklist" => a.operator \notin rule.airlines
  BY DEF Filter!AirlineFits
<1>. QED  BY <1>6, <1>8, <1>9, <1>10, <1>11, <1>12

-----------------------------------------------------------------------------
(* The selection: how far is polled.                                        *)

LEMMA MaxOfBounded ==
    ASSUME NEW S \in SUBSET Nat, S # {}, NEW b \in Nat, \A n \in S : n <= b
    PROVE  Filter!Max(S) \in S /\ \A n \in S : n <= Filter!Max(S)
<1>1. \E m \in S : \A n \in S : n <= m
  BY GreatestElement
<1>2. \E m \in S : \A n \in S : m >= n
  BY <1>1
<1>. DEFINE Is(m) == \A n \in S : m >= n
<1>3. Filter!Max(S) = CHOOSE m \in S : Is(m)
  BY DEF Filter!Max
<1>4. Filter!Max(S) \in S /\ Is(Filter!Max(S))
  <2>1. \E m \in S : Is(m)
    BY <1>2
  <2>. HIDE DEF Is
  <2>. QED  BY <1>3, <2>1
<1>. QED  BY <1>4

LEMMA MinOfNumbers ==
    ASSUME NEW S \in SUBSET Nat, S # {}
    PROVE  Filter!Min(S) \in S /\ \A n \in S : Filter!Min(S) <= n
<1>. DEFINE Is(m) == \A n \in S : m <= n
<1>1. \E m \in S : Is(m)
  BY LeastElement
<1>2. Filter!Min(S) = CHOOSE m \in S : Is(m)
  BY DEF Filter!Min
<1>3. Filter!Min(S) \in S /\ Is(Filter!Min(S))
  <2>. HIDE DEF Is
  <2>. QED  BY <1>1, <1>2
<1>. QED  BY <1>3

\* A radius that was typed is within the limits already.
LEMMA WithinLimits ==
    ASSUME Filter!FilterAssumption, NEW r \in Radii
    PROVE  Filter!Min({MaxRadius, Filter!Max({1, r})}) = r
<1>1. r \in Nat /\ 1 <= r /\ r <= MaxRadius /\ MaxRadius \in Nat
  BY DEF Filter!FilterAssumption
<1>2. Filter!Max({1, r}) \in {1, r} /\ \A n \in {1, r} : n <= Filter!Max({1, r})
  BY <1>1, MaxOfBounded
<1>3. Filter!Max({1, r}) = r
  BY <1>1, <1>2
<1>4. Filter!Min({MaxRadius, r}) \in {MaxRadius, r} /\ \A n \in {MaxRadius, r} : Filter!Min({MaxRadius, r}) <= n
  BY <1>1, MinOfNumbers
<1>5. Filter!Min({MaxRadius, r}) = r
  BY <1>1, <1>4
<1>. QED  BY <1>3, <1>5

LEMMA WidestRadius ==
    ASSUME Filter!FilterAssumption, NEW c, ConfigTyped(c)
    PROVE  /\ Filter!MaximumRadius(c) \in Nat \ {0} /\ c.radius <= Filter!MaximumRadius(c)
           /\ \A s \in Filter!Scopes : "radius" \in DOMAIN c.rules[s] => c.rules[s].radius <= Filter!MaximumRadius(c)
<1>. DEFINE with == {x \in Filter!Scopes : "radius" \in DOMAIN c.rules[x]}
            wide(s) == Filter!Min({MaxRadius, Filter!Max({1, c.rules[s].radius})})
            all == {c.radius} \cup {wide(s) : s \in with}
<1>1. Radii \subseteq 1..MaxRadius /\ MaxRadius \in Nat
  BY DEF Filter!FilterAssumption
<1>2. ASSUME NEW s \in with
      PROVE  c.rules[s].radius \in Radii /\ wide(s) = c.rules[s].radius
  <2>1. c.rules[s].radius \in Filter!Values["radius"]
    BY DEF ConfigTyped, Filter!Rule
  <2>2. Filter!Values["radius"] = Radii
    BY DEF Filter!Values
  <2>. QED  BY <2>1, <2>2, WithinLimits
<1>. HIDE DEF wide
<1>3. all \subseteq Radii /\ c.radius \in all /\ \A s \in with : c.rules[s].radius \in all
  BY <1>2 DEF ConfigTyped
<1>4. Filter!MaximumRadius(c) = Filter!Max(all)
  BY DEF Filter!MaximumRadius, wide
<1>. HIDE DEF all
<1>5. Filter!Max(all) \in all /\ \A n \in all : n <= Filter!Max(all)
  <2>1. all \in SUBSET Nat /\ all # {} /\ \A n \in all : n <= MaxRadius
    BY <1>1, <1>3
  <2>. QED  BY <1>1, <2>1, MaxOfBounded
<1>6. ASSUME NEW s \in Filter!Scopes, "radius" \in DOMAIN c.rules[s]
      PROVE  c.rules[s].radius <= Filter!Max(all)
  <2>1. s \in with
    BY <1>6
  <2>. HIDE DEF with
  <2>. QED  BY <1>3, <1>5, <2>1
<1>7. Filter!Max(all) \in Nat \ {0} /\ c.radius <= Filter!Max(all)
  <2>1. all \subseteq Radii /\ c.radius \in all
    BY <1>3
  <2>2. Filter!Max(all) \in 1..MaxRadius
    BY <1>1, <1>5, <2>1
  <2>3. c.radius <= Filter!Max(all)
    BY <1>5, <2>1
  <2>4. Filter!Max(all) \in Nat \ {0}
    BY <1>1, <2>2
  <2>. QED  BY <2>3, <2>4
<1>. QED  BY <1>4, <1>6, <1>7

LEMMA PolledFarEnough ==
    ASSUME Filter!FilterAssumption, Sound, NEW a \in Sky
    PROVE  /\ Filter!RadiusFor(config, a) + Margin <= Filter!Snapshot(config).reach
           /\ config.radius + Margin <= Filter!Snapshot(config).reach
           /\ {config.radius + Margin, Filter!Snapshot(config).reach} \subseteq Nat
<1>. DEFINE category == Filter!Primary(a.type, Filter!RoleOperator(a.operator))
            rule == Filter!Merged(config, a.type, category)
            widest == Filter!MaximumRadius(config)
<1>1. a.type \in Types /\ a.type \in Filter!Scopes /\ category \in Categories /\ category \in Filter!Scopes
      /\ "profile" \in Filter!Scopes
  <2>1. a.type \in Types
    BY DEF Filter!FilterAssumption
  <2>2. category \in Categories
    <3>. DEFINE kinds == CategoriesOf[a.type] \cup (IF a.operator \in CargoOperators \ Mixed THEN {Cargo} ELSE {})
    <3>1. category = CHOOSE k \in kinds : \A l \in kinds : Rank[k] <= Rank[l]
      BY RoleCategories DEF Filter!Primary
    <3>2. kinds \in (SUBSET Categories) \ {{}}
      BY <2>1 DEF Filter!FilterAssumption
    <3>. HIDE DEF kinds, category
    <3>. QED  BY <3>1, <3>2, SomeLeastRank
  <2>. QED  BY <2>1, <2>2 DEF Filter!Scopes
<1>. HIDE DEF category
<1>2. /\ widest \in Nat \ {0} /\ config.radius <= widest
      /\ \A s \in Filter!Scopes : "radius" \in DOMAIN config.rules[s] => config.rules[s].radius <= widest
  BY WidestRadius DEF Sound
<1>. HIDE DEF widest
<1>3. config.radius \in Nat /\ Margin \in Nat
  BY DEF Sound, ConfigTyped, Filter!FilterAssumption
<1>4. Filter!RadiusFor(config, a) <= widest /\ Filter!RadiusFor(config, a) \in Nat
  <2>1. rule.radius = Filter!NoRadius \/ \E s \in Filter!Scopes : "radius" \in DOMAIN config.rules[s] /\ rule.radius = config.rules[s].radius
    <3>1. rule["radius"] = Filter!Setting(config, a.type, category, "radius")
      BY SettingInForce DEF Fields
    <3>. QED  BY <1>1, <3>1 DEF Filter!Setting, Filter!System
  <2>2. \A s \in Filter!Scopes : "radius" \in DOMAIN config.rules[s] => config.rules[s].radius \in Nat
    <3>1. Filter!Values["radius"] \subseteq Nat
      BY DEF Filter!Values, Filter!FilterAssumption
    <3>. QED  BY <3>1 DEF Sound, ConfigTyped, Filter!Rule
  <2>3. Filter!RadiusFor(config, a) = IF rule.radius = Filter!NoRadius THEN config.radius ELSE rule.radius
    BY DEF Filter!RadiusFor, Filter!Resolved, category
  <2>. HIDE DEF rule
  <2>. QED  BY <1>2, <1>3, <2>1, <2>2, <2>3
<1>5. Filter!Snapshot(config).reach = widest + Margin
  <2>1. Filter!RegionKey(config) = widest
    BY DEF Filter!RegionKey, widest
  <2>2. CASE polled.key = widest
    <3>1. polled # Filter!NoSnapshot
      BY <1>2, <2>2 DEF Filter!NoSnapshot, Filter!NoRadius
    <3>. QED  BY <2>1, <2>2, <3>1 DEF Sound, Filter!Snapshot
  <2>3. CASE polled.key # widest
    BY <2>1, <2>3 DEF Filter!Snapshot, Filter!Fetched, widest
  <2>. QED  BY <2>2, <2>3
<1>. QED  BY <1>2, <1>3, <1>4, <1>5

-----------------------------------------------------------------------------
(* The selection: the menus and the monitor keep the invariant.             *)

LEMMA EditedSound ==
    ASSUME Sound, NEW c, ConfigTyped(c), Filter!Edited(c)
    PROVE  Sound'
  BY DEF Sound, Filter!Edited, ConfigTyped, Filter!Rule, Filter!Values, Filter!Scopes

LEMMA PutIsRule ==
    ASSUME NEW r, Filter!Rule(r), NEW f \in Fields, NEW v \in Filter!Values[f]
    PROVE  Filter!Rule(Filter!Put(r, f, v))
  BY DEF Filter!Rule, Filter!Put, Fields, Filter!Values

LEMMA DropIsRule ==
    ASSUME NEW r, Filter!Rule(r), NEW fs
    PROVE  Filter!Rule(Filter!Drop(r, fs))
  BY DEF Filter!Rule, Filter!Drop

LEMMA SetRuleSound ==
    ASSUME Sound, NEW s \in Filter!Scopes, NEW r, Filter!Rule(r), Filter!SetRule(s, r)
    PROVE  Sound'
<1>. DEFINE c == [config EXCEPT !.rules[s] = r]
<1>1. ConfigTyped(config)
  BY DEF Sound
<1>2. /\ c = [mode |-> c.mode, categories |-> c.categories, types |-> c.types, excluded |-> c.excluded,
              rules |-> c.rules, radius |-> c.radius]
      /\ c.mode = config.mode /\ c.categories = config.categories /\ c.types = config.types
      /\ c.excluded = config.excluded /\ c.radius = config.radius
      /\ c.rules = [config.rules EXCEPT ![s] = r]
  BY <1>1 DEF ConfigTyped
<1>3. /\ c.rules = [x \in Filter!Scopes |-> c.rules[x]]
      /\ \A x \in Filter!Scopes : c.rules[x] = IF x = s THEN r ELSE config.rules[x]
  <2>. HIDE DEF c
  <2>. QED  BY <1>1, <1>2 DEF ConfigTyped
<1>4. Filter!Edited(c)
  BY DEF Filter!SetRule
<1>. HIDE DEF c
<1>5. ConfigTyped(c)
  BY <1>1, <1>2, <1>3 DEF ConfigTyped
<1>. QED  BY <1>4, <1>5, EditedSound

LEMMA OneAfterOther ==
    ASSUME NEW c, NEW cs, NEW ts, NEW xs
    PROVE  /\ [c EXCEPT !.types = ts, !.excluded = xs] = [[c EXCEPT !.types = ts] EXCEPT !.excluded = xs]
           /\ [c EXCEPT !.categories = cs, !.excluded = xs] = [[c EXCEPT !.categories = cs] EXCEPT !.excluded = xs]
  OBVIOUS

LEMMA OneFieldTyped ==
    ASSUME NEW c, ConfigTyped(c), NEW cs \in SUBSET Categories, NEW ts \in SUBSET Types, NEW xs \in SUBSET Types
    PROVE  /\ ConfigTyped([c EXCEPT !.types = ts])
           /\ ConfigTyped([c EXCEPT !.categories = cs])
           /\ ConfigTyped([c EXCEPT !.excluded = xs])
<1>1. ConfigTyped([c EXCEPT !.types = ts])
  BY DEF ConfigTyped
<1>2. ConfigTyped([c EXCEPT !.categories = cs])
  BY DEF ConfigTyped
<1>3. ConfigTyped([c EXCEPT !.excluded = xs])
  BY DEF ConfigTyped
<1>. QED  BY <1>1, <1>2, <1>3

\* Two fields of a profile, given values of their types.
LEMMA SelectionTyped ==
    ASSUME NEW c, ConfigTyped(c), NEW cs \in SUBSET Categories, NEW ts \in SUBSET Types, NEW xs \in SUBSET Types
    PROVE  /\ ConfigTyped([c EXCEPT !.types = ts, !.excluded = xs])
           /\ ConfigTyped([c EXCEPT !.categories = cs, !.excluded = xs])
<1>1. ConfigTyped([c EXCEPT !.types = ts]) /\ ConfigTyped([c EXCEPT !.categories = cs])
  BY OneFieldTyped
<1>2. /\ ConfigTyped([[c EXCEPT !.types = ts] EXCEPT !.excluded = xs])
      /\ ConfigTyped([[c EXCEPT !.categories = cs] EXCEPT !.excluded = xs])
  BY <1>1, OneFieldTyped
<1>. QED  BY <1>2, OneAfterOther

LEMMA PressedSound ==
    ASSUME Sound, NEW t \in Types, Filter!ToggleType(t)
    PROVE  Sound'
<1>1. ConfigTyped(config)
  BY DEF Sound
<1>. DEFINE again == CategoriesOf[t] \cap config.categories # {}
            Out == [config EXCEPT !.types = @ \ {t}, !.excluded = IF again THEN @ \cup {t} ELSE @]
            Apart == [config EXCEPT !.excluded = @ \cup {t}]
            Back == [config EXCEPT !.types = @ \cup {t}, !.excluded = @ \ {t}]
<1>2. ConfigTyped(Out)
  <2>. DEFINE ts == config.types \ {t}
              xs == IF again THEN config.excluded \cup {t} ELSE config.excluded
  <2>1. ts \in SUBSET Types /\ xs \in SUBSET Types
    BY <1>1 DEF ConfigTyped
  <2>2. Out = [config EXCEPT !.types = ts, !.excluded = xs]
    OBVIOUS
  <2>. HIDE DEF ts, xs, Out
  <2>. QED  BY <1>1, <2>1, <2>2, SelectionTyped
<1>3. ConfigTyped(Apart)
  BY <1>1 DEF ConfigTyped
<1>4. ConfigTyped(Back)
  <2>. DEFINE ts == config.types \cup {t}
              xs == config.excluded \ {t}
  <2>1. ts \in SUBSET Types /\ xs \in SUBSET Types
    BY <1>1 DEF ConfigTyped
  <2>2. Back = [config EXCEPT !.types = ts, !.excluded = xs]
    OBVIOUS
  <2>. HIDE DEF ts, xs, Back
  <2>. QED  BY <1>1, <2>1, <2>2, SelectionTyped
<1>5. Filter!Edited(Out) \/ Filter!Edited(Apart) \/ Filter!Edited(Back)
  BY DEF Filter!ToggleType
<1>. HIDE DEF Out, Apart, Back
<1>. QED  BY <1>2, <1>3, <1>4, <1>5, EditedSound

LEMMA ChosenSound ==
    ASSUME Sound,
           Filter!ToggleAll \/ (\E c \in Categories : Filter!SelectAll(c) \/ Filter!ClearAll(c))
             \/ \E r \in Radii : Filter!SetRadius(r)
    PROVE  Sound'
<1>1. ConfigTyped(config)
  BY DEF Sound
<1>2. CASE Filter!ToggleAll
  <2>. DEFINE d == [config EXCEPT !.mode = IF @ = "all" THEN "selected" ELSE "all"]
  <2>1. ConfigTyped(d)
    BY <1>1 DEF ConfigTyped, Modes
  <2>2. Filter!Edited(d)
    BY <1>2 DEF Filter!ToggleAll
  <2>. HIDE DEF d
  <2>. QED  BY <2>1, <2>2, EditedSound
<1>3. ASSUME NEW c \in Categories, Filter!SelectAll(c)
      PROVE  Sound'
  <2>. DEFINE d == [config EXCEPT !.categories = @ \cup {c},
                                  !.excluded = @ \ {t \in Types : c \in CategoriesOf[t]}]
  <2>1. ConfigTyped(d)
    <3>. DEFINE cs == config.categories \cup {c}
                xs == config.excluded \ {t \in Types : c \in CategoriesOf[t]}
    <3>1. cs \in SUBSET Categories /\ xs \in SUBSET Types
      BY <1>1 DEF ConfigTyped
    <3>2. d = [config EXCEPT !.categories = cs, !.excluded = xs]
      OBVIOUS
    <3>. HIDE DEF cs, xs, d
    <3>. QED  BY <1>1, <3>1, <3>2, SelectionTyped
  <2>2. Filter!Edited(d)
    BY <1>3 DEF Filter!SelectAll
  <2>. HIDE DEF d
  <2>. QED  BY <2>1, <2>2, EditedSound
<1>4. ASSUME NEW c \in Categories, Filter!ClearAll(c)
      PROVE  Sound'
  <2>. DEFINE d == [config EXCEPT !.categories = @ \ {c}]
  <2>1. ConfigTyped(d)
    BY <1>1 DEF ConfigTyped
  <2>2. Filter!Edited(d)
    BY <1>4 DEF Filter!ClearAll
  <2>. HIDE DEF d
  <2>. QED  BY <2>1, <2>2, EditedSound
<1>5. ASSUME NEW r \in Radii, Filter!SetRadius(r)
      PROVE  Sound'
  <2>. DEFINE d == [config EXCEPT !.radius = r]
  <2>1. ConfigTyped(d)
    BY <1>1 DEF ConfigTyped
  <2>2. Filter!Edited(d)
    BY <1>5 DEF Filter!SetRadius
  <2>. HIDE DEF d
  <2>. QED  BY <2>1, <2>2, EditedSound
<1>. QED  BY <1>2, <1>3, <1>4, <1>5

LEMMA TypedSound ==
    ASSUME Sound, NEW s \in Filter!Scopes,
           \/ \E v \in Altitudes \cup {Filter!NoLimit} : Filter!SetLimit(s, "min", v) \/ Filter!SetLimit(s, "max", v)
           \/ \E r \in Radii : Filter!SetRuleRadius(s, r)
           \/ \E list \in AirlineLists : Filter!SetAirlines(s, list)
           \/ \E f \in DOMAIN Filter!Values : Filter!UseParent(s, f)
           \/ Filter!ResetRule(s)
    PROVE  Sound'
<1>1. Filter!Rule(Filter!Own(s))
  BY DEF Sound, ConfigTyped, Filter!Own
<1>2. ASSUME NEW v \in Altitudes \cup {Filter!NoLimit}, NEW f \in {"min", "max"}, Filter!SetLimit(s, f, v)
      PROVE  Sound'
  <2>1. f \in Fields /\ v \in Filter!Values[f]
    BY DEF Fields, Filter!Values
  <2>. QED  BY <1>1, <1>2, <2>1, PutIsRule, SetRuleSound DEF Filter!SetLimit
<1>3. ASSUME NEW r \in Radii, Filter!SetRuleRadius(s, r)
      PROVE  Sound'
  <2>1. "radius" \in Fields /\ r \in Filter!Values["radius"]
    BY DEF Fields, Filter!Values
  <2>. QED  BY <1>1, <1>3, <2>1, PutIsRule, SetRuleSound DEF Filter!SetRuleRadius
<1>4. ASSUME NEW list \in AirlineLists, Filter!SetAirlines(s, list)
      PROVE  Sound'
  <2>. DEFINE rule == Filter!Put(Filter!Own(s), "airlines", list)
              white == Filter!Put(rule, "mode", "whitelist")
  <2>1. /\ "airlines" \in Fields /\ list \in Filter!Values["airlines"]
        /\ "mode" \in Fields /\ "whitelist" \in Filter!Values["mode"]
    BY DEF Fields, Filter!Values
  <2>2. Filter!Rule(rule)
    BY <1>1, <2>1, PutIsRule
  <2>3. Filter!Rule(white)
    <3>. HIDE DEF rule
    <3>. QED  BY <2>1, <2>2, PutIsRule
  <2>4. Filter!SetRule(s, rule) \/ Filter!SetRule(s, white)
    BY <1>4 DEF Filter!SetAirlines
  <2>. HIDE DEF rule, white
  <2>. QED  BY <2>2, <2>3, <2>4, SetRuleSound
<1>5. ASSUME NEW f \in DOMAIN Filter!Values, Filter!UseParent(s, f)
      PROVE  Sound'
  <2>1. \A fs : Filter!Rule(Filter!Drop(Filter!Own(s), fs))
    BY <1>1, DropIsRule
  <2>. QED  BY <1>5, <2>1, SetRuleSound DEF Filter!UseParent
<1>6. CASE Filter!ResetRule(s)
  <2>1. Filter!Rule(Filter!NoRule)
    BY DEF Filter!NoRule, Filter!Rule
  <2>. QED  BY <1>6, <2>1, SetRuleSound DEF Filter!ResetRule
<1>. QED  BY <1>2, <1>3, <1>4, <1>5, <1>6

LEMMA CycledSound ==
    ASSUME Sound, NEW s \in Filter!Scopes, Filter!CycleMode(s) \/ Filter!CycleEnabled(s)
    PROVE  Sound'
<1>1. Filter!Rule(Filter!Own(s))
  BY DEF Sound, ConfigTyped, Filter!Own
<1>2. CASE Filter!CycleMode(s)
  <2>. DEFINE mode == IF "mode" \in DOMAIN Filter!Own(s) THEN Filter!Own(s).mode ELSE "unset"
              next == Filter!NextMode(s, mode)
              set == Filter!Put(Filter!Own(s), "mode", next)
              all == Filter!Put(set, "airlines", {})
              drop == Filter!Drop(Filter!Own(s), {"mode", "airlines"})
  <2>1. mode \in {"unset", "all", "whitelist", "blacklist"}
    BY <1>1 DEF Filter!Rule, Filter!Values
  <2>. HIDE DEF mode
  <2>2. next \in {"unset", "all", "whitelist", "blacklist"}
    BY <2>1 DEF Filter!NextMode
  <2>3. \/ next = "unset" /\ Filter!SetRule(s, drop)
        \/ next = "all" /\ Filter!SetRule(s, all)
        \/ next \notin {"unset", "all"} /\ Filter!SetRule(s, set)
    BY <1>2 DEF Filter!CycleMode, mode
  <2>. HIDE DEF next
  <2>4. Filter!Rule(drop)
    BY <1>1, DropIsRule
  <2>5. next # "unset" => Filter!Rule(set)
    <3>1. next # "unset" => "mode" \in Fields /\ next \in Filter!Values["mode"]
      BY <2>2 DEF Fields, Filter!Values
    <3>. QED  BY <1>1, <3>1, PutIsRule
  <2>. HIDE DEF set, drop
  <2>6. next # "unset" => Filter!Rule(all)
    <3>1. "airlines" \in Fields /\ {} \in Filter!Values["airlines"]
      BY DEF Fields, Filter!Values
    <3>. QED  BY <2>5, <3>1, PutIsRule
  <2>. HIDE DEF all
  <2>7. \E r \in {drop, all, set} : Filter!Rule(r) /\ Filter!SetRule(s, r)
    BY <2>3, <2>4, <2>5, <2>6
  <2>. QED  BY <2>7, SetRuleSound
<1>3. CASE Filter!CycleEnabled(s)
  <2>1. "enabled" \in Fields /\ TRUE \in Filter!Values["enabled"] /\ FALSE \in Filter!Values["enabled"]
    BY DEF Fields, Filter!Values
  <2>2. /\ Filter!Rule(Filter!Put(Filter!Own(s), "enabled", TRUE))
        /\ Filter!Rule(Filter!Put(Filter!Own(s), "enabled", FALSE))
        /\ Filter!Rule(Filter!Drop(Filter!Own(s), {"enabled"}))
    BY <1>1, <2>1, PutIsRule, DropIsRule
  <2>3. \/ Filter!SetRule(s, Filter!Put(Filter!Own(s), "enabled", TRUE))
        \/ Filter!SetRule(s, Filter!Put(Filter!Own(s), "enabled", FALSE))
        \/ Filter!SetRule(s, Filter!Drop(Filter!Own(s), {"enabled"}))
    BY <1>3 DEF Filter!CycleEnabled
  <2>. QED  BY <2>2, <2>3, SetRuleSound
<1>. QED  BY <1>2, <1>3

LEMMA MonitorSound ==
    ASSUME Filter!FilterAssumption, Sound, Filter!Save \/ Filter!Cycle \/ Filter!Expire
    PROVE  Sound'
<1>1. config' = config
  BY DEF Filter!Save, Filter!Cycle, Filter!Expire
<1>2. polled' \in {polled, Filter!Fetched(config), Filter!NoSnapshot}
  BY DEF Filter!Save, Filter!Cycle, Filter!Expire, Filter!Snapshot
<1>3. Filter!Fetched(config).key \in Nat \ {0} /\ Filter!Fetched(config).reach = Filter!Fetched(config).key + Margin
  BY WidestRadius DEF Sound, Filter!Fetched, Filter!RegionKey
<1>4. ConfigTyped(config)'
  BY <1>1 DEF Sound, ConfigTyped, Filter!Rule, Filter!Values, Filter!Scopes
<1>. QED  BY <1>2, <1>3, <1>4 DEF Sound, Filter!NoSnapshot

LEMMA FirstSound ==
    ASSUME Filter!FilterAssumption, Filter!Init
    PROVE  Sound
<1>1. Filter!Min(Radii) \in Radii
  <2>1. Radii \in SUBSET Nat /\ Radii # {}
    BY DEF Filter!FilterAssumption
  <2>. QED  BY <2>1, MinOfNumbers
<1>2. Filter!Rule(Filter!NoRule)
  BY DEF Filter!NoRule, Filter!Rule
<1>3. ConfigTyped(Filter!Default)
  BY <1>1, <1>2 DEF ConfigTyped, Filter!Default, Modes
<1>4. ConfigTyped([Filter!Default EXCEPT !.mode = "all"])
  BY <1>3 DEF ConfigTyped, Modes
<1>5. ASSUME NEW c \in Categories, NEW d \in {{}} \cup {{t} : t \in Types}
      PROVE  ConfigTyped(Filter!Legacy(c, d))
  <2>1. d \subseteq Types
    OBVIOUS
  <2>2. {t \in Types : c \in CategoriesOf[t]} \ d \subseteq Types
    OBVIOUS
  <2>. DEFINE ts == {t \in Types : c \in CategoriesOf[t]} \ d
  <2>3. Filter!Legacy(c, d) = [Filter!Default EXCEPT !.types = ts, !.excluded = d]
    BY DEF Filter!Legacy
  <2>. HIDE DEF ts
  <2>4. ts \in SUBSET Types /\ d \in SUBSET Types
    BY <2>1, <2>2 DEF ts
  <2>5. ConfigTyped([Filter!Default EXCEPT !.types = ts, !.excluded = d])
    <3>. DEFINE o == Filter!Default
    <3>1. {} \in SUBSET Categories
      OBVIOUS
    <3>. HIDE DEF o
    <3>2. ConfigTyped([o EXCEPT !.types = ts, !.excluded = d])
      BY <1>3, <2>4, <3>1, SelectionTyped DEF o
    <3>. QED  BY <3>2 DEF o
  <2>. QED  BY <2>3, <2>5
<1>6. polled = Filter!NoSnapshot
  BY DEF Filter!Init
<1>. QED  BY <1>4, <1>5, <1>6 DEF Sound, Filter!Init

LEMMA SoundAlways ==
    ASSUME Filter!FilterAssumption
    PROVE  Filter!Spec => []Sound
<1>1. Filter!Init => Sound
  BY FirstSound
<1>2. Sound /\ [Filter!Next]_(Filter!vars) => Sound'
  <2>. SUFFICES ASSUME Sound, [Filter!Next]_(Filter!vars)
                PROVE  Sound'
    OBVIOUS
  <2>1. CASE UNCHANGED Filter!vars
    BY <2>1 DEF Filter!vars, Sound, ConfigTyped, Filter!Rule, Filter!Values, Filter!Scopes
  <2>2. CASE Filter!Next
    BY <2>2, PressedSound, ChosenSound, TypedSound, CycledSound, MonitorSound DEF Filter!Next
  <2>. QED  BY <2>1, <2>2
<1>. QED  BY <1>1, <1>2, PTL DEF Filter!Spec

\* Whatever was overridden, reset and cycled through before, the aircraft a saved profile
\* accepts are those it asks for, they are polled for far enough, those within the margin of
\* its own radius are evaluated and no other, and the menu shows what is applied (app/aircraft/filtering.py, app/worker/profile_filter_guard_v43.py).
THEOREM SelectedAsSet ==
    ASSUME Filter!FilterAssumption
    PROVE  Filter!Spec => [](/\ Filter!MatchesAsSet /\ Filter!PolledWideEnough
                             /\ Filter!EvaluatedByBase /\ Filter!MenuIsHonest)
<1>1. Sound => Filter!MatchesAsSet
  BY MatchesWhatIsAsked DEF Filter!MatchesAsSet
<1>2. Sound => Filter!PolledWideEnough
  BY PolledFarEnough DEF Filter!PolledWideEnough
<1>3. Sound => Filter!EvaluatedByBase
  <2>. SUFFICES ASSUME Sound, Filter!Saved, NEW a \in Sky
                PROVE  a \in Filter!Evaluated(config)
                         <=> Filter!Wanted(config, a) /\ a.distance <= config.radius + Margin
    BY DEF Filter!EvaluatedByBase, Filter!Evaluated, Filter!Candidates
  <2>1. Filter!Matched(config, a) <=> Filter!Wanted(config, a)
    BY MatchesWhatIsAsked
  <2>2. a.distance \in Nat
    BY DEF Filter!FilterAssumption
  <2>3. a.distance <= config.radius + Margin => a.distance <= Filter!Snapshot(config).reach
    BY <2>2, PolledFarEnough
  <2>. QED  BY <2>1, <2>3 DEF Filter!Evaluated, Filter!Candidates
<1>4. Filter!MenuIsHonest
  BY MenuShowsIt
<1>. QED  BY <1>1, <1>2, <1>3, <1>4, SoundAlways, PTL

\* A press on one type turns that type over and leaves the others as they were
\* (app/bot/profile_handlers.py).
THEOREM OneTypeToggled ==
    ASSUME Filter!FilterAssumption
    PROVE  Filter!Spec => Filter!TogglesOne
<1>1. Sound => [\A t \in Types : config.mode = "selected" /\ Filter!ToggleType(t) =>
                  {u \in Types : Filter!Ticked(config', u) # Filter!Ticked(config, u)} = {t}]_(Filter!vars)
  BY PressTurnsOne DEF Sound, ConfigTyped
<1>. QED  BY <1>1, SoundAlways, PTL DEF Filter!TogglesOne

-----------------------------------------------------------------------------
(* Shared aircraft: the grid.                                               *)

Inland(u) == users[u].home - users[u].radius >= Partition!West
Situated(u) == users[u].home \in Partition!Ring /\ users[u].radius \in Nat /\ 2 * users[u].radius < Around

LEMMA PartitionCounts == \A S : Partition!Cardinality(S) = Cardinality(S)
BY DEF Partition!Cardinality, Cardinality

LEMMA OnceAround ==
    ASSUME NEW n \in Nat \ {0}, NEW z \in Int, -n < z, z < n
    PROVE  z % n = IF z >= 0 THEN z ELSE z + n
<1>1. CASE z >= 0
  <2>1. z \in 0..(n - 1)
    BY <1>1
  <2>. QED  BY <1>1, <2>1
<1>2. CASE z < 0
  BY <1>2
<1>. QED  BY <1>1, <1>2

LEMMA CellsInOrder ==
    ASSUME NEW n \in Nat \ {0}, NEW a \in Nat, NEW b \in Nat, a <= b
    PROVE  a \div n <= b \div n /\ a \div n \in Int /\ b \div n \in Int
  OBVIOUS

\* The shorter way round the ring is one of the two.
LEMMA LesserOfTwo ==
    ASSUME NEW a \in Int, NEW b \in Int
    PROVE  Partition!Min({a, b}) \in {a, b} /\ Partition!Min({a, b}) <= a /\ Partition!Min({a, b}) <= b
<1>1. \E x \in {a, b} : \A y \in {a, b} : x <= y
  <2>1. CASE a <= b
    BY <2>1
  <2>2. CASE b <= a
    BY <2>2
  <2>. QED  BY <2>1, <2>2
<1>2. Partition!Min({a, b}) \in {a, b} /\ \A y \in {a, b} : Partition!Min({a, b}) <= y
  BY <1>1 DEF Partition!Min
<1>. QED  BY <1>2

LEMMA DistanceRound ==
    ASSUME Partition!PartitionAssumption, NEW u, Situated(u), NEW x \in Partition!Ring
    PROVE  LET east == IF users[u].home >= x THEN users[u].home - x ELSE users[u].home - x + Around
               west == IF x >= users[u].home THEN x - users[u].home ELSE x - users[u].home + Around
           IN  Partition!Distance(u, x) \in {east, west} /\ Partition!Distance(u, x) \in Nat
<1>. DEFINE h == users[u].home
<1>1. Around \in Nat \ {0} /\ h \in Int /\ x \in Int /\ 0 <= h /\ h < Around /\ 0 <= x /\ x < Around
  BY DEF Partition!PartitionAssumption, Situated, Partition!Ring, Partition!West, Partition!East
<1>. HIDE DEF h
<1>2. (h - x) % Around = IF h >= x THEN h - x ELSE h - x + Around
  <2>. DEFINE z == h - x
  <2>1. z \in Int /\ -Around < z /\ z < Around /\ (z >= 0 <=> h >= x)
    BY <1>1
  <2>2. z % Around = IF z >= 0 THEN z ELSE z + Around
    <3>. HIDE DEF z
    <3>. QED  BY <1>1, <2>1, OnceAround
  <2>. QED  BY <2>1, <2>2
<1>3. (x - h) % Around = IF x >= h THEN x - h ELSE x - h + Around
  <2>. DEFINE z == x - h
  <2>1. z \in Int /\ -Around < z /\ z < Around /\ (z >= 0 <=> x >= h)
    BY <1>1
  <2>2. z % Around = IF z >= 0 THEN z ELSE z + Around
    <3>. HIDE DEF z
    <3>. QED  BY <1>1, <2>1, OnceAround
  <2>. QED  BY <2>1, <2>2
<1>4. (h - x) % Around \in Nat /\ (x - h) % Around \in Nat
  BY <1>1, <1>2, <1>3
<1>5. Partition!Distance(u, x) = Partition!Min({(h - x) % Around, (x - h) % Around})
  BY DEF Partition!Distance, Partition!Apart, Partition!Wrapped, h
<1>6. Partition!Distance(u, x) \in {(h - x) % Around, (x - h) % Around}
  <2>. DEFINE a == (h - x) % Around
              b == (x - h) % Around
  <2>1. a \in Int /\ b \in Int
    BY <1>4
  <2>. HIDE DEF a, b
  <2>2. Partition!Min({a, b}) \in {a, b}
    BY <2>1, LesserOfTwo
  <2>. QED  BY <1>5, <2>2 DEF a, b
<1>7. Partition!Distance(u, x) \in Nat
  BY <1>4, <1>6
<1>. QED  BY <1>2, <1>3, <1>6, <1>7 DEF h

\* The grid finds every user an aircraft is near, unless the envelope goes west over the line.
LEMMA GridFindsThem ==
    ASSUME Partition!PartitionAssumption, NEW u \in People, Situated(u), Inland(u),
           NEW x \in Partition!Ring, Partition!Distance(u, x) <= users[u].radius
    PROVE  u \in Partition!Candidates(x)
<1>. DEFINE h == users[u].home
            r == users[u].radius
<1>1. /\ Around \in Nat \ {0} /\ CellSize \in Nat \ {0}
      /\ h \in Int /\ x \in Int /\ 0 <= h /\ h < Around /\ 0 <= x /\ x < Around
      /\ r \in Nat /\ 2 * r < Around /\ 0 <= h - r
  BY DEF Partition!PartitionAssumption, Situated, Inland, Partition!Ring, Partition!West, Partition!East
<1>2. \/ x >= h - r /\ x <= h + r
      \/ x <= h + r - Around
  <2>. DEFINE d == Partition!Distance(u, x)
  <2>1. /\ d \in Nat /\ d <= r
        /\ \/ d = (IF h >= x THEN h - x ELSE h - x + Around)
           \/ d = (IF x >= h THEN x - h ELSE x - h + Around)
    BY DistanceRound
  <2>. HIDE DEF d, h, r
  <2>. QED  BY <1>1, <2>1
<1>. DEFINE cell(z) == (z % Around) \div CellSize
<1>3. \A a, b \in 0..(Around - 1) : \A y \in a..b : cell(y) \in cell(a)..cell(b)
  <2>. SUFFICES ASSUME NEW a \in 0..(Around - 1), NEW b \in 0..(Around - 1), NEW y \in a..b
                PROVE  cell(y) \in cell(a)..cell(b)
    OBVIOUS
  <2>1. a \in Nat /\ b \in Nat /\ y \in Nat /\ a <= y /\ y <= b /\ y < Around /\ a < Around /\ b < Around
    BY <1>1
  <2>2. \A z \in 0..(Around - 1) : z % Around = z
    BY <1>1
  <2>3. /\ a \div CellSize <= y \div CellSize /\ y \div CellSize <= b \div CellSize
        /\ a \div CellSize \in Int /\ b \div CellSize \in Int /\ y \div CellSize \in Int
    BY <1>1, <2>1, CellsInOrder
  <2>4. a % Around = a /\ b % Around = b /\ y % Around = y
    BY <1>1, <2>1, <2>2
  <2>. QED  BY <2>3, <2>4
<1>4. \A z : Partition!Cell(z) = cell(z)
  BY DEF Partition!Cell, Partition!Wrapped
<1>. DEFINE ranges == Partition!Ranges(users[u])
<1>5. \E q \in ranges : q[1] \in 0..(Around - 1) /\ q[2] \in 0..(Around - 1) /\ x \in q[1]..q[2]
  <2>1. CASE h + r >= Around
    <3>1. <<h - r, Around - 1>> \in ranges /\ <<0, h + r - Around>> \in ranges
      <4>1. ~(h - r < Partition!West) /\ h - r >= Partition!West
        BY <1>1 DEF Partition!West
      <4>2. <<h - r, Partition!East>> \in ranges
        BY <2>1, <4>1 DEF Partition!Ranges
      <4>3. <<Partition!West, h + r - Around>> \in ranges
        BY <1>1, <2>1, <4>1 DEF Partition!Ranges
      <4>. QED  BY <4>2, <4>3 DEF Partition!West, Partition!East
    <3>. HIDE DEF ranges, h, r
    <3>2. \/ x \in (h - r)..(Around - 1) /\ h - r \in 0..(Around - 1) /\ Around - 1 \in 0..(Around - 1)
          \/ x \in 0..(h + r - Around) /\ 0 \in 0..(Around - 1) /\ h + r - Around \in 0..(Around - 1)
      BY <1>1, <1>2, <2>1
    <3>3. CASE x \in (h - r)..(Around - 1) /\ h - r \in 0..(Around - 1) /\ Around - 1 \in 0..(Around - 1)
      <4>. DEFINE q == <<h - r, Around - 1>>
      <4>1. q \in ranges /\ q[1] = h - r /\ q[2] = Around - 1
        BY <3>1
      <4>. HIDE DEF q
      <4>. QED  BY <3>3, <4>1
    <3>4. CASE x \in 0..(h + r - Around) /\ 0 \in 0..(Around - 1) /\ h + r - Around \in 0..(Around - 1)
      <4>. DEFINE q == <<0, h + r - Around>>
      <4>1. q \in ranges /\ q[1] = 0 /\ q[2] = h + r - Around
        BY <3>1
      <4>. HIDE DEF q
      <4>. QED  BY <3>4, <4>1
    <3>. QED  BY <3>2, <3>3, <3>4
  <2>2. CASE ~(h + r >= Around)
    <3>1. ranges = {<<h - r, h + r>>}
      <4>1. ~(h - r < 0)
        BY <1>1
      <4>. QED  BY <2>2, <4>1 DEF Partition!Ranges, Partition!West, Partition!East
    <3>. HIDE DEF ranges, h, r
    <3>2. x \in (h - r)..(h + r) /\ h - r \in 0..(Around - 1) /\ h + r \in 0..(Around - 1)
      BY <1>1, <1>2, <2>2
    <3>. DEFINE q == <<h - r, h + r>>
    <3>3. q \in ranges /\ q[1] = h - r /\ q[2] = h + r
      BY <3>1
    <3>. HIDE DEF q
    <3>. QED  BY <3>2, <3>3
  <2>. QED  BY <2>1, <2>2
<1>6. Partition!Cell(x) \in Partition!Envelope(users[u])
  <2>1. PICK q \in ranges : q[1] \in 0..(Around - 1) /\ q[2] \in 0..(Around - 1) /\ x \in q[1]..q[2]
    BY <1>5
  <2>. HIDE DEF ranges, cell
  <2>2. Partition!Cell(x) \in Partition!Cell(q[1])..Partition!Cell(q[2])
    BY <1>3, <1>4, <2>1
  <2>. QED  BY <2>1, <2>2 DEF Partition!Envelope, ranges
<1>. QED  BY <1>6 DEF Partition!Candidates

-----------------------------------------------------------------------------
(* Shared aircraft: the inductive invariant.                                *)

\* What a user keeps is near, no more than the cap, and nothing left out is nearer.
Nearest(u) ==
  /\ bucket[u] \subseteq Partition!Within(u) /\ IsFiniteSet(bucket[u])
  /\ Cardinality(bucket[u]) <= MaxCandidates
  /\ Inland(u) /\ bucket[u] # Partition!Within(u) =>
       /\ Cardinality(bucket[u]) = MaxCandidates
       /\ \A i \in bucket[u], j \in Partition!Within(u) \ bucket[u] :
            Partition!Distance(u, feed[i]) <= Partition!Distance(u, feed[j])

Handed ==
  /\ feed \in Seq(Partition!Ring)
  /\ bucket = [u \in People |-> bucket[u]]
  /\ \A u \in People : Situated(u) /\ Nearest(u)

LEMMA OneMore ==
    ASSUME NEW S, IsFiniteSet(S), NEW x, x \notin S
    PROVE  IsFiniteSet(S \cup {x}) /\ Cardinality(S \cup {x}) = Cardinality(S) + 1 /\ Cardinality(S) \in Nat
  BY FS_AddElement, FS_CardinalityType

LEMMA OneForAnother ==
    ASSUME NEW S, IsFiniteSet(S), NEW y \in S, NEW x, x \notin S
    PROVE  IsFiniteSet((S \ {y}) \cup {x}) /\ Cardinality((S \ {y}) \cup {x}) = Cardinality(S)
<1>1. IsFiniteSet(S \ {y}) /\ Cardinality(S \ {y}) = Cardinality(S) - 1
  BY FS_RemoveElement
<1>2. x \notin S \ {y}
  OBVIOUS
<1>3. Cardinality(S) \in Nat
  BY FS_CardinalityType
<1>. HIDE DEF Cardinality
<1>. QED  BY <1>1, <1>2, <1>3, OneMore

\* The heap has a root: of finitely many aircraft one is the farthest, the earliest of these.
LEMMA SomeFarthest ==
    ASSUME Around \in Nat, NEW u, NEW S \in SUBSET Nat, S # {},
           \A i \in S : Partition!Distance(u, feed[i]) \in 0..Around
    PROVE  /\ Partition!Farthest(u, S) \in S
           /\ \A j \in S : Partition!Distance(u, feed[j]) <= Partition!Distance(u, feed[Partition!Farthest(u, S)])
<1>. DEFINE far(i) == Partition!Distance(u, feed[i])
            D == {far(i) : i \in S}
<1>1. \A i \in S : far(i) \in Nat /\ far(i) <= Around /\ i \in Nat
  OBVIOUS
<1>. HIDE DEF far
<1>2. PICK m \in D : \A n \in D : n <= m
  <2>1. D \in SUBSET Nat /\ D # {} /\ \A n \in D : n <= Around
    BY <1>1
  <2>. HIDE DEF D
  <2>. QED  BY <2>1, GreatestElement
<1>. DEFINE T == {i \in S : far(i) = m}
<1>3. PICK first \in T : \A i \in T : first <= i
  <2>1. T \in SUBSET Nat /\ T # {}
    BY <1>1
  <2>. HIDE DEF T
  <2>. QED  BY <2>1, LeastElement
<1>. DEFINE Root(i) == \A j \in S \ {i} : far(i) > far(j) \/ (far(i) = far(j) /\ i < j)
<1>4. first \in S /\ Root(first)
  <2>1. SUFFICES ASSUME NEW j \in S \ {first}
                 PROVE  far(first) > far(j) \/ (far(first) = far(j) /\ first < j)
    OBVIOUS
  <2>2. far(first) = m /\ far(first) \in Nat /\ far(j) \in Nat /\ first \in Nat /\ j \in Nat /\ j # first
    BY <1>1
  <2>3. far(j) <= m
    BY <1>2
  <2>4. far(j) = m => first <= j
    BY <1>3
  <2>. QED  BY <2>2, <2>3, <2>4
<1>5. Partition!Farthest(u, S) \in S /\ Root(Partition!Farthest(u, S))
  <2>1. Partition!Farthest(u, S) = CHOOSE i \in S : Root(i)
    BY DEF Partition!Farthest, far
  <2>. HIDE DEF Root
  <2>. QED  BY <1>4, <2>1
<1>6. ASSUME NEW j \in S
      PROVE  far(j) <= far(Partition!Farthest(u, S))
  <2>. DEFINE root == Partition!Farthest(u, S)
  <2>1. root \in S /\ far(root) \in Nat /\ far(j) \in Nat
    BY <1>1, <1>5
  <2>2. j # root => far(root) > far(j) \/ far(root) = far(j)
    BY <1>5
  <2>3. far(j) <= far(root)
    <3>. HIDE DEF root
    <3>. QED  BY <2>1, <2>2
  <2>. QED  BY <2>3
<1>. QED  BY <1>5, <1>6 DEF far

LEMMA DistanceBounded ==
    ASSUME Partition!PartitionAssumption, NEW u, Situated(u), NEW x \in Partition!Ring
    PROVE  Partition!Distance(u, x) \in 0..Around /\ Around \in Nat
<1>. DEFINE h == users[u].home
            d == Partition!Distance(u, x)
<1>1. Around \in Nat /\ h \in Int /\ x \in Int /\ 0 <= h /\ h < Around /\ 0 <= x /\ x < Around
  BY DEF Partition!PartitionAssumption, Situated, Partition!Ring, Partition!West, Partition!East
<1>2. /\ d \in Nat
      /\ \/ d = (IF h >= x THEN h - x ELSE h - x + Around)
         \/ d = (IF x >= h THEN x - h ELSE x - h + Around)
  BY DistanceRound
<1>. HIDE DEF d, h
<1>3. d \in 0..Around
  BY <1>1, <1>2
<1>. QED  BY <1>1, <1>3 DEF d

-----------------------------------------------------------------------------
(* Shared aircraft: an aircraft is handed out.                              *)

\* Places and distances of the aircraft before stay, and the new one is the last.
LEMMA FeedGrows ==
    ASSUME Handed, NEW x \in Partition!Ring, Partition!HandOut(x), NEW u
    PROVE  /\ feed' \in Seq(Partition!Ring) /\ Len(feed') = Len(feed) + 1 /\ Len(feed) \in Nat
           /\ DOMAIN feed = 1..Len(feed) /\ DOMAIN feed' = DOMAIN feed \cup {Len(feed) + 1}
           /\ \A i \in DOMAIN feed : feed'[i] = feed[i] /\ feed[i] \in Partition!Ring
           /\ feed'[Len(feed) + 1] = x
           /\ \A y : Partition!Distance(u, y)' = Partition!Distance(u, y)
           /\ Situated(u)' = Situated(u) /\ Inland(u)' = Inland(u)
<1>1. feed' = Append(feed, x) /\ users' = users /\ feed \in Seq(Partition!Ring)
  BY DEF Partition!HandOut, Handed
<1>2. /\ feed' \in Seq(Partition!Ring) /\ Len(feed') = Len(feed) + 1 /\ Len(feed) \in Nat
      /\ DOMAIN feed = 1..Len(feed) /\ DOMAIN feed' = 1..(Len(feed) + 1)
      /\ \A i \in DOMAIN feed : feed'[i] = feed[i] /\ feed[i] \in Partition!Ring
      /\ feed'[Len(feed) + 1] = x
  BY <1>1
<1>3. 1..(Len(feed) + 1) = 1..Len(feed) \cup {Len(feed) + 1}
  BY <1>2
<1>4. \A y : Partition!Distance(u, y)' = Partition!Distance(u, y)
  BY <1>1 DEF Partition!Distance
<1>5. Situated(u)' = Situated(u) /\ Inland(u)' = Inland(u)
  BY <1>1 DEF Situated, Inland
<1>. QED  BY <1>2, <1>3, <1>4, <1>5

LEMMA NearerKept ==
    ASSUME Partition!PartitionAssumption, Handed, NEW x \in Partition!Ring, Partition!HandOut(x), NEW u \in People
    PROVE  Nearest(u)'
<1>. DEFINE new == Len(feed) + 1
            d(i) == Partition!Distance(u, feed[i])
            near == Partition!Distance(u, x) <= users[u].radius
            was == Partition!Within(u)
            had == bucket[u]
<1>1. /\ DOMAIN feed = 1..Len(feed) /\ DOMAIN feed' = DOMAIN feed \cup {new} /\ Len(feed) \in Nat
      /\ \A i \in DOMAIN feed : feed'[i] = feed[i] /\ feed[i] \in Partition!Ring
      /\ feed'[new] = x
      /\ \A y : Partition!Distance(u, y)' = Partition!Distance(u, y)
      /\ Situated(u) /\ Inland(u)' = Inland(u) /\ users' = users
  BY FeedGrows DEF Handed, Partition!HandOut
<1>2. new \notin DOMAIN feed /\ had \subseteq was /\ was \subseteq DOMAIN feed /\ new \notin was /\ new \notin had
  BY <1>1 DEF Handed, Nearest, Partition!Within
<1>3. Partition!Within(u)' = IF near THEN was \cup {new} ELSE was
  BY <1>1 DEF Partition!Within
<1>4. bucket'[u] = IF u \in Partition!Candidates(x) /\ near THEN Partition!Keep(u, x) ELSE had
  BY DEF Partition!HandOut
<1>5. Inland(u) /\ near => u \in Partition!Candidates(x)
  BY <1>1, GridFindsThem
<1>6. \A i \in DOMAIN feed' : (Partition!Distance(u, feed[i]))' = IF i = new THEN Partition!Distance(u, x) ELSE d(i)
  <2>1. \A i \in DOMAIN feed' : (Partition!Distance(u, feed[i]))' = Partition!Distance(u, feed'[i])
    BY <1>1 DEF Partition!Distance
  <2>. QED  BY <1>1, <1>2, <2>1
<1>7. Partition!Distance(u, x) \in Nat /\ \A i \in DOMAIN feed : d(i) \in 0..Around /\ d(i) \in Nat
  <2>1. \A y \in Partition!Ring : Partition!Distance(u, y) \in 0..Around /\ Partition!Distance(u, y) \in Nat
    BY <1>1, DistanceBounded
  <2>. QED  BY <1>1, <2>1
<1>8. /\ IsFiniteSet(had) /\ Cardinality(had) \in Nat /\ Cardinality(had) <= MaxCandidates
      /\ Inland(u) /\ had # was => /\ Cardinality(had) = MaxCandidates
                                    /\ \A i \in had, j \in was \ had : d(i) <= d(j)
      /\ MaxCandidates \in Nat \ {0}
  BY FS_CardinalityType DEF Handed, Nearest, Partition!PartitionAssumption
<1>. DEFINE has == bucket'[u]
            within == Partition!Within(u)'
            D(i) == IF i = new THEN Partition!Distance(u, x) ELSE d(i)
<1>9. SUFFICES /\ has \subseteq within /\ IsFiniteSet(has) /\ Cardinality(has) <= MaxCandidates
               /\ Inland(u) /\ has # within => /\ Cardinality(has) = MaxCandidates
                                               /\ \A i \in has, j \in within \ has : D(i) <= D(j)
  <2>1. within \subseteq DOMAIN feed'
    BY DEF Partition!Within
  <2>2. \A i \in within : (Partition!Distance(u, feed[i]))' = D(i)
    BY <1>6, <2>1
  <2>3. \A i \in has : has \subseteq within => (Partition!Distance(u, feed[i]))' = D(i)
    BY <2>2
  <2>. HIDE DEF D
  <2>. QED  BY <1>1, <2>2, <2>3 DEF Nearest
<1>10. CASE ~near
  BY <1>2, <1>3, <1>4, <1>8, <1>10
<1>11. CASE near /\ u \notin Partition!Candidates(x)
  BY <1>2, <1>3, <1>4, <1>5, <1>8, <1>11
<1>12. CASE near /\ u \in Partition!Candidates(x)
  <2>. DEFINE out == Partition!Farthest(u, had)
              full == Cardinality(had) >= MaxCandidates
              dx == Partition!Distance(u, x)
  <2>1. within = was \cup {new}
    BY <1>3, <1>12
  <2>2. /\ ~full => has = had \cup {new}
        /\ full /\ dx < d(out) => has = (had \ {out}) \cup {new}
        /\ full /\ ~(dx < d(out)) => has = had
    <3>1. has = Partition!Keep(u, x)
      BY <1>4, <1>12
    <3>. HIDE DEF has
    <3>2. ~full => has = had \cup {new}
      BY <3>1, PartitionCounts DEF Partition!Keep
    <3>3. full /\ dx < d(out) => has = (had \ {out}) \cup {new}
      BY <3>1, PartitionCounts DEF Partition!Keep
    <3>4. full /\ ~(dx < d(out)) => has = had
      BY <3>1, PartitionCounts DEF Partition!Keep
    <3>. QED  BY <3>2, <3>3, <3>4
  <2>3. CASE ~full
    <3>1. has = had \cup {new} /\ IsFiniteSet(has) /\ Cardinality(has) = Cardinality(had) + 1
      BY <1>2, <1>8, <2>2, <2>3, OneMore
    <3>2. Inland(u) => had = was
      BY <1>8, <2>3
    <3>. HIDE DEF within, has
    <3>. QED  BY <1>2, <1>8, <2>1, <2>3, <3>1, <3>2
  <2>4. full => /\ out \in had /\ \A j \in had : d(j) <= d(out)
                /\ Cardinality(had) = MaxCandidates
    <3>1. SUFFICES ASSUME full
                   PROVE  out \in had /\ \A j \in had : d(j) <= d(out)
      BY <1>8
    <3>2. had \in SUBSET Nat /\ \A i \in had : d(i) \in 0..Around
      BY <1>1, <1>2, <1>7
    <3>3. had # {}
      BY <1>8, <3>1, FS_EmptySet
    <3>4. Around \in Nat
      BY DEF Partition!PartitionAssumption
    <3>. QED  BY <3>2, <3>3, <3>4, SomeFarthest
  <2>5. ASSUME full, Inland(u), NEW i \in had, NEW j \in was \ had
        PROVE  d(i) <= d(j)
    BY <1>8, <2>5
  <2>6. /\ \A i \in had \cup was : d(i) \in Nat /\ i # new /\ D(i) = d(i)
        /\ D(new) = dx /\ dx \in Nat
    BY <1>2, <1>7
  <2>. HIDE DEF within, has, was, had, out, full, dx, d, D
  <2>7. CASE full /\ dx < d(out)
    <3>1. has = (had \ {out}) \cup {new} /\ out \in had
      BY <2>2, <2>4, <2>7
    <3>2. IsFiniteSet(has) /\ Cardinality(has) = MaxCandidates
      BY <1>2, <1>8, <2>4, <2>7, <3>1, OneForAnother
    <3>3. ASSUME Inland(u), NEW i \in has, NEW j \in within \ has
          PROVE  D(i) <= D(j)
      <4>1. D(i) <= d(out)
        BY <2>4, <2>6, <2>7, <3>1
      <4>2. j \in had \cup was /\ (j = out \/ j \in was \ had)
        BY <2>1, <3>1, <3>3
      <4>3. d(out) <= D(j)
        BY <2>5, <2>6, <2>7, <3>1, <3>3, <4>2
      <4>4. D(i) \in Nat /\ D(j) \in Nat /\ d(out) \in Nat
        BY <2>6, <3>1, <4>2
      <4>. QED  BY <4>1, <4>3, <4>4
    <3>4. has \subseteq within
      BY <1>2, <2>1, <3>1
    <3>. QED  BY <1>8, <3>2, <3>3, <3>4
  <2>8. CASE full /\ ~(dx < d(out))
    <3>1. has = had /\ out \in had
      BY <2>2, <2>4, <2>8
    <3>2. ASSUME Inland(u), NEW i \in has, NEW j \in within \ has
          PROVE  D(i) <= D(j)
      <4>1. CASE j = new
        <5>1. d(i) <= d(out) /\ D(i) = d(i) /\ D(j) = dx /\ d(i) \in Nat /\ d(out) \in Nat
          BY <2>4, <2>6, <2>8, <3>1, <4>1
        <5>. QED  BY <2>6, <2>8, <5>1
      <4>2. CASE j # new
        <5>1. j \in was \ had
          BY <2>1, <3>1, <4>2
        <5>. QED  BY <2>5, <2>6, <2>8, <3>1, <3>2, <5>1
      <4>. QED  BY <4>1, <4>2
    <3>3. has \subseteq within
      BY <1>2, <2>1, <3>1
    <3>. QED  BY <1>8, <2>4, <2>8, <3>1, <3>2, <3>3
  <2>. QED  BY <2>3, <2>7, <2>8 DEF full
<1>. QED  BY <1>10, <1>11, <1>12

LEMMA HandedStays ==
    ASSUME Partition!PartitionAssumption, Handed, [Partition!Next]_(Partition!vars)
    PROVE  Handed'
<1>1. CASE UNCHANGED Partition!vars
  <2>1. users' = users /\ feed' = feed /\ bucket' = bucket
    BY <1>1 DEF Partition!vars
  <2>2. \A u : Partition!Within(u)' = Partition!Within(u) /\ \A y : Partition!Distance(u, y)' = Partition!Distance(u, y)
    BY <2>1 DEF Partition!Within, Partition!Distance
  <2>. QED  BY <2>1, <2>2 DEF Handed, Nearest, Situated, Inland
<1>2. ASSUME NEW x \in Partition!Ring, Partition!HandOut(x)
      PROVE  Handed'
  <2>1. feed' \in Seq(Partition!Ring) /\ \A u \in People : Situated(u)'
    BY <1>2, FeedGrows DEF Handed
  <2>2. bucket' = [u \in People |-> bucket'[u]]
    BY <1>2 DEF Partition!HandOut
  <2>3. \A u \in People : Nearest(u)'
    BY <1>2, NearerKept
  <2>. QED  BY <2>1, <2>2, <2>3 DEF Handed
<1>. QED  BY <1>1, <1>2 DEF Partition!Next

LEMMA HandedFirst ==
    ASSUME Partition!PartitionAssumption, Partition!Init
    PROVE  Handed
<1>1. feed = <<>> /\ bucket = [u \in People |-> {}] /\ users \in [People -> [home : Homes, radius : Reaches]]
  BY DEF Partition!Init
<1>2. \A u \in People : Situated(u)
  BY <1>1 DEF Partition!PartitionAssumption, Situated
<1>3. \A u \in People : Partition!Within(u) = {} /\ bucket[u] = {}
  BY <1>1 DEF Partition!Within
<1>4. IsFiniteSet({}) /\ Cardinality({}) = 0 /\ MaxCandidates \in Nat
  BY FS_EmptySet DEF Partition!PartitionAssumption
<1>5. \A u \in People : Nearest(u)
  BY <1>3, <1>4 DEF Nearest
<1>. QED  BY <1>1, <1>2, <1>5 DEF Handed

\* Whatever the cells, a user whose envelope does not go west over the date line has
\* exactly the aircraft that are near, and over the cap the nearest of them
\* (app/worker/scale_v53.py, partition_aircraft_by_user).
THEOREM NearestHandedOut ==
    ASSUME Partition!PartitionAssumption
    PROVE  Partition!Spec => [](Partition!ExactElsewhere /\ Partition!NearestAreKept)
<1>1. ASSUME Handed, NEW u \in People, Inland(u)
      PROVE  /\ Cardinality(Partition!Within(u)) <= MaxCandidates => bucket[u] = Partition!Within(u)
             /\ Cardinality(Partition!Within(u)) > MaxCandidates =>
                  /\ Cardinality(bucket[u]) = MaxCandidates
                  /\ \A i \in bucket[u], j \in Partition!Within(u) \ bucket[u] :
                       Partition!Distance(u, feed[i]) <= Partition!Distance(u, feed[j])
  <2>. DEFINE had == bucket[u]
              within == Partition!Within(u)
  <2>1. /\ had \subseteq within /\ IsFiniteSet(had) /\ Cardinality(had) <= MaxCandidates
        /\ had # within => Cardinality(had) = MaxCandidates
        /\ had # within => \A i \in had, j \in within \ had :
                              Partition!Distance(u, feed[i]) <= Partition!Distance(u, feed[j])
    BY <1>1 DEF Handed, Nearest
  <2>2. MaxCandidates \in Nat
    BY DEF Partition!PartitionAssumption
  <2>3. IsFiniteSet(within) /\ Cardinality(within) \in Nat /\ Cardinality(had) \in Nat
    <3>1. within \in SUBSET (1..Len(feed)) /\ Len(feed) \in Nat
      BY <1>1 DEF Handed, Partition!Within
    <3>2. IsFiniteSet(1..Len(feed))
      BY <3>1, FS_Interval
    <3>. HIDE DEF within
    <3>. QED  BY <2>1, <3>1, <3>2, FS_Subset, FS_CardinalityType
  <2>. HIDE DEF had, within
  <2>4. Cardinality(had) = Cardinality(within) => had = within
    BY <2>1, <2>3, FS_Subset
  <2>5. Cardinality(had) <= Cardinality(within)
    BY <2>1, <2>3, FS_Subset
  <2>6. Cardinality(within) <= MaxCandidates => had = within
    BY <2>1, <2>2, <2>3, <2>4, <2>5
  <2>7. Cardinality(within) > MaxCandidates => had # within
    BY <2>1, <2>2, <2>3
  <2>. QED  BY <2>1, <2>6, <2>7 DEF had, within
<1>2. Handed => Partition!ExactElsewhere /\ Partition!NearestAreKept
  <2>1. Handed => Partition!ExactElsewhere
    BY <1>1, PartitionCounts DEF Partition!ExactElsewhere, Inland
  <2>2. Handed => Partition!NearestAreKept
    BY <1>1, PartitionCounts DEF Partition!NearestAreKept, Inland
  <2>. QED  BY <2>1, <2>2
<1>3. Partition!Init => Handed
  BY HandedFirst
<1>4. Handed /\ [Partition!Next]_(Partition!vars) => Handed'
  BY HandedStays
<1>. QED  BY <1>2, <1>3, <1>4, PTL DEF Partition!Spec

-----------------------------------------------------------------------------
(* Scoring: the inductive invariant.                                        *)

Instants == 0..Horizon

\* Of these reports the one of that moment saw it that far away, and none until the
\* last one saw it as near again.
LastSeen(seen, km, at, end) ==
  /\ at \in seen /\ Scoring!At(at) = km
  /\ \A t \in seen : at < t /\ t <= end => Scoring!At(t) > km

Snapshots == [key : BOOLEAN \X {"snapshot"}, started : Instants \cup {None}]
Endings == [key : {TRUE} \X {"passed", "cancelled"}, started : Instants \cup {None},
            end : Instants, closest : Nat, closestAt : Instants \cup {None}]
\* It was last seen about that near at that moment.
SeenAbout(seen, km, at, end) == \E d : LastSeen(seen, d, at, end) /\ Scoring!Agree(d, km)
\* What a job will say was seen before its end.
JobsSeen(seen) == Snapshots \cup
  {j \in Endings : /\ j.end \in seen
                   /\ j.closestAt # None => SeenAbout(seen, j.closest, j.closestAt, j.end)}
RowSeen(seen, r) ==
  /\ r.at \in Instants /\ r.end \in seen
  /\ r.eta # None => SeenAbout(seen, r.closest, r.at + r.eta, r.end)

Tracks == [km : Nat, at : Instants, seen : Instants]
Alerts == [at : Instants, stage : {"candidate", "active", "passed", "cancelled"}, km : Nat]
Remembered == [at : Instants, predicted : BOOLEAN]

Scored ==
  /\ now \in Instants /\ reports \subseteq 0..now /\ flight \in Paths
  /\ alert = None \/ alert \in Alerts
  /\ tracked = None \/ (tracked \in Tracks /\ LastSeen(reports, tracked.km, tracked.at, Horizon))
  /\ work \in Seq(JobsSeen(reports))
  /\ recent \in Seq(Remembered)
  /\ \A r \in rows : RowSeen(reports, r)

LEMMA OfLargerSet ==
    ASSUME NEW S, NEW T, S \subseteq T, NEW s \in Seq(S)
    PROVE  s \in Seq(T)
<1>1. Len(s) \in Nat /\ s \in [1..Len(s) -> S]
  OBVIOUS
<1>2. s \in [1..Len(s) -> T]
  BY <1>1
<1>. QED  BY <1>1, <1>2

LEMMA FlightIsRead ==
    ASSUME Scoring!ScoringAssumption, flight \in Paths
    PROVE  Horizon \in Nat /\ \A t \in Instants : Scoring!At(t) \in Nat
<1>1. Horizon \in Nat
  BY DEF Scoring!ScoringAssumption
<1>2. flight \in Seq(Nat) /\ Len(flight) = Horizon + 1
  BY DEF Scoring!ScoringAssumption
<1>. QED  BY <1>1, <1>2 DEF Instants, Scoring!At

\* What is seen depends on the flight and the reports alone.
LEMMA SameSeen ==
    ASSUME flight' = flight, NEW seen
    PROVE  /\ JobsSeen(seen)' = JobsSeen(seen)
           /\ \A r : RowSeen(seen, r)' <=> RowSeen(seen, r)
           /\ \A km, at, end : LastSeen(seen, km, at, end)' <=> LastSeen(seen, km, at, end)
<1>1. \A km, at, end : LastSeen(seen, km, at, end)' <=> LastSeen(seen, km, at, end)
  BY DEF LastSeen, Scoring!At
<1>2. \A km, at, end : SeenAbout(seen, km, at, end)' <=> SeenAbout(seen, km, at, end)
  BY <1>1 DEF SeenAbout, Scoring!Agree
<1>. QED  BY <1>1, <1>2 DEF JobsSeen, RowSeen

\* What was seen stays so when a later moment is reported.
LEMMA SeenStays ==
    ASSUME NEW seen \in SUBSET Int, NEW t \in Int, \A r \in seen : r < t
    PROVE  /\ \A j : j \in JobsSeen(seen) => j \in JobsSeen(seen \cup {t})
           /\ \A r : RowSeen(seen, r) => RowSeen(seen \cup {t}, r)
<1>1. \A km, at : \A end \in seen : SeenAbout(seen, km, at, end) => SeenAbout(seen \cup {t}, km, at, end)
  <2>1. \A km, at : \A end \in seen : LastSeen(seen, km, at, end) => LastSeen(seen \cup {t}, km, at, end)
    BY DEF LastSeen
  <2>. QED  BY <2>1 DEF SeenAbout
<1>2. ASSUME NEW j \in JobsSeen(seen)  PROVE j \in JobsSeen(seen \cup {t})
  <2>1. CASE j \in Snapshots
    BY <2>1 DEF JobsSeen
  <2>2. CASE /\ j \in Endings /\ j.end \in seen
             /\ j.closestAt # None => SeenAbout(seen, j.closest, j.closestAt, j.end)
    <3>1. j.closestAt # None => SeenAbout(seen \cup {t}, j.closest, j.closestAt, j.end)
      BY <1>1, <2>2
    <3>. QED  BY <2>2, <3>1 DEF JobsSeen
  <2>. QED  BY <2>1, <2>2 DEF JobsSeen
<1>3. ASSUME NEW r, RowSeen(seen, r)  PROVE RowSeen(seen \cup {t}, r)
  BY <1>1, <1>3 DEF RowSeen
<1>. QED  BY <1>2, <1>3

\* The closest point the monitor tracks is the last one that near.
LEMMA ClosestSeen ==
    ASSUME Scoring!ScoringAssumption, Scored, now \notin reports
    PROVE  LET track == Scoring!Closest(Scoring!Here)
           IN  track \in Tracks /\ LastSeen(reports \cup {now}, track.km, track.at, Horizon)
<1>. DEFINE track == Scoring!Closest(Scoring!Here)
<1>1. Scoring!Here = Scoring!At(now) /\ now \in Instants /\ Scoring!Here \in Nat
  BY FlightIsRead DEF Scored, Scoring!Here, Scoring!At
<1>2. \A x \in reports \cup {now} : Scoring!At(x) \in Nat /\ x \in Instants /\ x <= now
  BY FlightIsRead DEF Scored, Instants
<1>3. CASE track = [km |-> Scoring!Here, at |-> now, seen |-> now]
  <2>1. track.km = Scoring!Here /\ track.at = now /\ track \in Tracks
    BY <1>1, <1>3 DEF Tracks
  <2>2. \A t \in reports \cup {now} : ~(now < t)
    BY <1>1, <1>2 DEF Instants
  <2>. QED  BY <1>1, <2>1, <2>2 DEF LastSeen
<1>4. CASE tracked # None /\ track = [tracked EXCEPT !.seen = now] /\ ~(Scoring!Here <= tracked.km)
  <2>1. tracked \in Tracks /\ LastSeen(reports, tracked.km, tracked.at, Horizon)
    BY <1>4 DEF Scored
  <2>2. track \in Tracks /\ track.km = tracked.km /\ track.at = tracked.at
    BY <1>1, <1>4, <2>1 DEF Tracks
  <2>3. Scoring!Here > tracked.km
    BY <1>1, <1>4, <2>1 DEF Tracks
  <2>4. LastSeen(reports \cup {now}, tracked.km, tracked.at, Horizon)
    BY <1>1, <2>1, <2>3 DEF LastSeen
  <2>. QED  BY <2>2, <2>4
<1>. QED  BY <1>3, <1>4 DEF Scoring!Closest

\* What becomes of the queue when jobs are submitted, started and finished.
LEMMA SubmittedSeen ==
    ASSUME NEW S, NEW s \in Seq(S), NEW j \in S
    PROVE  s \o Scoring!Submitted(j) \in Seq(S)
<1>1. <<j>> \in Seq(S) /\ <<>> \in Seq(S)
  OBVIOUS
<1>. QED  BY <1>1 DEF Scoring!Submitted

LEMMA EvaluateScored ==
    ASSUME Scoring!ScoringAssumption, Scored, Scoring!Evaluate
    PROVE  Scored'
<1>. DEFINE old == IF alert # None /\ now - alert.at > Reset THEN None ELSE alert
            km == IF old # None /\ old.km < Scoring!Here THEN old.km ELSE Scoring!Here
            track == Scoring!Closest(Scoring!Here)
            seen == reports \cup {now}
            Made(stage) == [at |-> now, stage |-> stage, km |-> km]
<1>1. /\ now \notin reports /\ reports' = seen
      /\ UNCHANGED <<now, flight, recent, rows>>
  BY DEF Scoring!Evaluate
<1>2. Scoring!Here \in Nat /\ now \in Instants /\ Horizon \in Nat /\ reports \in SUBSET Int /\ now \in Int
      /\ \A r \in reports : r < now
  <2>1. Scoring!Here \in Nat /\ now \in Instants /\ Horizon \in Nat
    BY FlightIsRead DEF Scored, Scoring!Here, Scoring!At
  <2>. QED  BY <1>1, <2>1 DEF Scored, Instants
<1>3. km \in Nat
  <2>1. old = None \/ old \in Alerts
    BY DEF Scored
  <2>. QED  BY <1>2, <2>1 DEF Alerts
<1>4. track \in Tracks /\ LastSeen(seen, track.km, track.at, Horizon)
  BY <1>1, ClosestSeen
<1>. HIDE DEF km, track, old
<1>5. PICK predicted \in BOOLEAN :
        \/ \E outcome \in {"passed", "cancelled"} :
             /\ alert' = Made(outcome) /\ tracked' = None
             /\ work' = work \o Scoring!Submitted(Scoring!Snapshot(predicted))
                             \o Scoring!Submitted(Scoring!Outcome(outcome, km, track))
        \/ /\ tracked' = track /\ work' = work \o Scoring!Submitted(Scoring!Snapshot(predicted))
           /\ alert' \in {alert, Made("candidate"), Made("active")}
  BY DEF Scoring!Evaluate, km, track, old
<1>6. work \in Seq(JobsSeen(seen))
  <2>1. JobsSeen(reports) \subseteq JobsSeen(seen)
    BY <1>2, SeenStays
  <2>2. work \in Seq(JobsSeen(reports))
    BY DEF Scored
  <2>. QED  BY <2>1, <2>2, OfLargerSet
<1>7. Scoring!Snapshot(predicted) \in JobsSeen(seen)
  BY DEF Scoring!Snapshot, JobsSeen, Snapshots
<1>8. ASSUME NEW outcome \in {"passed", "cancelled"}
      PROVE  Scoring!Outcome(outcome, km, track) \in JobsSeen(seen)
  <2>. DEFINE j == Scoring!Outcome(outcome, km, track)
  <2>1. /\ j.end = now /\ j.closest = km /\ j.closestAt = IF Scoring!Agree(track.km, km) THEN track.at ELSE None
        /\ j \in Endings
    BY <1>2, <1>3, <1>4 DEF Scoring!Outcome, Endings, Tracks
  <2>. HIDE DEF j
  <2>2. LastSeen(seen, track.km, track.at, now)
    <3>1. \A t \in seen : t <= now => t <= Horizon
      BY <1>2 DEF Instants
    <3>. QED  BY <1>4, <3>1 DEF LastSeen
  <2>3. j.closestAt # None => SeenAbout(seen, j.closest, j.closestAt, j.end)
    BY <2>1, <2>2 DEF SeenAbout
  <2>4. j \in JobsSeen(seen)
    BY <2>1, <2>3 DEF JobsSeen
  <2>. QED  BY <2>4 DEF j
<1>9. work' \in Seq(JobsSeen(seen))
  <2>1. work \o Scoring!Submitted(Scoring!Snapshot(predicted)) \in Seq(JobsSeen(seen))
    BY <1>6, <1>7, SubmittedSeen
  <2>2. \A outcome \in {"passed", "cancelled"} :
          work \o Scoring!Submitted(Scoring!Snapshot(predicted))
               \o Scoring!Submitted(Scoring!Outcome(outcome, km, track)) \in Seq(JobsSeen(seen))
    BY <1>8, <2>1, SubmittedSeen
  <2>. QED  BY <1>5, <2>1, <2>2
<1>10. \A r \in rows : RowSeen(seen, r)
  BY <1>2, SeenStays DEF Scored
<1>11. tracked' = None \/ (tracked' \in Tracks /\ LastSeen(seen, tracked'.km, tracked'.at, Horizon))
  BY <1>4, <1>5
<1>12. alert' = None \/ alert' \in Alerts
  <2>2. alert = None \/ alert \in Alerts
    BY DEF Scored
  <2>3. \A stage \in {"candidate", "active", "passed", "cancelled"} : Made(stage) \in Alerts
    BY <1>2, <1>3 DEF Alerts
  <2>. HIDE DEF Made
  <2>. QED  BY <1>5, <2>2, <2>3
<1>13. now' \in Instants /\ seen \subseteq 0..now' /\ flight' \in Paths
  BY <1>1, <1>2 DEF Scored, Instants
<1>14. recent' \in Seq(Remembered)
  BY <1>1 DEF Scored
<1>. QED  BY <1>1, <1>9, <1>10, <1>11, <1>12, <1>13, <1>14, SameSeen DEF Scored

LEMMA LeftOut ==
    ASSUME NEW S, NEW s \in Seq(S), NEW i \in DOMAIN s
    PROVE  Scoring!RemoveAt(s, i) \in Seq(S)
<1>1. SubSeq(s, 1, i - 1) \in Seq(S) /\ SubSeq(s, i + 1, Len(s)) \in Seq(S)
  OBVIOUS
<1>. QED  BY <1>1 DEF Scoring!RemoveAt

LEMMA StartScored ==
    ASSUME Scored, Scoring!StartJob
    PROVE  Scored'
<1>1. PICK i \in DOMAIN work : work' = Scoring!RemoveAt(work, i) \/ work' = [work EXCEPT ![i].started = now]
  BY DEF Scoring!StartJob
<1>2. UNCHANGED <<now, flight, reports, alert, tracked, recent, rows>>
  BY DEF Scoring!StartJob
<1>3. work \in Seq(JobsSeen(reports)) /\ now \in Instants
  BY DEF Scored
<1>4. work[i] \in JobsSeen(reports)
  BY <1>3
<1>5. [work[i] EXCEPT !.started = now] \in JobsSeen(reports)
  <2>. DEFINE j == [work[i] EXCEPT !.started = now]
  <2>1. CASE work[i] \in Snapshots
    BY <1>3, <2>1 DEF JobsSeen, Snapshots
  <2>2. CASE work[i] \in Endings /\ work[i] \notin Snapshots
    <3>1. /\ j \in Endings /\ j.end = work[i].end /\ j.closest = work[i].closest
          /\ j.closestAt = work[i].closestAt
      BY <1>3, <2>2 DEF Endings
    <3>. QED  BY <1>4, <2>2, <3>1 DEF JobsSeen
  <2>. QED  BY <1>4, <2>1, <2>2 DEF JobsSeen
<1>6. work' \in Seq(JobsSeen(reports))
  <2>1. CASE work' = Scoring!RemoveAt(work, i)
    BY <1>3, <2>1, LeftOut
  <2>2. CASE work' = [work EXCEPT ![i].started = now]
    <3>1. work' = [work EXCEPT ![i] = [work[i] EXCEPT !.started = now]]
      BY <2>2
    <3>. QED  BY <1>3, <1>5, <3>1
  <2>. QED  BY <1>1, <2>1, <2>2
<1>. QED  BY <1>2, <1>6, SameSeen DEF Scored

LEMMA FinishScored ==
    ASSUME Scoring!ScoringAssumption, Scored, Scoring!FinishJob
    PROVE  Scored'
<1>1. PICK i \in DOMAIN work :
        /\ work[i].started # None /\ work' = Scoring!RemoveAt(work, i)
        /\ Scoring!Remember(work[i]) \/ Scoring!Score(work[i]) \/ UNCHANGED <<recent, rows>>
  BY DEF Scoring!FinishJob
<1>2. UNCHANGED <<now, flight, reports, alert, tracked>>
  BY DEF Scoring!FinishJob
<1>. DEFINE job == work[i]
<1>3. /\ work \in Seq(JobsSeen(reports)) /\ job \in JobsSeen(reports) /\ job.started \in Instants
  <2>1. work \in Seq(JobsSeen(reports))
    BY DEF Scored
  <2>2. job \in JobsSeen(reports)
    BY <2>1
  <2>. QED  BY <1>1, <2>1, <2>2 DEF JobsSeen, Snapshots, Endings
<1>4. work' \in Seq(JobsSeen(reports))
  BY <1>1, <1>3, LeftOut
<1>. HIDE DEF job
<1>5. CASE Scoring!Remember(job)
  <2>. DEFINE new == [at |-> job.started, predicted |-> job.key[1]]
  <2>1. job.key[1] \in BOOLEAN
    BY <1>3 DEF JobsSeen, Snapshots, Endings
  <2>2. new \in Remembered
    BY <1>3, <2>1 DEF Remembered
  <2>3. Append(recent, new) \in Seq(Remembered)
    BY <2>2 DEF Scored
  <2>. DEFINE more == Append(recent, new)
  <2>4. rows' = rows /\ recent' = SubSeq(more, IF Len(more) > Recent THEN 2 ELSE 1, Len(more))
    BY <1>5 DEF Scoring!Remember
  <2>. HIDE DEF more
  <2>5. \A a \in 1..2 : SubSeq(more, a, Len(more)) \in Seq(Remembered)
    BY <2>3 DEF more
  <2>6. recent' \in Seq(Remembered)
    BY <2>4, <2>5
  <2>. QED  BY <1>2, <1>4, <2>4, <2>6, SameSeen DEF Scored
<1>6. CASE Scoring!Score(job)
  <2>1. recent' = recent /\ rows' = rows \cup Scoring!Scores(job)
    BY <1>6 DEF Scoring!Score
  <2>2. ASSUME NEW r \in Scoring!Scores(job)
        PROVE  RowSeen(reports, r)
    <3>1. job.key[2] = "passed"
      BY <2>2 DEF Scoring!Scores
    <3>2. /\ job \in Endings /\ job.end \in reports
          /\ job.closestAt # None => SeenAbout(reports, job.closest, job.closestAt, job.end)
      BY <1>3, <3>1 DEF JobsSeen, Snapshots
    <3>3. PICK s \in Scoring!Range(recent) :
            r = [at |-> s.at, predicted |-> s.predicted, closest |-> job.closest, end |-> job.end,
                 eta |-> Scoring!Eta(s.at, job.closestAt)]
      BY <2>2, <3>1 DEF Scoring!Scores
    <3>4. s.at \in Instants
      <4>1. PICK n \in DOMAIN recent : s = recent[n]
        BY DEF Scoring!Range
      <4>2. recent[n] \in Remembered
        BY DEF Scored
      <4>. QED  BY <4>1, <4>2 DEF Remembered
    <3>5. r.at = s.at /\ r.closest = job.closest /\ r.end = job.end /\ r.eta = Scoring!Eta(s.at, job.closestAt)
      BY <3>3
    <3>6. r.eta # None => job.closestAt # None /\ r.at + r.eta = job.closestAt
      <4>1. job.closestAt # None => job.closestAt \in Int
        BY <3>2 DEF Endings, Instants
      <4>. QED  BY <3>4, <3>5, <4>1 DEF Scoring!Eta, Instants
    <3>. QED  BY <3>2, <3>4, <3>5, <3>6 DEF RowSeen
  <2>. QED  BY <1>2, <1>4, <2>1, <2>2, SameSeen DEF Scored
<1>7. CASE UNCHANGED <<recent, rows>>
  BY <1>2, <1>4, <1>7, SameSeen DEF Scored
<1>. QED  BY <1>1, <1>5, <1>6, <1>7 DEF job

\* The time a row is scored with leads to where the aircraft was last seen so near
\* (prediction_lab_audit.py, enqueue_outcome; shadow_evaluation_v52.py, _scoreable_truth).
THEOREM EtaWasObserved ==
    ASSUME Scoring!ScoringAssumption
    PROVE  Scoring!Spec => []Scoring!EtaIsObserved
<1>1. Scoring!Init => Scored
  <2>. SUFFICES ASSUME Scoring!Init  PROVE Scored
    OBVIOUS
  <2>1. 0 \in Instants
    BY DEF Scoring!ScoringAssumption, Instants
  <2>. QED  BY <2>1 DEF Scoring!Init, Scored
<1>2. Scored /\ [Scoring!Next]_(Scoring!vars) => Scored'
  <2>. SUFFICES ASSUME Scored, [Scoring!Next]_(Scoring!vars)
                PROVE  Scored'
    OBVIOUS
  <2>1. CASE Scoring!Forget
    <3>1. tracked' = None /\ UNCHANGED <<now, flight, reports, alert, work, recent, rows>>
      BY <2>1 DEF Scoring!Forget
    <3>. QED  BY <3>1, SameSeen DEF Scored
  <2>2. CASE Scoring!Move
    <3>1. now < Horizon /\ now' = now + 1 /\ UNCHANGED <<flight, reports, alert, tracked, work, recent, rows>>
      BY <2>2 DEF Scoring!Move
    <3>2. now' \in Instants /\ reports' \subseteq 0..now'
      BY <3>1 DEF Scored, Instants, Scoring!ScoringAssumption
    <3>. QED  BY <3>1, <3>2, SameSeen DEF Scored
  <2>3. CASE UNCHANGED Scoring!vars
    <3>1. UNCHANGED <<now, flight, reports, alert, tracked, work, recent, rows>>
      BY <2>3 DEF Scoring!vars
    <3>. QED  BY <3>1, SameSeen DEF Scored
  <2>. QED  BY <2>1, <2>2, <2>3, EvaluateScored, StartScored, FinishScored DEF Scoring!Next
<1>3. Scored => Scoring!EtaIsObserved
  <2>. SUFFICES ASSUME Scored, NEW r \in rows, r.eta # None
                PROVE  /\ (r.at + r.eta) \in reports
                       /\ Scoring!Agree(Scoring!At(r.at + r.eta), r.closest)
                       /\ \A t \in reports : t \in (r.at + r.eta + 1)..r.end =>
                            Scoring!At(t) > Scoring!At(r.at + r.eta)
    BY DEF Scoring!EtaIsObserved
  <2>1. r.end \in reports /\ SeenAbout(reports, r.closest, r.at + r.eta, r.end) /\ \A t \in reports : t \in Int
    BY DEF Scored, RowSeen
  <2>2. PICK d : LastSeen(reports, d, r.at + r.eta, r.end) /\ Scoring!Agree(d, r.closest)
    BY <2>1 DEF SeenAbout
  <2>. QED  BY <2>1, <2>2 DEF LastSeen
<1>. QED  BY <1>1, <1>2, <1>3, PTL DEF Scoring!Spec

-----------------------------------------------------------------------------
(* The optional AI: the inductive invariant.                                *)

\* This key of the model at that place of the ladder.
KeyAt(i, p) == i \in Int /\ Ladder[i] = p[1] /\ \E k \in DOMAIN KeysOf[p[1]] : KeysOf[p[1]][k] = p[2]
\* A question that has these places and keys left will come to the pair.
Ahead(left, p) ==
  \E i \in left.models :
    /\ KeyAt(i, p)
    /\ i = Optional!First(left.models) => \E k \in left.keys : KeysOf[p[1]][k] = p[2]
StillAble(p) == p[1] \notin down /\ p[2] \notin refused /\ p[2] \notin cooling

Reachable ==
  /\ DOMAIN ask = Questions /\ DOMAIN able = Questions
  /\ \A q \in Questions :
       /\ \A p \in able[q] : StillAble(p)
       /\ ask[q].at = "asking" => \A p \in able[q] : Ahead(ask[q], p)
       /\ ask[q].at = "failed" => able[q] = {}

\* Entering the models that are left passes over none that has a key for these pairs.
LEMMA EnterReaches ==
    ASSUME NEW q \in Questions, DOMAIN ask = Questions, NEW models, NEW cool, NEW resting,
           Optional!Enter(q, models, cool, resting),
           NEW pairs, \A p \in pairs : p[2] \notin cool /\ \E i \in models : i \in Int /\ KeyAt(i, p)
    PROVE  /\ DOMAIN ask' = Questions /\ \A c \in Questions \ {q} : ask'[c] = ask[c]
           /\ ask'[q].at = "asking" => \A p \in pairs : Ahead(ask'[q], p)
           /\ ask'[q].at = "failed" => pairs = {}
           /\ ask'[q].at \in {"asking", "failed"}
<1>. DEFINE left == {i \in models : \E j \in models : j <= i /\ Optional!Candidates(Ladder[j], cool) # {}}
            model == Ladder[Optional!First(left)]
            on == [at |-> "asking", models |-> left, keys |-> Optional!Candidates(model, cool),
                   start |-> cursor'[model]]
<1>1. ask' = [ask EXCEPT ![q] = IF left = {} THEN [at |-> "failed"] ELSE on]
  BY DEF Optional!Enter
<1>2. ASSUME NEW p \in pairs
      PROVE  \E i \in left : KeyAt(i, p) /\ (i = Optional!First(left) =>
               \E k \in Optional!Candidates(model, cool) : KeysOf[p[1]][k] = p[2])
  <2>1. PICK i \in models : i \in Int /\ KeyAt(i, p)
    BY <1>2
  <2>2. PICK k \in DOMAIN KeysOf[p[1]] : KeysOf[p[1]][k] = p[2]
    BY <2>1 DEF KeyAt
  <2>3. k \in Optional!Candidates(p[1], cool)
    BY <1>2, <2>2 DEF Optional!Candidates
  <2>4. i \in left
    <3>1. i <= i
      BY <2>1
    <3>2. Optional!Candidates(Ladder[i], cool) # {}
      BY <2>1, <2>3 DEF KeyAt
    <3>. QED  BY <3>1, <3>2
  <2>5. i = Optional!First(left) => model = p[1]
    BY <2>1 DEF KeyAt
  <2>. QED  BY <2>1, <2>2, <2>3, <2>4, <2>5
<1>. HIDE DEF left, model
<1>3. on.at = "asking" /\ on.models = left /\ on.keys = Optional!Candidates(model, cool)
  OBVIOUS
<1>4. \A p \in pairs : Ahead(on, p)
  BY <1>2, <1>3 DEF Ahead
<1>5. left = {} => pairs = {}
  BY <1>2
<1>. HIDE DEF on
<1>6. [at |-> "failed"].at = "failed"
  OBVIOUS
<1>. QED  BY <1>1, <1>3, <1>4, <1>5, <1>6

LEMMA AskReaches ==
    ASSUME Optional!CascadeAssumption, Reachable, NEW q \in Questions, Optional!Ask(q)
    PROVE  Reachable'
<1>. DEFINE pairs == {p \in Optional!Models \X Optional!Keys :
                 /\ p[1] \notin down /\ p[2] \in Optional!Range(KeysOf[p[1]]) \ (refused \cup cooling)
                 /\ kind = "photo" \/ p[1] \notin rested}
<1>1. /\ Optional!Enter(q, Optional!Available, cooling, rested)
      /\ able' = [able EXCEPT ![q] = pairs]
      /\ UNCHANGED <<down, refused, cooling>>
  BY DEF Optional!Ask
<1>2. ASSUME NEW p \in pairs
      PROVE  StillAble(p) /\ \E i \in Optional!Available : i \in Int /\ KeyAt(i, p)
  <2>1. PICK i \in DOMAIN Ladder : Ladder[i] = p[1]
    BY <1>2 DEF Optional!Models, Optional!Range
  <2>2. PICK k \in DOMAIN KeysOf[p[1]] : KeysOf[p[1]][k] = p[2]
    BY <1>2 DEF Optional!Range
  <2>3. p[2] \notin cooling /\ StillAble(p)
    BY <1>2 DEF StillAble
  <2>4. k \in Optional!Candidates(Ladder[i], cooling)
    BY <2>1, <2>2, <2>3 DEF Optional!Candidates
  <2>5. i \in Optional!Available
    BY <1>2, <2>1, <2>4 DEF Optional!Available
  <2>6. i \in Int
    BY DEF Optional!CascadeAssumption
  <2>. QED  BY <2>1, <2>2, <2>3, <2>5, <2>6 DEF KeyAt
<1>. HIDE DEF pairs
<1>3. /\ DOMAIN ask' = Questions /\ \A c \in Questions \ {q} : ask'[c] = ask[c]
      /\ ask'[q].at = "asking" => \A p \in pairs : Ahead(ask'[q], p)
      /\ ask'[q].at = "failed" => pairs = {}
  <2>1. \A p \in pairs : p[2] \notin cooling /\ \E i \in Optional!Available : i \in Int /\ KeyAt(i, p)
    BY <1>2 DEF StillAble
  <2>. QED  BY <1>1, <2>1, EnterReaches DEF Reachable
<1>4. DOMAIN able' = Questions /\ able'[q] = pairs /\ \A c \in Questions \ {q} : able'[c] = able[c]
  BY <1>1 DEF Reachable
<1>5. \A p : StillAble(p)' <=> StillAble(p)
  BY <1>1 DEF StillAble
<1>6. ASSUME NEW c \in Questions
      PROVE  /\ \A p \in able'[c] : StillAble(p)'
             /\ ask'[c].at = "asking" => \A p \in able'[c] : Ahead(ask'[c], p)
             /\ ask'[c].at = "failed" => able'[c] = {}
  <2>1. CASE c = q
    BY <1>2, <1>3, <1>4, <1>5, <2>1
  <2>2. CASE c # q
    BY <1>3, <1>4, <1>5, <2>2 DEF Reachable
  <2>. QED  BY <2>1, <2>2
<1>. QED  BY <1>3, <1>4, <1>6 DEF Reachable

\* A question that goes on to the other models: the pairs that are still able to
\* answer it are not of the model it leaves.
LEMMA MoveOnReaches ==
    ASSUME Optional!CascadeAssumption, Reachable, NEW q \in Questions, ask[q].at = "asking",
           NEW resting, Optional!Enter(q, Optional!Others(q), cooling', resting),
           DOMAIN able' = Questions, \A c \in Questions : able'[c] \subseteq able[c],
           \A c \in Questions : \A p \in able'[c] : StillAble(p)',
           \A p \in able'[q] : \E i \in Optional!Others(q) : i \in Int /\ KeyAt(i, p)
    PROVE  Reachable'
<1>1. \A p \in able'[q] : p[2] \notin cooling'
  BY DEF StillAble
<1>2. /\ DOMAIN ask' = Questions /\ \A c \in Questions \ {q} : ask'[c] = ask[c]
      /\ ask'[q].at = "asking" => \A p \in able'[q] : Ahead(ask'[q], p)
      /\ ask'[q].at = "failed" => able'[q] = {}
  BY <1>1, EnterReaches DEF Reachable
<1>3. ASSUME NEW c \in Questions
      PROVE  /\ ask'[c].at = "asking" => \A p \in able'[c] : Ahead(ask'[c], p)
             /\ ask'[c].at = "failed" => able'[c] = {}
  <2>1. CASE c = q
    BY <1>2, <2>1
  <2>2. CASE c # q
    BY <1>2, <2>2 DEF Reachable
  <2>. QED  BY <2>1, <2>2
<1>. QED  BY <1>2, <1>3 DEF Reachable

\* Places of the ladder are numbers.
LEMMA PairsAhead ==
    ASSUME Optional!CascadeAssumption, Reachable, NEW q \in Questions, ask[q].at = "asking",
           NEW p \in able[q]
    PROVE  StillAble(p) /\ Ahead(ask[q], p)
  BY DEF Reachable

LEMMA RefusedReaches ==
    ASSUME Optional!CascadeAssumption, Reachable, NEW q \in Questions, Optional!Refused(q)
    PROVE  Reachable'
<1>. DEFINE first == Optional!First(ask[q].models)
<1>1. /\ ask[q].at = "asking" /\ cooling' = cooling \cup {Optional!Key(q)}
      /\ able' = [c \in Questions |-> {p \in able[c] : p[2] \notin cooling'}]
      /\ UNCHANGED <<down, refused>>
      /\ \/ /\ ask[q].keys # {Optional!Place(q)}
            /\ ask' = [ask EXCEPT ![q].keys = @ \ {Optional!Place(q)}]
         \/ /\ ask[q].keys = {Optional!Place(q)}
            /\ Optional!Enter(q, Optional!Others(q), cooling', Optional!Rests(q))
  BY DEF Optional!Refused
<1>2. /\ DOMAIN able' = Questions
      /\ \A c \in Questions : able'[c] \subseteq able[c] /\ \A p \in able'[c] : StillAble(p)'
  BY <1>1 DEF Reachable, StillAble
<1>3. ASSUME NEW p \in able'[q], NEW k \in ask[q].keys, KeyAt(first, p), KeysOf[p[1]][k] = p[2]
      PROVE  k # Optional!Place(q)
  <2>1. p[2] # Optional!Key(q)
    BY <1>1, <1>3
  <2>. QED  BY <1>3, <2>1 DEF KeyAt, Optional!Key, Optional!Model
<1>4. CASE ask[q].keys # {Optional!Place(q)} /\ ask' = [ask EXCEPT ![q].keys = @ \ {Optional!Place(q)}]
  <2>. DEFINE on == [ask[q] EXCEPT !.keys = @ \ {Optional!Place(q)}]
  <2>1. DOMAIN ask' = Questions /\ ask'[q] = on /\ \A c \in Questions \ {q} : ask'[c] = ask[c]
    BY <1>4 DEF Reachable
  <2>2. on.at = ask[q].at /\ on.models = ask[q].models /\ on.keys = ask[q].keys \ {Optional!Place(q)}
    OBVIOUS
  <2>. HIDE DEF on
  <2>3. ASSUME NEW p \in able'[q]
        PROVE  Ahead(on, p)
    <3>1. Ahead(ask[q], p)
      BY <1>1, <1>2, PairsAhead
    <3>2. PICK i \in ask[q].models : KeyAt(i, p) /\ (i = first => \E k \in ask[q].keys : KeysOf[p[1]][k] = p[2])
      BY <3>1 DEF Ahead
    <3>3. i = first => \E k \in on.keys : KeysOf[p[1]][k] = p[2]
      BY <1>3, <2>2, <3>2
    <3>. QED  BY <2>2, <3>2, <3>3 DEF Ahead
  <2>4. ASSUME NEW c \in Questions
        PROVE  /\ ask'[c].at = "asking" => \A p \in able'[c] : Ahead(ask'[c], p)
               /\ ask'[c].at = "failed" => able'[c] = {}
    <3>1. CASE c = q
      BY <1>1, <2>1, <2>2, <2>3, <3>1
    <3>2. CASE c # q
      BY <1>2, <2>1, <3>2 DEF Reachable
    <3>. QED  BY <3>1, <3>2
  <2>. QED  BY <1>2, <2>1, <2>4 DEF Reachable
<1>5. CASE /\ ask[q].keys = {Optional!Place(q)}
           /\ Optional!Enter(q, Optional!Others(q), cooling', Optional!Rests(q))
  <2>1. ASSUME NEW p \in able'[q]
        PROVE  \E i \in Optional!Others(q) : i \in Int /\ KeyAt(i, p)
    <3>1. Ahead(ask[q], p)
      BY <1>1, <1>2, PairsAhead
    <3>2. PICK i \in ask[q].models : KeyAt(i, p) /\ (i = first => \E k \in ask[q].keys : KeysOf[p[1]][k] = p[2])
      BY <3>1 DEF Ahead
    <3>3. i # first
      BY <1>3, <1>5, <3>2
    <3>. QED  BY <3>2, <3>3 DEF Optional!Others, KeyAt
  <2>. QED  BY <1>1, <1>2, <1>5, <2>1, MoveOnReaches
<1>. QED  BY <1>1, <1>4, <1>5

LEMMA UnusableReaches ==
    ASSUME Optional!CascadeAssumption, Reachable, NEW q \in Questions, Optional!Unusable(q)
    PROVE  Reachable'
<1>1. /\ ask[q].at = "asking" /\ Optional!Model(q) \in down /\ cooling' \subseteq cooling
      /\ Optional!Enter(q, Optional!Others(q), cooling', Optional!Rests(q))
      /\ UNCHANGED <<down, refused, able>>
  BY DEF Optional!Unusable
<1>2. /\ DOMAIN able' = Questions
      /\ \A c \in Questions : able'[c] \subseteq able[c] /\ \A p \in able'[c] : StillAble(p)'
  BY <1>1 DEF Reachable, StillAble
<1>3. ASSUME NEW p \in able'[q]
      PROVE  \E i \in Optional!Others(q) : i \in Int /\ KeyAt(i, p)
  <2>1. Ahead(ask[q], p) /\ StillAble(p)
    BY <1>1, <1>2, PairsAhead
  <2>2. PICK i \in ask[q].models : KeyAt(i, p)
    BY <2>1 DEF Ahead
  <2>3. i # Optional!First(ask[q].models)
    BY <1>1, <2>1, <2>2 DEF StillAble, KeyAt, Optional!Model
  <2>. QED  BY <2>2, <2>3 DEF Optional!Others, KeyAt
<1>. QED  BY <1>1, <1>2, <1>3, MoveOnReaches

\* Pairs only drop out, and what a question has left stays.
LEMMA RestReaches ==
    ASSUME Reachable, DOMAIN able' = Questions,
           \A c \in Questions : able'[c] \subseteq able[c] /\ \A p \in able'[c] : StillAble(p)',
           DOMAIN ask' = Questions, \A c \in Questions : ask'[c] = ask[c] \/ ask'[c].at = "answered"
    PROVE  Reachable'
<1>1. ASSUME NEW c \in Questions
      PROVE  /\ ask'[c].at = "asking" => \A p \in able'[c] : Ahead(ask'[c], p)
             /\ ask'[c].at = "failed" => able'[c] = {}
  BY DEF Reachable
<1>. QED  BY <1>1 DEF Reachable

\* A question fails only when no model and key could have answered it all along
\* (app/aircraft/ai_judge.py, _call_ai; app/ai_keys.py, candidates).
THEOREM FailsForAReason ==
    ASSUME Optional!CascadeAssumption
    PROVE  Optional!Spec => []Optional!FailsOnlyWhenNoneCould
<1>1. Optional!Init => Reachable
  BY DEF Optional!Init, Optional!Idle, Reachable
<1>2. Reachable /\ [Optional!Next]_(Optional!vars) => Reachable'
  <2>. SUFFICES ASSUME Reachable, [Optional!Next]_(Optional!vars)
                PROVE  Reachable'
    OBVIOUS
  <2>1. ASSUME NEW q \in Questions, Optional!Answered(q)
        PROVE  Reachable'
    <3>1. /\ cooling' \subseteq cooling /\ ask' = [ask EXCEPT ![q] = [at |-> "answered"]]
          /\ UNCHANGED <<down, refused, able>>
      BY <2>1 DEF Optional!Answered
    <3>2. DOMAIN ask' = Questions /\ \A c \in Questions : ask'[c] = ask[c] \/ ask'[c].at = "answered"
      BY <3>1 DEF Reachable
    <3>3. DOMAIN able' = Questions /\ \A c \in Questions : able'[c] \subseteq able[c] /\ \A p \in able'[c] : StillAble(p)'
      BY <3>1 DEF Reachable, StillAble
    <3>. QED  BY <3>2, <3>3, RestReaches
  <2>2. CASE Optional!ModelBack \/ Optional!KeyBack \/ UNCHANGED Optional!vars
    <3>1. cooling' \subseteq cooling /\ UNCHANGED <<down, refused, ask, able>>
      BY <2>2 DEF Optional!ModelBack, Optional!KeyBack, Optional!vars
    <3>2. DOMAIN able' = Questions /\ \A c \in Questions : able'[c] \subseteq able[c] /\ \A p \in able'[c] : StillAble(p)'
      BY <3>1 DEF Reachable, StillAble
    <3>. QED  BY <3>1, <3>2, RestReaches DEF Reachable
  <2>3. CASE Optional!Turn
    <3>1. /\ able' = [q \in Questions |-> {p \in able[q] : p[1] \notin down' /\ p[2] \notin refused'}]
          /\ UNCHANGED <<cooling, ask>>
      BY <2>3 DEF Optional!Turn
    <3>2. DOMAIN able' = Questions /\ \A c \in Questions : able'[c] \subseteq able[c] /\ \A p \in able'[c] : StillAble(p)'
      BY <3>1 DEF Reachable, StillAble
    <3>. QED  BY <3>1, <3>2, RestReaches DEF Reachable
  <2>. QED  BY <2>1, <2>2, <2>3, AskReaches, RefusedReaches, UnusableReaches DEF Optional!Next
<1>3. Reachable => Optional!FailsOnlyWhenNoneCould
  BY DEF Reachable, Optional!FailsOnlyWhenNoneCould
<1>. QED  BY <1>1, <1>2, <1>3, PTL DEF Optional!Spec
=============================================================================
