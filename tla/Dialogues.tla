------------------------------ MODULE Dialogues ------------------------------
(***************************************************************************)
(* The conversation of one user with the bot: the menus that edit profiles  *)
(* (app/bot/profile_handlers.py, profile_legacy.py, profile_experience_v54) *)
(* and, behind them, the handlers of earlier releases (app/bot/handlers.py, *)
(* app/photography/telegram.py).                                            *)
(*                                                                          *)
(* Updates are handled one at a time; but the buttons of every message ever *)
(* sent can still be pressed, whatever the conversation is about by then.   *)
(* The conversation is stored in the database.  The profile menus read it   *)
(* through a cache of five minutes that they also write; the older handlers *)
(* know nothing of the cache.                                               *)
(*                                                                          *)
(* A handler that changes a profile writes the profile first and ends the   *)
(* conversation last; each of these writes is a step, any of them may fail  *)
(* or be the last one before a restart, and what follows it is then not     *)
(* done.  A handler that only reads and writes the conversation is a step,  *)
(* and one whose first call fails is none.                                  *)
(***************************************************************************)
EXTENDS Naturals, FiniteSets

CONSTANTS
  None,
  MaxProfiles,  \* bound: profiles ever made
  MaxVersion,   \* bound: changes of one profile
  MaxSessions   \* bound: preset drafts begun

\* Of the bounds; an instance assumes it.
DialogueAssumption == {MaxProfiles, MaxVersion, MaxSessions} \subseteq Nat /\ MaxProfiles # 0

VARIABLES
  profiles,   \* the profiles, by id; ids in the order of creation
  made,       \* how many were ever made
  active,     \* users.active_profile_id
  stored,     \* the conversation in the database
  cached,     \* the conversation in the cache, None when there is none
  sessions,   \* preset drafts that were given a session
  pending,    \* what the handler at work has yet to do, "nothing" between updates
  uses,       \* history: profiles made of the draft in hand
  failed      \* history: saves that failed half-way since it was begun

user == <<profiles, made, active>>
vars == <<user, stored, cached, sessions, pending, uses, failed>>

(* Of a configuration all that matters is whether it may be saved: it has a *)
(* location, a radius, a selection, and limits of altitude that do not      *)
(* conflict.                                                                *)
Profile == [whole : BOOLEAN, version : 0..MaxVersion]

\* Menu: of the profile, the aircraft or a rule, none of which asks for an answer.
\* Question: for a radius or a search.  Elsewhere: a question of an older handler.
States == {"idle", "name", "location", "question", "menu", "ruleInput", "rename",
           "quickLocation", "review", "presetLocation", "presetRadius", "elsewhere"}
OfProfiles == {"name", "location", "question", "menu", "ruleInput", "rename", "quickLocation"}

Conversation ==
  [at : States, flow : {"none", "create", "edit", "setup"}, preset : BOOLEAN,
   target : 0..MaxProfiles,        \* the profile to save or rename, 0: none
   draft : BOOLEAN \cup {None},    \* whether the draft is whole
   base : 0..MaxVersion,           \* history: the version the draft is a copy of
   session : 0..MaxSessions]
Silence ==
  [at |-> "idle", flow |-> "none", preset |-> FALSE, target |-> 0, draft |-> None, base |-> 0,
   session |-> 0]

TypeOK ==
  /\ DOMAIN profiles \in SUBSET (1..MaxProfiles) /\ made \in 1..MaxProfiles
  /\ \A p \in DOMAIN profiles : profiles[p] \in Profile
  /\ active \in DOMAIN profiles
  /\ stored \in Conversation /\ cached \in Conversation \cup {None}
  /\ sessions \in 0..MaxSessions /\ uses \in Nat /\ failed \in Nat
  /\ pending \in {"nothing", "activate", "setup", "end", "leave"}

-----------------------------------------------------------------------------
(* What the profile menus believe the conversation to be.                   *)
View == IF cached = None THEN stored ELSE cached

(* The profile menus write the database, then the cache.                    *)
Say(c) == stored' = c /\ cached' = c
(* The older handlers write the database.                                   *)
SayDirectly(c) == stored' = c /\ UNCHANGED cached
(* A menu that only read leaves what it read in the cache.                  *)
Listen == cached' = View /\ UNCHANGED stored
Hush == Say(Silence)

Begun == uses' = 0 /\ failed' = 0 /\ UNCHANGED pending
Unused == UNCHANGED <<uses, failed, sessions>>
Untouched == Unused /\ UNCHANGED <<user, pending>>

(* What a handler does next.                                                *)
Then(what) == pending' = what

\* The profile is given another configuration.
Rewritten(p, ok) ==
  /\ profiles[p].version < MaxVersion
  /\ profiles' = [profiles EXCEPT ![p] = [whole |-> ok, version |-> @.version + 1]]
Added(ok) ==
  /\ made < MaxProfiles /\ made' = made + 1
  /\ profiles' = [p \in DOMAIN profiles \cup {made + 1} |->
                    IF p = made + 1 THEN [whole |-> ok, version |-> 0] ELSE profiles[p]]
Copied(p, at, flow) ==
  [Silence EXCEPT !.at = at, !.flow = flow, !.target = p, !.draft = profiles[p].whole,
                  !.base = profiles[p].version]
Drafted(c, at, ok) == [c EXCEPT !.at = at, !.draft = ok]

-----------------------------------------------------------------------------
(* Commands and buttons that begin something.                               *)

(* /profiles, /setup, and the buttons that show the profiles or one of them. *)
Home == Hush /\ Untouched

(* /preferences and Edit.                                                   *)
Edit(p) ==
  IF p \in DOMAIN profiles
  THEN Say(Copied(p, "menu", "edit")) /\ Begun /\ UNCHANGED <<user, sessions>>
  ELSE Hush /\ Untouched

Create ==
  /\ Say([Silence EXCEPT !.at = "name", !.flow = "create", !.draft = FALSE])
  /\ Begun /\ UNCHANGED <<user, sessions>>

(* The terms are accepted: the first profile is set up, from a blank one.   *)
SetUp ==
  /\ Say([Copied(active, "location", "setup") EXCEPT !.draft = FALSE])
  /\ Begun /\ UNCHANGED <<user, sessions>>

(* /location asks for the place of the active profile.                      *)
Relocate ==
  /\ Say(Copied(active, "quickLocation", "none"))
  /\ Begun /\ UNCHANGED <<user, sessions>>

Rename(p) ==
  /\ IF p \in DOMAIN profiles THEN Say([Silence EXCEPT !.at = "rename", !.target = p]) ELSE Hush
  /\ Untouched

-----------------------------------------------------------------------------
(* Presets.                                                                 *)

(* A preset brings everything but a place, which it takes from the profile. *)
Preset(p) == IF profiles[p].whole THEN {TRUE} ELSE BOOLEAN

Bound(c) == IF c.preset /\ c.flow = "create" /\ c.session = 0
            THEN [c EXCEPT !.at = "review", !.session = sessions + 1]
            ELSE [c EXCEPT !.at = "review"]
Reviewed(c) ==
  /\ Bound(c).session <= MaxSessions
  /\ Say(Bound(c)) /\ sessions' = IF Bound(c).session > sessions THEN sessions + 1 ELSE sessions

PickPreset ==
  /\ \E ok \in Preset(active) :
       Reviewed([Silence EXCEPT !.flow = "create", !.preset = TRUE, !.draft = ok])
  /\ Begun /\ UNCHANGED user

\* Mutant: the draft in hand outlives the change of its profile.
ApplyInPlace(p) ==
  /\ p \in DOMAIN profiles /\ \E ok \in Preset(p) : Rewritten(p, ok)
  /\ UNCHANGED <<made, active, stored, cached, pending>> /\ Unused

ApplyPreset(p) ==
  IF p \in DOMAIN profiles
  THEN /\ \E ok \in Preset(p) : Rewritten(p, ok)
       /\ Then("end") /\ UNCHANGED <<made, active, stored, cached>> /\ Unused
  ELSE Hush /\ Untouched

(* Review, and Done in the aircraft menu of a preset.                       *)
Review == Reviewed(View) /\ UNCHANGED <<user, uses, failed, pending>>

PresetAsks(at) ==
  /\ IF View.preset THEN Say([View EXCEPT !.at = at]) ELSE Hush
  /\ Untouched

(* The Save button of session s; those of sessions that are over do nothing. *)
Saves(s) ==
  /\ View.at = "review" /\ View.preset /\ View.flow = "create"
  /\ s # 0 /\ s = View.session

(* create_profile inserts the profile.  It is activated, setup_complete is  *)
(* set and the draft is ended by the steps that follow.                     *)
SavedAsNew ==
  /\ Added(View.draft) /\ uses' = uses + 1 /\ Listen /\ Then("activate")
  /\ UNCHANGED <<active, failed, sessions>>

SavePreset(s) ==
  IF Saves(s) /\ View.draft = TRUE THEN SavedAsNew ELSE Listen /\ Untouched

-----------------------------------------------------------------------------
(* Nested menus.  Without a draft they have expired.                        *)

Nested(A) == IF View.draft = None THEN Hush /\ Untouched ELSE A

SaveNew == Nested(IF View.draft = TRUE THEN SavedAsNew ELSE Listen /\ Untouched)

(* A draft for no profile, or for one that is gone, is given up.  A setup   *)
(* sets setup_complete before the draft is ended.                           *)
SaveEdit ==
  Nested(
    IF View.draft = FALSE THEN Listen /\ Untouched
    ELSE IF View.target \notin DOMAIN profiles THEN Hush /\ Untouched
    ELSE /\ Rewritten(View.target, TRUE) /\ Listen
         /\ Then(IF View.flow = "setup" THEN "setup" ELSE "end")
         /\ UNCHANGED <<made, active>> /\ Unused)

(* Use Active Location, of a profile that has one.                          *)
UseLocation ==
  Nested(/\ \E ok \in {View.draft, TRUE} : Say(Drafted(View, "question", ok)) \/ Listen
         /\ Untouched)

(* The selection of categories and types, All Aircraft.                     *)
Choose ==
  Nested(/\ \E at \in {"menu", "question"}, ok \in BOOLEAN : Say(Drafted(View, at, ok))
         /\ Untouched)

(* Search, the questions for a location and a radius, the menu of a rule.   *)
Ask(at) == Nested(Say([View EXCEPT !.at = at]) /\ Untouched)

(* A field of the rule: asked for, or changed at once; the menu is over when *)
(* no rule was opened, which is left open here.                             *)
RuleField ==
  Nested(/\ Untouched
         /\ \/ Say([View EXCEPT !.at = "ruleInput"])
            \/ \E ok \in {View.draft, TRUE} : Say(Drafted(View, "menu", ok))
            \/ Hush)

(* Advanced, Back and Done show a menu of what is in hand.                  *)
Look == Nested(Listen /\ Untouched)
GiveUp == Nested(Hush /\ Untouched)

-----------------------------------------------------------------------------
(* Buttons on a profile.                                                    *)
Activate(p) ==
  IF p \in DOMAIN profiles
  THEN active' = p /\ Then("leave") /\ UNCHANGED <<profiles, made, stored, cached>> /\ Unused
  ELSE Hush /\ Untouched

Duplicate(p) ==
  IF p \in DOMAIN profiles
  THEN Added(profiles[p].whole) /\ UNCHANGED <<active, stored, cached, pending>> /\ Unused
  ELSE Hush /\ Untouched

\* Mutant: the profile that is deleted stays the active one.
DeleteActive(p) ==
  IF p \in DOMAIN profiles /\ DOMAIN profiles # {p}
  THEN /\ profiles' = [q \in DOMAIN profiles \ {p} |-> profiles[q]]
       /\ Then("leave") /\ UNCHANGED <<made, active, stored, cached>> /\ Unused
  ELSE Hush /\ Untouched

(* The last profile stays; another one takes the place of an active one.    *)
Delete(p) ==
  IF p \in DOMAIN profiles /\ DOMAIN profiles # {p}
  THEN /\ profiles' = [q \in DOMAIN profiles \ {p} |-> profiles[q]]
       /\ active' = IF active = p
                    THEN CHOOSE q \in DOMAIN profiles' : \A r \in DOMAIN profiles' : q <= r
                    ELSE active
       /\ Then("leave") /\ UNCHANGED <<made, stored, cached>> /\ Unused
  ELSE Hush /\ Untouched

-----------------------------------------------------------------------------
(* Messages.  What the profile menus do not take goes on to the others.     *)
(* Whether an answer leads back to a menu or on, as the question was asked  *)
(* from, is left open.                                                      *)

AnsweredPreset ==
  /\ View.preset /\ \E ok \in {View.draft, TRUE} : Reviewed(Drafted(View, "review", ok))
  /\ UNCHANGED <<user, uses, failed, pending>>

(* A radius, or a search; a code the catalogue does not know is added.      *)
Answered ==
  /\ View.at = "question" /\ Untouched
  /\ \E ok \in {View.draft, TRUE} : Say(Drafted(View, "menu", ok))

TextTaken ==
  \/ View.at = "presetRadius" /\ AnsweredPreset
  \/ /\ View.at = "name" /\ Say([View EXCEPT !.at = "location"]) /\ Untouched
  \/ Answered
  \/ /\ View.at = "ruleInput" /\ Untouched
     /\ \E ok \in BOOLEAN : Say(Drafted(View, "menu", ok))
  \/ /\ View.at = "rename" /\ View.target \in DOMAIN profiles
     /\ Listen /\ Then("leave") /\ Unused /\ UNCHANGED user
  \/ View.at \in OfProfiles /\ Listen /\ Untouched  \* a value that is refused, a hint

(* The answer to /location is saved at once.                                *)
Relocated ==
  /\ View.at = "quickLocation" /\ View.target \in DOMAIN profiles
  /\ \E ok \in {View.draft, TRUE} : Rewritten(View.target, ok)
  /\ Listen /\ Then("end") /\ Unused /\ UNCHANGED <<made, active>>

LocationTaken ==
  \/ View.at = "presetLocation" /\ AnsweredPreset
  \/ Relocated
  \/ /\ View.at = "location" /\ Untouched
     /\ \E at \in {"menu", "question"}, ok \in {View.draft, TRUE} : Say(Drafted(View, at, ok))

(* on_text and _photo_text_router: an answer may end the question.          *)
TextLeft ==
  /\ View.at \notin OfProfiles /\ ~(View.at = "presetRadius" /\ View.preset) /\ Untouched
  /\ cached' = View
  /\ stored' \in {stored} \cup
       (IF stored.at = "elsewhere" THEN {Silence, [Silence EXCEPT !.at = "elsewhere"]} ELSE {})

(* on_location writes the copy the monitor reads and ends the question.     *)
LocationLeft ==
  /\ View.at # "location" /\ ~(View.at = "presetLocation" /\ View.preset)
  /\ ~(View.at = "quickLocation" /\ View.target \in DOMAIN profiles) /\ Untouched
  /\ cached' = View
  /\ stored' = IF stored.at = "elsewhere" THEN Silence ELSE stored

-----------------------------------------------------------------------------
(* The handlers that know nothing of the cache.                             *)

\* /start, and the old menu for other codes: the draft stays where it is.
Start == SayDirectly([stored EXCEPT !.at = "elsewhere"]) /\ Untouched
OldCodes == Start
\* /camera, /lens and /photo, and the old menu of categories: it does not.
AskCamera == SayDirectly([Silence EXCEPT !.at = "elsewhere"]) /\ Untouched
OldSkip == AskCamera
\* /cancel, and Done in the old menu.
Cancel == SayDirectly(Silence) /\ Untouched
OldDone == Cancel

-----------------------------------------------------------------------------
(* The rest of a handler that changed a profile.                            *)

(* activate_profile for the profile that was made.                          *)
Activated ==
  /\ pending = "activate" /\ active' = made /\ Then("setup")
  /\ UNCHANGED <<profiles, made, stored, cached>> /\ Unused

(* setup_complete is set.                                                   *)
Monitored ==
  /\ pending = "setup" /\ Then("end") /\ UNCHANGED <<user, stored, cached>> /\ Unused

\* Mutant: the draft that was saved stays in hand.
EndKept ==
  /\ pending \in {"end", "leave"} /\ Then("nothing")
  /\ UNCHANGED <<user, stored, cached>> /\ Unused

Ended ==
  /\ pending \in {"end", "leave"} /\ Then("nothing") /\ Hush
  /\ UNCHANGED user /\ Unused

(* The call that is due fails, with or without effect, or the process dies  *)
(* before or after it.  What is not done by then is never done, and what    *)
(* the cache holds is what the handler read.                                *)
Interrupted ==
  /\ pending # "nothing" /\ Then("nothing")
  /\ failed' = IF pending = "leave" THEN failed ELSE failed + 1
  /\ active' \in {active} \cup (IF pending = "activate" THEN {made} ELSE {})
  /\ stored' \in {stored} \cup (IF pending \in {"end", "leave"} THEN {Silence} ELSE {})
  /\ UNCHANGED <<profiles, made, cached, uses, sessions>>

(* Five minutes pass, or the process restarts.                              *)
Forget == cached # None /\ cached' = None /\ UNCHANGED stored /\ Untouched

-----------------------------------------------------------------------------
Init ==
  /\ \E ok \in BOOLEAN : profiles = [p \in {1} |-> [whole |-> ok, version |-> 0]]
  /\ made = 1 /\ active = 1
  /\ stored = Silence /\ cached = None /\ sessions = 0
  /\ pending = "nothing" /\ uses = 0 /\ failed = 0

Pressed ==
  \/ Home \/ Create \/ SetUp \/ Relocate \/ PickPreset \/ Review
  \/ \E p \in 1..made :
       Edit(p) \/ Rename(p) \/ ApplyPreset(p) \/ Activate(p) \/ Duplicate(p) \/ Delete(p)
  \/ \E at \in {"presetLocation", "presetRadius", "menu"} : PresetAsks(at)
  \/ \E s \in 0..sessions : SavePreset(s)
  \/ SaveNew \/ SaveEdit \/ UseLocation \/ Choose \/ RuleField \/ Look \/ GiveUp
  \/ \E at \in {"question", "location", "menu"} : Ask(at)
Message == TextTaken \/ LocationTaken \/ TextLeft \/ LocationLeft

Older == Start \/ OldCodes \/ AskCamera \/ OldSkip \/ Cancel \/ OldDone
Next ==
  \/ pending = "nothing" /\ (Pressed \/ Message \/ Older \/ Forget)
  \/ Activated \/ Monitored \/ Ended \/ Interrupted

Spec == Init /\ [][Next]_vars

-----------------------------------------------------------------------------
(* Between updates a draft that may still be saved to a profile is a copy   *)
(* of what the profile is now: whatever old button is pressed in between,   *)
(* saving undoes no change made since.  So it is until a handler fails      *)
(* after it changed a profile and before it ended the conversation: the     *)
(* draft is then left behind in hand (_save_edit, callback_v54).            *)
DraftIsCurrent ==
  pending = "nothing" /\ failed = 0 =>
    \A c \in {stored, View} :
      c.draft # None /\ c.target \in DOMAIN profiles => c.base = profiles[c.target].version

(* A draft becomes a profile once, by whatever Save buttons, old and new,   *)
(* it is saved, and once more for every save that failed after the profile  *)
(* was made: such a save leaves the draft and its button (_save_new,        *)
(* callback_bound).                                                         *)
OneProfilePerDraft == uses <= 1 + failed
DraftsAreSafe == DraftIsCurrent /\ OneProfilePerDraft
=============================================================================
