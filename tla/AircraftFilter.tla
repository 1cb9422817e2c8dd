---------------------------- MODULE AircraftFilter ----------------------------
(***************************************************************************)
(* Which aircraft a profile asks for (app/aircraft/filtering.py): the        *)
(* selection and the inherited rules, as the profile menus edit them         *)
(* (app/bot/profile_handlers.py), and the radius that is polled and searched *)
(* for them (app/worker/profile_filter_guard_v43.py, v35.py, scale_v53.py).  *)
(*                                                                          *)
(* One user with one profile, whose region is this user's.  The monitor only *)
(* sees saved profiles, so it rests while the profile is being edited; what  *)
(* it does meanwhile with the old one it does before the edit as well.       *)
(* Sessions and concurrent presses are Dialogues.  A distance is in steps.   *)
(***************************************************************************)
EXTENDS Integers, FiniteSets, FiniteSetsExt

CONSTANTS
  Types, Categories,
  CategoriesOf,    \* [Types -> SUBSET Categories]: the registry
  Rank,            \* [Categories -> Nat]: role categories first, then CATEGORY_ORDER
  Cargo,           \* the category that an operator alone can add
  Operators,       \* the operators that are recognised
  CargoOperators, Mixed,   \* CARGO_OPERATOR_ICAO, _MIXED_PASSENGER_CARGO_OPERATORS
  Sky,             \* the aircraft there are
  Radii, Altitudes, AirlineLists,   \* what the user types
  MaxRadius,       \* 150 km
  Margin,          \* 120 km: tracked beyond the radius
  MaxSettings      \* bound: selections and, twice, overrides in a profile

Unknown == "unknown"
NoLimit == -1    \* also: an altitude that is not reported
NoRadius == 0

\* Of the constants; an instance assumes it.
FilterAssumption ==
  /\ CategoriesOf \in [Types -> (SUBSET Categories) \ {{}}] /\ Rank \in [Categories -> Nat]
  /\ \A c, d \in Categories : Rank[c] = Rank[d] => c = d
  /\ Cargo \in Categories /\ {CargoOperators, Mixed} \subseteq SUBSET Operators /\ Unknown \notin Operators
  /\ {MaxRadius, Margin} \subseteq Nat /\ Radii \in (SUBSET (1..MaxRadius)) \ {{}} /\ Altitudes \subseteq Nat
  /\ Sky \subseteq [type : Types, operator : Operators \cup {Unknown},
                     altitude : Altitudes \cup {NoLimit}, distance : Nat]

VARIABLES
  config,   \* the profile: the draft while it is edited, else what is saved
  editing,
  polled    \* the cached snapshot: key of the region and how far it reaches

vars == <<config, editing, polled>>

NoSnapshot == [key |-> NoRadius, reach |-> 0]
NoRule == <<>>
Scopes == {"profile"} \cup Categories \cup Types
Values == [enabled |-> BOOLEAN, min |-> Altitudes \cup {NoLimit}, max |-> Altitudes \cup {NoLimit},
           mode |-> {"all", "whitelist", "blacklist"}, airlines |-> AirlineLists \cup {{}}, radius |-> Radii]
Rule(r) == DOMAIN r \subseteq DOMAIN Values /\ \A f \in DOMAIN r : r[f] \in Values[f]

TypeOK ==
  /\ config.mode \in {"all", "selected"} /\ config.radius \in Radii /\ editing \in BOOLEAN
  /\ config.categories \subseteq Categories
  /\ config.types \subseteq Types /\ config.excluded \subseteq Types
  /\ DOMAIN config.rules = Scopes /\ \A s \in Scopes : Rule(config.rules[s])
  /\ polled.key \in {NoRadius} \cup Radii

Default == [mode |-> "selected", categories |-> {}, types |-> {}, excluded |-> {},
            rules |-> [s \in Scopes |-> NoRule], radius |-> Min(Radii)]
\* _legacy_filter: a profile of an older release, with a category and a type left out
Legacy(c, disabled) ==
  [Default EXCEPT !.types = {t \in Types : c \in CategoriesOf[t]} \ disabled, !.excluded = disabled]

Init ==
  /\ config \in {[Default EXCEPT !.mode = "all"]} \cup
                {Legacy(c, d) : c \in Categories, d \in {{}} \cup {{t} : t \in Types}}
  /\ editing = TRUE /\ polled = NoSnapshot

--------------------------------------------------------------------------------
\* The selection and the rules

\* Mutant of RoleOperator: every operator that flies cargo adds the category.
RoleOperatorAny(op) == op
RoleOperator(op) == IF op \in Mixed THEN Unknown ELSE op
CategoriesFor(t, op) == CategoriesOf[t] \cup (IF op \in CargoOperators THEN {Cargo} ELSE {})
Primary(t, op) ==
  CHOOSE c \in CategoriesFor(t, op) : \A d \in CategoriesFor(t, op) : Rank[c] <= Rank[d]

Selects(c, t, categories) ==
  \/ c.mode = "all"
  \/ t \in c.types
  \/ t \notin c.excluded /\ c.categories \cap categories # {}
TypeSelected(c, t, op) == Selects(c, t, CategoriesFor(t, RoleOperator(op)))
Ticked(c, t) == Selects(c, t, CategoriesOf[t])

System == [enabled |-> TRUE, min |-> NoLimit, max |-> NoLimit,
           mode |-> "all", airlines |-> {}, radius |-> NoRadius]
\* Mutant of Apply: a limit that is lifted counts as one that is not set.
ApplyTruthy(rule, override) ==
  [f \in DOMAIN rule |-> IF f \in DOMAIN override /\ ~(f \in {"min", "max"} /\ override[f] = NoLimit)
                         THEN override[f] ELSE rule[f]]
Apply(rule, override) ==
  [f \in DOMAIN rule |-> IF f \in DOMAIN override THEN override[f] ELSE rule[f]]
Merged(c, t, category) == Apply(Apply(Apply(System, c.rules["profile"]), c.rules[category]), c.rules[t])
Resolved(c, t, op) == Merged(c, t, Primary(t, RoleOperator(op)))
Shown(c, t) == Merged(c, t, Primary(t, Unknown))

Low(rule, a) == rule.min # NoLimit /\ a.altitude < rule.min
High(rule, a) == rule.max # NoLimit /\ a.altitude > rule.max
AltitudeFits(rule, a) ==
  \/ rule.min = NoLimit /\ rule.max = NoLimit
  \/ a.altitude # NoLimit /\ ~Low(rule, a) /\ ~High(rule, a)
AirlineFits(rule, a) ==
  /\ rule.mode = "whitelist" => a.operator \in rule.airlines
  /\ rule.mode = "blacklist" => a.operator \notin rule.airlines

Matched(c, a) ==
  LET rule == Resolved(c, a.type, a.operator)
  IN TypeSelected(c, a.type, a.operator) /\ rule.enabled /\ AltitudeFits(rule, a) /\ AirlineFits(rule, a)
RadiusFor(c, a) ==
  LET rule == Resolved(c, a.type, a.operator) IN IF rule.radius = NoRadius THEN c.radius ELSE rule.radius

--------------------------------------------------------------------------------
\* The menus

Size(c) ==
  Cardinality(c.categories) + Cardinality(c.types) + Cardinality(c.excluded)
  + 2 * Cardinality(UNION {{<<s, f>> : f \in DOMAIN c.rules[s]} : s \in Scopes})
Edited(c) ==
  /\ config' = c /\ editing' = TRUE
  /\ Size(c) <= MaxSettings
  /\ UNCHANGED polled

ToggleAll == Edited([config EXCEPT !.mode = IF @ = "all" THEN "selected" ELSE "all"])

\* Mutant of ToggleType: a type taken from the selection stays in its category.
ToggleTypeOnce(t) ==
  \/ Ticked(config, t) /\ t \in config.types /\ Edited([config EXCEPT !.types = @ \ {t}])
  \/ Ticked(config, t) /\ t \notin config.types /\ Edited([config EXCEPT !.excluded = @ \cup {t}])
  \/ ~Ticked(config, t) /\ Edited([config EXCEPT !.types = @ \cup {t}, !.excluded = @ \ {t}])

ToggleType(t) ==
  LET again == CategoriesOf[t] \cap config.categories # {}
  IN \/ /\ Ticked(config, t) /\ t \in config.types
        /\ Edited([config EXCEPT !.types = @ \ {t}, !.excluded = IF again THEN @ \cup {t} ELSE @])
     \/ /\ Ticked(config, t) /\ t \notin config.types
        /\ Edited([config EXCEPT !.excluded = @ \cup {t}])
     \/ /\ ~Ticked(config, t)
        /\ Edited([config EXCEPT !.types = @ \cup {t}, !.excluded = @ \ {t}])

SelectAll(c) ==
  Edited([config EXCEPT !.categories = @ \cup {c},
                        !.excluded = @ \ {t \in Types : c \in CategoriesOf[t]}])
ClearAll(c) == Edited([config EXCEPT !.categories = @ \ {c}])

Put(rule, f, v) == [g \in DOMAIN rule \cup {f} |-> IF g = f THEN v ELSE rule[g]]
Drop(rule, fs) == [g \in DOMAIN rule \ fs |-> rule[g]]
SetRule(s, rule) == Edited([config EXCEPT !.rules[s] = rule])
Own(s) == config.rules[s]

\* Texts: a limit (NoLimit for "none"), a radius, a list of airlines, "parent".
SetLimit(s, f, v) == SetRule(s, Put(Own(s), f, v))
SetRuleRadius(s, r) == SetRule(s, Put(Own(s), "radius", r))
SetAirlines(s, list) ==
  LET rule == Put(Own(s), "airlines", list)
      keeps == "mode" \in DOMAIN rule /\ rule.mode # "all"
  IN SetRule(s, IF keeps THEN rule ELSE Put(rule, "mode", "whitelist"))
UseParent(s, f) ==
  /\ s # "profile" /\ f \in DOMAIN Own(s)
  /\ SetRule(s, Drop(Own(s), IF f = "airlines" THEN {f, "mode"} ELSE {f}))
ResetRule(s) == s # "profile" /\ SetRule(s, NoRule)

\* Buttons that go round: unset, then the values, then unset again.
NextMode(s, m) ==
  CASE s # "profile" -> (CASE m = "unset" -> "all" [] m = "all" -> "whitelist"
                           [] m = "whitelist" -> "blacklist" [] m = "blacklist" -> "unset")
    [] s = "profile" -> (CASE m = "unset" -> "whitelist" [] m = "whitelist" -> "blacklist"
                           [] m = "blacklist" -> "all" [] m = "all" -> "unset")
CycleMode(s) ==
  LET next == NextMode(s, IF "mode" \in DOMAIN Own(s) THEN Own(s).mode ELSE "unset")
      set == Put(Own(s), "mode", next)
  IN SetRule(s, CASE next = "unset" -> Drop(Own(s), {"mode", "airlines"})
                  [] next = "all" -> Put(set, "airlines", {})
                  [] OTHER -> set)
CycleEnabled(s) ==
  SetRule(s, IF "enabled" \notin DOMAIN Own(s) THEN Put(Own(s), "enabled", TRUE)
             ELSE IF Own(s).enabled THEN Put(Own(s), "enabled", FALSE) ELSE Drop(Own(s), {"enabled"}))

SetRadius(r) == Edited([config EXCEPT !.radius = r])

Ordered(rule) ==
  {"min", "max"} \subseteq DOMAIN rule /\ NoLimit \notin {rule.min, rule.max} => rule.min <= rule.max
Valid(c) ==
  /\ c.mode = "all" \/ c.categories # {} \/ c.types # {}
  /\ \A s \in Scopes : Ordered(c.rules[s])
Save == editing /\ Valid(config) /\ editing' = FALSE /\ UNCHANGED <<config, polled>>

--------------------------------------------------------------------------------
\* The monitor

\* Mutant of MaximumRadius: only what the profile and its categories say.
MaximumRadiusOfCategories(c) ==
  Max({c.radius} \cup {c.rules[s].radius : s \in {x \in Scopes \ Types : "radius" \in DOMAIN c.rules[x]}})
MaximumRadius(c) ==
  Max({c.radius} \cup {Min({MaxRadius, Max({1, c.rules[s].radius})}) :
                       s \in {x \in Scopes : "radius" \in DOMAIN c.rules[x]}})
\* Mutant of RegionKey: the key of v35, without the rules.
RegionKeyOfHome(c) == c.radius
RegionKey(c) == MaximumRadius(c)
Fetched(c) == [key |-> RegionKey(c), reach |-> MaximumRadius(c) + Margin]
Snapshot(c) == IF polled.key = RegionKey(c) THEN polled ELSE Fetched(c)

Cycle == ~editing /\ polled' = Snapshot(config) /\ UNCHANGED <<config, editing>>
Expire == polled # NoSnapshot /\ polled' = NoSnapshot /\ UNCHANGED <<config, editing>>

\* What reaches the matcher: fetched, and handed out by the partition, which tracks around
\* the radius of the profile alone (scale_v53, _tracking_radius_km), not that of a rule.
Candidates(c) == {a \in Sky : a.distance <= Snapshot(c).reach /\ a.distance <= c.radius + Margin}
Evaluated(c) == {a \in Candidates(c) : Matched(c, a)}

Next ==
  \/ ToggleAll
  \/ \E t \in Types : ToggleType(t)
  \/ \E c \in Categories : SelectAll(c) \/ ClearAll(c)
  \/ \E s \in Scopes :
       \/ \E v \in Altitudes \cup {NoLimit} : SetLimit(s, "min", v) \/ SetLimit(s, "max", v)
       \/ \E r \in Radii : SetRuleRadius(s, r)
       \/ \E list \in AirlineLists : SetAirlines(s, list)
       \/ \E f \in DOMAIN Values : UseParent(s, f)
       \/ ResetRule(s) \/ CycleMode(s) \/ CycleEnabled(s)
  \/ \E r \in Radii : SetRadius(r)
  \/ Save \/ Cycle \/ Expire

Spec == Init /\ [][Next]_vars

--------------------------------------------------------------------------------
\* Properties

Saved == ~editing

\* The rule of a flight: the setting of its type if there is one, else of its
\* category, else of the profile, else the default.
Setting(c, t, category, f) ==
  CASE f \in DOMAIN c.rules[t] -> c.rules[t][f]
    [] f \notin DOMAIN c.rules[t] /\ f \in DOMAIN c.rules[category] -> c.rules[category][f]
    [] f \notin DOMAIN c.rules[t] \cup DOMAIN c.rules[category] /\ f \in DOMAIN c.rules["profile"] ->
         c.rules["profile"][f]
    [] OTHER -> System[f]
Wanted(c, a) ==
  LET role == IF a.operator \in CargoOperators \ Mixed THEN {Cargo} ELSE {}
      kinds == CategoriesOf[a.type] \cup role
      category == CHOOSE k \in kinds : \A l \in kinds : Rank[k] <= Rank[l]
      set(f) == Setting(c, a.type, category, f)
  IN /\ \/ c.mode = "all" \/ a.type \in c.types
        \/ kinds \cap c.categories # {} /\ a.type \notin c.excluded
     /\ set("enabled")
     /\ set("min") # NoLimit => a.altitude >= set("min")
     /\ set("max") # NoLimit => a.altitude # NoLimit /\ a.altitude <= set("max")
     /\ CASE set("mode") = "whitelist" -> a.operator \in set("airlines")
          [] set("mode") = "blacklist" -> a.operator \notin set("airlines")
          [] OTHER -> TRUE

\* Whatever was overridden, reset and cycled through before, the matcher keeps
\* of the aircraft it is given those the profile asks for, with the most
\* specific setting of each field in force.
MatchesAsSet == Saved => \A a \in Sky : Matched(config, a) <=> Wanted(config, a)

\* The snapshot a saved profile is served with, cached or not, reaches
\* beyond the radius of every aircraft it accepts by the whole tracking margin:
\* a rule that widens the radius is never served with a narrower snapshot.
PolledWideEnough ==
  Saved => \A a \in Sky : Wanted(config, a) => RadiusFor(config, a) + Margin <= Snapshot(config).reach

\* Of these a saved profile is evaluated for all that are within the margin of
\* its own radius, whatever was cached.  It is for no other: an aircraft that
\* only a rule reaches was polled, but is not handed out to it.
EvaluatedByBase ==
  Saved => Evaluated(config) = {a \in Sky : Wanted(config, a) /\ a.distance <= config.radius + Margin}

\* The tick of a type in the menu, and the rule shown for it, are what the
\* matcher applies to a flight whose operator adds no category.
MenuIsHonest ==
  \A t \in Types, op \in (Operators \cup {Unknown}) \ (CargoOperators \ Mixed) :
    Ticked(config, t) = TypeSelected(config, t, op) /\ Shown(config, t) = Resolved(config, t, op)

\* A press on one type, outside of "all aircraft", turns that type over and
\* leaves the others as they were, however it came to be selected.
TogglesOne ==
  [][\A t \in Types : config.mode = "selected" /\ ToggleType(t) =>
       {u \in Types : Ticked(config', u) # Ticked(config, u)} = {t}]_vars
================================================================================
