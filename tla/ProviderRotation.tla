-------------------------- MODULE ProviderRotation --------------------------
(***************************************************************************)
(* How one region of users gets its aircraft (app/worker/v35.py, poll): two *)
(* public feeds in rotation, then OpenSky, inside a hard time budget        *)
(* (cadence_guard_v423.py); each feed behind a circuit breaker              *)
(* (app/aircraft/providers.py); and an aircraft is taken from another feed  *)
(* only after enough observations in a row                                  *)
(* (app/worker/runtime_recovery_hotfix.py).                                 *)
(*                                                                          *)
(* A call answers at once or takes its whole deadline; two such calls       *)
(* exhaust the budget of the poll.  Time is counted in polls.  Not          *)
(* modelled: a local receiver, the minimal interval of the public feeds     *)
(* (shorter than the time between two polls of a region).                   *)
(***************************************************************************)
EXTENDS Integers, Sequences, FiniteSets, FiniteSetsExt

CONSTANTS
  Public,         \* sequence of the public feeds, in the order of rotation
  OpenSky,        \* the feed of last resort
  Aircraft,       \* aircraft that may be in the region
  Confirmations,  \* observations in a row a new source needs
  Threshold,      \* consecutive failures that open a circuit
  MaxCooldown,    \* the longest cooldown, in polls
  MaxImpaired     \* bound: feeds that are not up at a time

\* Of the constants; an instance assumes it.
RotationAssumption ==
  /\ Len(Public) > 1 /\ OpenSky \notin {Public[i] : i \in 1..Len(Public)}
  /\ Confirmations \in Nat \ {0} /\ Threshold \in Nat \ {0}
  /\ MaxCooldown \in Nat \ {0} /\ MaxImpaired \in Nat

PublicFeeds == {Public[i] : i \in 1..Len(Public)}
Feeds == PublicFeeds \cup {OpenSky}
NoSource == "no source"
Condition == {"up", "blank", "down", "limited", "hang"}
\* Failures beyond this number change nothing: the cooldown is the longest.
MaxFailures == Threshold + MaxCooldown

VARIABLES
  feed,     \* what each feed does at present
  sky,      \* the aircraft in the region
  health,   \* the circuit breaker of each feed
  cursor,   \* the feed whose turn is next
  skyAsked, \* OpenSky was asked in the poll before
  guard,    \* source guard of each aircraft
  poll,     \* the poll that is going on
  heard,    \* what the last poll returned
  streak    \* history: how often in a row the last source was observed

vars == <<feed, sky, health, cursor, skyAsked, guard, poll, heard, streak>>

Health == [state : {"closed", "open", "half_open"}, failures : 0..MaxFailures, cool : 0..MaxCooldown]
Guard == [stable : Feeds \cup {NoSource}, pending : Feeds \cup {NoSource}, count : 0..Confirmations]
Poll == [at : {"idle", "first", "second", "sky"}, slow : 0..1]

TypeOK ==
  /\ feed \in [Feeds -> Condition] /\ sky \subseteq Aircraft
  /\ health \in [Feeds -> Health] /\ cursor \in 1..Len(Public) /\ skyAsked \in BOOLEAN
  /\ guard \in [Aircraft -> Guard] /\ poll \in Poll /\ heard \subseteq Aircraft
  /\ streak \in [Aircraft -> [source : Feeds \cup {NoSource}, n : 0..Confirmations]]

Healthy == [state |-> "closed", failures |-> 0, cool |-> 0]
Unguarded == [stable |-> NoSource, pending |-> NoSource, count |-> 0]
Idle == [at |-> "idle", slow |-> 0]

Init ==
  /\ feed = [f \in Feeds |-> "up"] /\ sky = Aircraft
  /\ health = [f \in Feeds |-> Healthy]
  /\ cursor \in 1..Len(Public) /\ skyAsked = FALSE
  /\ guard = [a \in Aircraft |-> Unguarded]
  /\ poll = Idle /\ heard = {}
  /\ streak = [a \in Aircraft |-> [source |-> NoSource, n |-> 0]]

--------------------------------------------------------------------------------
\* Circuit breaker

CanAsk(h) == h.state = "open" => h.cool = 0

\* _health_allows_request: a circuit whose cooldown is over lets requests through.
Asked(h) == IF h.state = "open" THEN [h EXCEPT !.state = "half_open"] ELSE h

\* A plausible bug: a probe that fails starts the count again.
FailedForgetful(h, limited) ==
  IF limited THEN {[h EXCEPT !.state = "open", !.cool = MaxCooldown]}
             ELSE {[h EXCEPT !.failures = 0, !.state = "closed"]}

\* A plausible bug: the cooldown doubles without an end.
FailedUncapped(h, limited) ==
  {[state |-> "open", failures |-> Min({h.failures + 1, MaxFailures}), cool |-> 2 ^ h.failures]}

\* record_failure; a feed may name a time to retry after when it limits the rate.
Failed(h, limited) ==
  LET n == Min({h.failures + 1, MaxFailures})
      cooldown == Min({MaxCooldown, 2 ^ Max({0, n - Threshold})})
  IN IF limited \/ n >= Threshold
     THEN {[state |-> "open", failures |-> n, cool |-> c] :
              c \in IF limited THEN {cooldown, MaxCooldown} ELSE {cooldown}}
     ELSE {[h EXCEPT !.failures = n]}

--------------------------------------------------------------------------------
\* Source guard

\* A plausible bug: every observation from elsewhere counts for the last source.
GuardedAnySource(g, source) ==
  IF g.stable \in {NoSource, source} THEN [stable |-> source, pending |-> NoSource, count |-> 0]
  ELSE IF g.count + 1 >= Confirmations
       THEN [stable |-> source, pending |-> NoSource, count |-> 0]
       ELSE [g EXCEPT !.pending = source, !.count = @ + 1]

\* _guard_source_switches for one aircraft of a merged answer.
Guarded(g, source) ==
  LET n == IF g.pending = source THEN g.count + 1 ELSE 1
  IN IF g.stable \in {NoSource, source} \/ n >= Confirmations
     THEN [stable |-> source, pending |-> NoSource, count |-> 0]
     ELSE [g EXCEPT !.pending = source, !.count = n]

\* The aircraft are merged and guarded; only those whose source is stable pass.
Merge(source, reported) ==
  /\ guard' = [a \in Aircraft |-> IF a \in reported THEN Guarded(guard[a], source) ELSE guard[a]]
  /\ streak' = [a \in Aircraft |->
       IF a \notin reported THEN streak[a]
       ELSE [source |-> source,
             n |-> IF streak[a].source = source THEN Min({streak[a].n + 1, Confirmations}) ELSE 1]]

Accepted(source, reported) == {a \in reported : Guarded(guard[a], source).stable = source}

--------------------------------------------------------------------------------
\* A poll

\* A plausible bug: the cursor is not stored.
NotAdvanced(c) == c
Advance(c) == (c % Len(Public)) + 1

\* The poll begins; the cooldowns ran while the region was not polled.
StartPoll ==
  /\ poll = Idle
  /\ poll' = [at |-> "first", slow |-> 0]
  /\ health' = [f \in Feeds |-> [health[f] EXCEPT !.cool = Max({0, @ - 1})]]
  /\ UNCHANGED <<feed, sky, cursor, skyAsked, guard, heard, streak>>

Finish(found) == poll' = Idle /\ heard' = found

\* What follows an attempt: the first non-empty answer ends the poll.
Continue(found, slow) ==
  IF found # {} \/ poll.at = "sky" THEN Finish(found)
  ELSE /\ poll' = [at |-> IF poll.at = "first" THEN "second" ELSE "sky", slow |-> slow]
       /\ heard' = heard

\* A feed at rest is not asked: the attempt is empty.
Rests(f) ==
  /\ ~CanAsk(health[f])
  /\ Continue({}, poll.slow)
  /\ UNCHANGED <<health, guard, streak>>

Answers(f) ==
  /\ CanAsk(health[f]) /\ feed[f] \in {"up", "blank"}
  /\ health' = [health EXCEPT ![f] = Healthy]
  /\ LET reported == IF feed[f] = "up" THEN sky ELSE {}
     IN Merge(f, reported) /\ Continue(Accepted(f, reported), poll.slow)

Fails(f) ==
  /\ CanAsk(health[f]) /\ feed[f] \in {"down", "limited"}
  /\ \E h \in Failed(Asked(health[f]), feed[f] = "limited") : health' = [health EXCEPT ![f] = h]
  /\ Continue({}, poll.slow)
  /\ UNCHANGED <<guard, streak>>

TimesOut(f) ==
  /\ CanAsk(health[f]) /\ feed[f] = "hang" /\ poll.slow = 0
  /\ \E h \in Failed(Asked(health[f]), FALSE) : health' = [health EXCEPT ![f] = h]
  /\ Continue({}, 1)
  /\ UNCHANGED <<guard, streak>>

\* The budget of the poll is exhausted during the call: the call is cancelled,
\* and neither a success nor a failure is recorded.
CutOff(f) ==
  /\ CanAsk(health[f]) /\ feed[f] = "hang" /\ poll.slow = 1
  /\ health' = [health EXCEPT ![f] = Asked(@)]
  /\ Finish({})
  /\ UNCHANGED <<guard, streak>>

Attempt(f) == Rests(f) \/ Answers(f) \/ Fails(f) \/ TimesOut(f) \/ CutOff(f)

AskPublic ==
  /\ poll.at \in {"first", "second"}
  /\ cursor' = Advance(cursor)
  /\ Attempt(Public[cursor])
  /\ skyAsked' = (skyAsked /\ poll' # Idle)
  /\ UNCHANGED <<feed, sky>>

AskOpenSky ==
  /\ poll.at = "sky"
  /\ Attempt(OpenSky)
  /\ skyAsked' = CanAsk(health[OpenSky])
  /\ UNCHANGED <<feed, sky, cursor>>

\* OpenSky was asked less than its minimal interval ago.
SkipOpenSky ==
  /\ poll.at = "sky" /\ skyAsked
  /\ skyAsked' = FALSE
  /\ Finish({})
  /\ UNCHANGED <<feed, sky, health, cursor, guard, streak>>

--------------------------------------------------------------------------------
\* The world

Change(f) ==
  /\ poll = Idle
  /\ \E c \in Condition \ {feed[f]} : feed' = [feed EXCEPT ![f] = c]
  /\ Cardinality({g \in Feeds : feed'[g] # "up"}) <= MaxImpaired
  /\ UNCHANGED <<sky, health, cursor, skyAsked, guard, poll, heard, streak>>

\* An aircraft comes, or leaves for so long that its source guard is dropped.
Fly(a) ==
  /\ poll = Idle
  /\ sky' = IF a \in sky THEN sky \ {a} ELSE sky \cup {a}
  /\ guard' = [guard EXCEPT ![a] = IF a \in sky THEN Unguarded ELSE @]
  /\ streak' = [streak EXCEPT ![a] = IF a \in sky THEN [source |-> NoSource, n |-> 0] ELSE @]
  /\ UNCHANGED <<feed, health, cursor, skyAsked, poll, heard>>

Polling == StartPoll \/ AskPublic \/ AskOpenSky \/ SkipOpenSky
World == (\E f \in Feeds : Change(f)) \/ (\E a \in Aircraft : Fly(a))
Next == Polling \/ World

Spec == Init /\ [][Next]_vars
\* The monitor loop polls as long as the process runs.
FairSpec == Spec /\ WF_vars(Polling)

--------------------------------------------------------------------------------
(* A feed becomes the source of an aircraft that had another one only when   *)
(* the last Confirmations observations of that aircraft all came from it.    *)
(* Code: runtime_recovery_hotfix._guard_source_switches; what may go wrong   *)
(* is that observations of different feeds, or of separate spells, add up.   *)
SwitchConfirmed ==
  [][\A a \in Aircraft :
       (guard[a].stable # NoSource /\ guard'[a].stable \notin {NoSource, guard[a].stable})
         => streak'[a] = [source |-> guard'[a].stable, n |-> Confirmations]]_vars

(* An aircraft that is there for good and whose public source is up for good *)
(* is heard again and again, whatever the other feeds do.  Code: the         *)
(* rotation of v35.poll with the budget, the breakers and the guard.         *)
HeardFromItsSource ==
  \A a \in Aircraft, f \in PublicFeeds :
    []<>(a \in sky /\ feed[f] = "up" /\ guard[a].stable = f => a \in heard)

(* A public feed that hangs for good is put to rest again and again: calls   *)
(* that the budget cuts off are not counted, but it is asked first often     *)
(* enough.  Code: v35.poll, _poll_bounded, AircraftDataProvider.             *)
HangingIsRested ==
  \A f \in PublicFeeds : []<>(feed[f] = "hang" => health[f].state = "open")
================================================================================
