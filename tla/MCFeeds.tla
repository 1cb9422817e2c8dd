------------------------------- MODULE MCFeeds -------------------------------
(***************************************************************************)
(* An instance of the components that bring aircraft and their routes into  *)
(* the program: the rotation of the feeds, the polling of the regions, the  *)
(* gate of routes and their samples, whose module this one extends.  In one *)
(* behaviour one of them moves, the one in focus, from each of its initial  *)
(* states; the others keep an initial state.                                *)
(***************************************************************************)
EXTENDS RouteObserver, Integers, FiniteSets, TLC

VARIABLES
  focus,
  feed, sky, health, cursor, skyAsked, guard, poll, heard, streak,
  home, paused, snap, since, cycle, todo, spent, sighted, waited, excused, view,
  cache, inflight, running, due, held

rotation == <<feed, sky, health, cursor, skyAsked, guard, poll, heard, streak>>
polling == <<home, paused, snap, since, cycle, todo, spent, sighted, waited, excused, view>>
gate == <<cache, inflight, running, due, held>>
observer == vars

Rotation == INSTANCE ProviderRotation WITH
  Public <- <<"lol", "fi", "live">>, OpenSky <- "opensky", Aircraft <- {"a1"},
  Confirmations <- 3, Threshold <- 2, MaxCooldown <- 1, MaxImpaired <- 1

(* Two users, one with priority who moves and is paused, two places; the     *)
(* slot of a region depends on who is in it.                                 *)
Places == {"h1", "h2"}
Observers == {"u1", "u2"}
Polling == INSTANCE SharedPolling WITH
  Users <- Observers, Homes <- Places, Priority <- {"u2"}, Restless <- {"u2"},
  Delay <- ("u1" :> 2 @@ "u2" :> 4),
  Slot <- [k \in SUBSET (Observers \X Places) |-> IF <<"u2", "h1">> \in k THEN 2 ELSE 1],
  CycleLength <- 2, Hot <- 2, Discovery <- 3, HotHold <- 2, Continuity <- 3

Gate == INSTANCE RouteGate WITH
  MaxInflight <- 2, MaxConcurrent <- 1, FetchCycles <- 1,
  ResolvedTtl <- 2, ConflictTtl <- 2, NegativeTtl <- 2

ASSUME Rotation!RotationAssumption /\ Polling!PollingAssumption /\ Gate!RouteAssumption
ASSUME ObserverAssumption

FeedsInit ==
  /\ focus \in {"rotation", "polling", "gate", "observer"}
  /\ Rotation!Init /\ (focus # "rotation" => cursor = 1)
  /\ Polling!Init /\ (focus # "polling" => home = [u \in Observers |-> "h1"])
  /\ Gate!Init /\ Init

FeedsNext ==
  \/ focus = "rotation" /\ Rotation!Next /\ UNCHANGED <<focus, polling, gate, observer>>
  \/ focus = "polling" /\ Polling!Next /\ UNCHANGED <<focus, rotation, gate, observer>>
  \/ focus = "gate" /\ Gate!Next /\ UNCHANGED <<focus, rotation, polling, observer>>
  \/ focus = "observer" /\ Next /\ UNCHANGED <<focus, rotation, polling, gate>>

feedsVars == <<focus, rotation, polling, gate, observer>>
(* Only the component in focus needs its fairness. *)
FeedsSpec ==
  /\ FeedsInit /\ [][FeedsNext]_feedsVars
  /\ WF_rotation(focus = "rotation" /\ Rotation!Polling)
  /\ \A w \in Workers : WF_observer(focus = "observer" /\ (Take(w) \/ Finish(w)))
  /\ \A f \in Flights : WF_observer(focus = "observer" /\ Observe(f))

(* Each variable has its type. *)
FeedsTypeOK ==
  /\ focus = "rotation" => Rotation!TypeOK
  /\ focus = "polling" => Polling!TypeOK
  /\ focus = "gate" => Gate!TypeOK
  /\ focus = "observer" => TypeOK

(* SharedPolling: users are neither evaluated with what was long ago nor with an empty sky    *)
(* after a short silence; ProviderRotation: a new source needs observations in a row.        *)
SkyIsHonest ==
  /\ [](focus = "polling" => Polling!ViewHonest /\ Polling!SkyNotBlanked)
  /\ Rotation!SwitchConfirmed
(* SharedPolling: no user waits for the feeds of others. *)
EvaluatedInTime == focus = "polling" => Polling!EvaluatedInTime
(* RouteGate: a candidate is not held for long. *)
HoldBounded == focus = "gate" => Gate!HoldBounded
(* ProviderRotation: an aircraft whose source is up is heard again, and a feed that hangs is  *)
(* put to rest; RouteObserver: a flight that waits is sampled or dropped.                     *)
FeedsRecover == Rotation!HeardFromItsSource /\ Rotation!HangingIsRested /\ SampleEnds
================================================================================
