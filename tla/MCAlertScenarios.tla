-------------------------- MODULE MCAlertScenarios --------------------------
(***************************************************************************)
(* The lifecycle of an alert in four scenarios: the samples that a first     *)
(* message depends on; those that its end depends on; a change of the        *)
(* settings, all three without a failure; and failures of the delivery with  *)
(* few samples, for which the constants of this module stand.                *)
(***************************************************************************)
EXTENDS MCAlertLifecycle

VARIABLE scenario

\* Whatever an alert ends with: misses, passes, positions that recede.
Ending == INSTANCE AlertLifecycle WITH
  Predictions <- EndPredictions, MaxClock <- 5, MaxMessages <- 1, MaxIdent <- 1, MaxRestarts <- 0,
  MaxFailures <- 0

\* A candidate is a stage that the monitor follows and the user is not told of.
Beginning == INSTANCE AlertLifecycle WITH
  Predictions <- StartPredictions, LiveStages <- {"candidate", "prepare"}, MaxClock <- 4,
  MaxMessages <- 1, MaxIdent <- 1, MaxRestarts <- 0, MaxFailures <- 0

\* The settings or the callsign change while a message is known or on its way.
Changing == INSTANCE AlertLifecycle WITH
  MaxIdent <- 2, MaxRestarts <- 0, MaxFailures <- 0

ScenarioInit ==
  \/ scenario = "beginning" /\ Beginning!Init
  \/ scenario = "ending" /\ Ending!Init
  \/ scenario = "changing" /\ Changing!Init
  \/ scenario = "failures" /\ Init
ScenarioNext ==
  \/ scenario = "beginning" /\ Beginning!Next /\ UNCHANGED scenario
  \/ scenario = "ending" /\ Ending!Next /\ UNCHANGED scenario
  \/ scenario = "changing" /\ Changing!Next /\ UNCHANGED scenario
  \/ scenario = "failures" /\ Next /\ UNCHANGED scenario
ScenarioSpec == ScenarioInit /\ [][ScenarioNext]_<<vars, scenario>>

(* Each variable has its type. *)
ScenarioTypeOK ==
  CASE scenario = "beginning" -> Beginning!TypeOK
    [] scenario = "ending" -> Ending!TypeOK
    [] scenario = "changing" -> Changing!TypeOK
    [] scenario = "failures" -> TypeOK
=============================================================================
