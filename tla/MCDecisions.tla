------------------------------ MODULE MCDecisions ------------------------------
(***************************************************************************)
(* An instance of the components of which only safety is asked: the bot's   *)
(* conversations, whose module this one extends, the serverless process, the*)
(* selection of aircraft by rules and by place, the optional AI and the     *)
(* scoring of predictions.  In one behaviour one of them moves, the one in  *)
(* focus; the others keep an initial state.                                 *)
(***************************************************************************)
EXTENDS Dialogues, Integers, Sequences

VARIABLES
  focus,
  record, boot, monitor, cycles, telegram, webhook, inbox, update, by, loaded, path, imported, lock,
  application, built, closed, torn, using,
  config, editing, polled, users, feed, bucket,
  kind, down, refused, turns, rested, cooling, cursor, ask, able,
  now, flight, reports, alert, tracked, throttled, kept, work, recent, rows

dialogues == vars
vercel == <<record, boot, monitor, cycles, telegram, webhook, inbox, update, by, loaded, path,
            imported, lock, application, built, closed, torn, using>>
selection == <<config, editing, polled>>
partition == <<users, feed, bucket>>
cascade == <<kind, down, refused, turns, rested, cooling, cursor, ask, able>>
scoring == <<now, flight, reports, alert, tracked, throttled, kept, work, recent, rows>>

\* Of three profiles that do not change a draft may be saved twice; of the two of the extended
\* module, which do, an outdated one.
Drafts == INSTANCE Dialogues WITH MaxProfiles <- 3, MaxVersion <- 0

\* Two deployments of different commits, an update that is slow and one that is not.
Vercel == INSTANCE VercelRuntime WITH
  Requests <- {"r1", "r2"}, Updates <- {"u1", "u2"}, Generation <- [r1 |-> "A", r2 |-> "B"],
  Url <- [r1 |-> "x", r2 |-> "x"],
  Slow <- {"u2"}, CyclesPerRun <- 1

\* A passenger type and one that is also a freighter, in and out of range and altitude.
Flying == {[type |-> t, operator |-> o, altitude |-> a, distance |-> 4] :
             t \in {"A35K", "B77L"}, o \in {"carrier", "both", "unknown"}, a \in {-1, 1, 2}} \cup
           {[type |-> "A35K", operator |-> "carrier", altitude |-> 1, distance |-> 3]}
Filter == INSTANCE AircraftFilter WITH
  Types <- {"A35K", "B77L"}, Categories <- {"cargo", "wide"}, Cargo <- "cargo",
  CategoriesOf <- [A35K |-> {"wide"}, B77L |-> {"wide", "cargo"}], Rank <- [cargo |-> 0, wide |-> 1],
  Operators <- {"carrier", "both"}, CargoOperators <- {"carrier", "both"}, Mixed <- {"both"},
  Sky <- Flying, Radii <- {1, 4}, Altitudes <- {1, 2}, AirlineLists <- {{"carrier"}},
  MaxRadius <- 4, Margin <- 2, MaxSettings <- 4

\* A user near the line where longitudes wrap, or far from it, and up to four aircraft.
Partition == INSTANCE SkyPartition WITH
  Users <- {1}, Homes <- {0, 4, 10, 11}, Radii <- {2, 4}, Around <- 12, CellSize <- 2,
  MaxCells <- 4, MaxCandidates <- 2, MaxAircraft <- 4

\* Two models of a provider with two keys, then one of a provider with one.
Cascade == INSTANCE AiCascade WITH
  Cascade <- <<"pro", "flash", "llama">>,
  KeysOf <- [pro |-> <<"k1", "k2">>, flash |-> <<"k1", "k2">>, llama |-> <<"k3">>],
  Questions <- {1, 2}, Kinds <- {"judge", "photo"}, MaxTurns <- 3

\* An aircraft that comes near twice: as near up to the tolerance, or not so near again.
Scoring == INSTANCE PassScoring WITH
  Paths <- {<<2, 2, 4, 3, 4>>, <<4, 0, 4, 3, 4>>}, Radius <- 3, Horizon <- 4, Throttle <- 1,
  Reset <- 2, Pause <- 1, Window <- 2, Tolerance <- 1, Kept <- 2, Concurrency <- 2, path <- flight, cached <- kept

ASSUME DialogueAssumption /\ Drafts!DialogueAssumption /\ Vercel!RequestsDeploy
ASSUME Filter!FilterAssumption /\ Partition!PartitionAssumption
ASSUME Cascade!CascadeAssumption /\ Scoring!ScoringAssumption

DecisionsInit ==
  /\ focus \in {"dialogues", "drafts", "vercel", "filter", "partition", "cascade", "scoring"}
  /\ Init /\ Vercel!Init /\ Filter!Init /\ Partition!Init /\ Cascade!Init /\ Scoring!Init
  /\ focus # "dialogues" => profiles[1].whole
  /\ focus # "filter" => config.mode = "all"
  /\ focus # "partition" => users[1] = [home |-> 0, radius |-> 2]
  /\ focus # "cascade" => kind = "judge"
  /\ focus # "scoring" => flight[1] = 2

DecisionsNext ==
  \/ /\ \/ focus = "dialogues" /\ Next
        \/ focus = "drafts" /\ Drafts!Next
     /\ UNCHANGED <<focus, vercel, selection, partition, cascade, scoring>>
  \/ /\ focus = "vercel" /\ Vercel!Next
     /\ UNCHANGED <<focus, dialogues, selection, partition, cascade, scoring>>
  \/ /\ focus = "filter" /\ Filter!Next
     /\ UNCHANGED <<focus, dialogues, vercel, partition, cascade, scoring>>
  \/ /\ focus = "partition" /\ Partition!Next
     /\ UNCHANGED <<focus, dialogues, vercel, selection, cascade, scoring>>
  \/ /\ focus = "cascade" /\ Cascade!Next
     /\ UNCHANGED <<focus, dialogues, vercel, selection, partition, scoring>>
  \/ /\ focus = "scoring" /\ Scoring!Next
     /\ UNCHANGED <<focus, dialogues, vercel, selection, partition, cascade>>

decisionsVars == <<focus, dialogues, vercel, selection, partition, cascade, scoring>>
DecisionsSpec == DecisionsInit /\ [][DecisionsNext]_decisionsVars

(* Each variable has its type. *)
DecisionsTypeOK ==
  /\ focus = "dialogues" => TypeOK
  /\ focus = "drafts" => Drafts!TypeOK
  /\ focus = "vercel" => Vercel!TypeOK
  /\ focus = "filter" => Filter!TypeOK
  /\ focus = "partition" => Partition!TypeOK
  /\ focus = "cascade" => Cascade!TypeOK
  /\ focus = "scoring" => Scoring!TypeOK
(* VercelRuntime: one application is alive. *)
OneApplication == focus = "vercel" => Vercel!OneApplication
(* AircraftFilter, SkyPartition: of the aircraft handed out to a user the matcher keeps      *)
(* those the menus say; the poll reaches as far as the widest rule, the handing out only as  *)
(* far as the radius of the profile with its margin, wherever a rule reaches farther; a press *)
(* changes one selection, and a full list holds the nearest.                                 *)
FilterSound ==
  /\ Filter!MatchesAsSet /\ Filter!PolledWideEnough
  /\ Filter!EvaluatedByBase /\ Filter!MenuIsHonest
SelectionSound ==
  /\ [](focus = "filter" => FilterSound) /\ Filter!TogglesOne
  /\ [](focus = "partition" => Partition!ExactElsewhere /\ Partition!NearestAreKept)
(* AiCascade, PassScoring: what is optional fails and scores for a reason. *)
OptionalSound ==
  /\ focus = "cascade" => Cascade!FailsOnlyWhenNoneCould
  /\ focus = "scoring" => Scoring!EtaIsObserved
================================================================================
