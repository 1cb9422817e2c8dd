------------------------------- MODULE MCUpkeep -------------------------------
(***************************************************************************)
(* An instance of what goes on around the alerts: the process from start to  *)
(* end, the serverless one, the update of an installation, the credentials   *)
(* of a feed, the learning of the feeds, the history of deliveries, and the  *)
(* ledger of forecasts, whose module this one extends.  In one behaviour one *)
(* of them moves, the one in focus.                                         *)
(***************************************************************************)
EXTENDS ForecastLedger, TLC

CONSTANT None

VARIABLES
  focus,
  stage, pc, tries, creator, client, reachable, outages, background, prepared, maintenance, warm,
  loops, reading, tasks, cancelled, work, bot, queue, recent, acked, handled,
  backend, newest, checkout, installed, policy, timer, service, running, at, target, backup,
  damaged, approved, file, wal, written, updaterFaults,
  message, alive, tried, lineup, job, late, history, pushed, restarts,
  aside, made, token, day, current, today, poll, box, answers, blamed,
  learned, pending, line, workers, dislike, dislikes,
  record, boot, monitor, cycles, telegram, webhook, inbox, update, by, loaded, path, imported, lock,
  application, built, closed, torn, using

ledger == vars
lifespan == <<stage, pc, tries, creator, client, reachable, outages, background, prepared,
              maintenance, warm, loops, reading, tasks, cancelled, work, bot, queue, recent, acked,
              handled>>
updater == <<backend, newest, checkout, installed, policy, timer, service, running, at, target,
             backup, damaged, approved, file, wal, written, updaterFaults>>
telemetry == <<message, alive, tried, lineup, job, late, history, pushed, restarts>>
keys == <<aside, made, token, day, current, today, poll, box, answers, blamed>>
learning == <<learned, pending, line, workers, dislike, dislikes>>
vercel == <<record, boot, monitor, cycles, telegram, webhook, inbox, update, by, loaded, path,
            imported, lock, application, built, closed, torn, using>>

Life == INSTANCE Lifespan WITH
  Updates <- {1, 2}, QueueLimit <- 1, Tries <- 2, Modes <- BOOLEAN, MaxWork <- 1, MaxOutages <- 2

\* Three releases, the doctor fails one.
Updater == INSTANCE Installation WITH
  Backends <- {"mongodb", "sqlite"}, MaxRelease <- 3, Broken <- {2}, MaxWrites <- 2,
  MaxFaults <- 2, faults <- updaterFaults

History == INSTANCE Telemetry WITH
  QueueLimit <- 1, KeptEvents <- 2, MaxEvents <- 3, MaxRestarts <- 1, queue <- lineup, doc <- history

Pool == INSTANCE KeyPool WITH Count <- 3, Boxes <- {1}, Credits <- 2, Days <- 3

\* Polls of two feeds that agree, or of three of which one alone hears an aircraft.
Feeds == {"lol", "fi", "sky"}
Polls == {[f \in {"lol", "fi"} |-> {"a"}],
          [f \in Feeds |-> IF f = "sky" THEN {"a", "b"} ELSE {"a"}]}
Learner == INSTANCE ProviderLearning WITH
  Places <- {1, 2}, Feeds <- Feeds, Results <- Polls, Workers <- {1, 2}, QueueLimit <- 1,
  Threshold <- 2, Extra <- 1, MaxDislikes <- 1, Cap <- 1,
  doc <- learned, queue <- line, work <- workers

\* Two deployments of different commits.
Vercel == INSTANCE VercelRuntime WITH
  Requests <- {"r1", "r2"}, Updates <- {"u1"}, Generation <- [r1 |-> "A", r2 |-> "B"],
  Url <- [r1 |-> "x", r2 |-> "x"],
  Slow <- {"u1"}, CyclesPerRun <- 1

ASSUME Updater!InstallationAssumption /\ Pool!KeyAssumption
ASSUME Learner!LearningAssumption /\ Vercel!RequestsDeploy

\* A flight that is provably away from the first window and near in a later one.
Flight == [t \in Instants |-> IF t = 3 THEN 1 ELSE IF t \in {2, 4} THEN 2 ELSE 3]

UpkeepInit ==
  /\ focus \in {"ledger", "lifespan", "updater", "telemetry", "keys", "learning", "vercel"}
  /\ Init /\ flight = Flight /\ heard = {0}
  /\ Life!Init /\ (focus # "lifespan" => ~reachable /\ background)
  /\ Updater!Init /\ (focus # "updater" => backend = "sqlite")
  /\ History!Init /\ Pool!Init /\ Learner!Init /\ Vercel!Init

OnlyLedger == UNCHANGED <<focus, lifespan, updater, telemetry, keys, learning, vercel>>
OnlyLifespan == UNCHANGED <<focus, ledger, updater, telemetry, keys, learning, vercel>>
OnlyUpdater == UNCHANGED <<focus, ledger, lifespan, telemetry, keys, learning, vercel>>
OnlyTelemetry == UNCHANGED <<focus, ledger, lifespan, updater, keys, learning, vercel>>
OnlyKeys == UNCHANGED <<focus, ledger, lifespan, updater, telemetry, learning, vercel>>
OnlyLearning == UNCHANGED <<focus, ledger, lifespan, updater, telemetry, keys, vercel>>
OnlyVercel == UNCHANGED <<focus, ledger, lifespan, updater, telemetry, keys, learning>>
UpkeepNext ==
  \/ focus = "ledger" /\ Next /\ OnlyLedger
  \/ focus = "lifespan" /\ Life!Next /\ OnlyLifespan
  \/ focus = "updater" /\ Updater!Next /\ OnlyUpdater
  \/ focus = "telemetry" /\ History!Next /\ OnlyTelemetry
  \/ focus = "keys" /\ Pool!Next /\ OnlyKeys
  \/ focus = "learning" /\ Learner!Next /\ OnlyLearning
  \/ focus = "vercel" /\ Vercel!Next /\ OnlyVercel

all == <<focus, ledger, lifespan, updater, telemetry, keys, learning, vercel>>

(* The fairness of each component, which only the one in focus needs. *)
Fairness ==
  /\ WF_ledger(focus = "ledger" /\ Tick)
  /\ WF_ledger(focus = "ledger" /\ Resolver)
  /\ WF_lifespan(focus = "lifespan" /\ (Life!Starting \/ Life!Closing))
  /\ WF_lifespan(focus = "lifespan" /\ Life!Handle)
  /\ WF_lifespan(/\ focus = "lifespan"
                 /\ Life!Retry \/ \E c \in Life!Callers : Life!Connecting(c))
  /\ WF_updater(focus = "updater" /\ Updater!ByTimer /\ UNCHANGED backend)
  /\ WF_updater(focus = "updater" /\ Updater!Proceed /\ UNCHANGED backend)
  /\ WF_telemetry(focus = "telemetry" /\ History!Take)
  /\ WF_telemetry(focus = "telemetry" /\ History!Timeout)
  /\ WF_keys(focus = "keys" /\ Pool!NextDay)
  /\ WF_keys(focus = "keys" /\ Pool!Heartbeat)
  /\ WF_learning(focus = "learning" /\ Learner!Proceed(1))
  /\ WF_learning(focus = "learning" /\ Learner!Proceed(2))
  /\ WF_vercel(focus = "vercel" /\ Vercel!Monitor("r1"))
  /\ WF_vercel(focus = "vercel" /\ Vercel!Monitor("r2"))
  /\ WF_vercel(focus = "vercel" /\ Vercel!Telegram)
UpkeepSpec == UpkeepInit /\ [][UpkeepNext]_all /\ Fairness

(* Each variable has its type. *)
UpkeepTypeOK ==
  /\ focus = "ledger" => TypeOK
  /\ focus = "lifespan" => Life!TypeOK
  /\ focus = "updater" => Updater!TypeOK
  /\ focus = "telemetry" => History!TypeOK
  /\ focus = "keys" => Pool!TypeOK
  /\ focus = "learning" => Learner!TypeOK
  /\ focus = "vercel" => Vercel!TypeOK
(* Lifespan: the process closes in order, and accepts an update once. *)
ServerInOrder == focus = "lifespan" => Life!ClosedInOrder /\ Life!AcceptedOnce
(* ForecastLedger, Installation, Telemetry, KeyPool: a forecast is scored once, what an      *)
(* update leaves behind was tested, an attempt is called a retry when it is, and a           *)
(* credential is set aside for a cause; ProviderLearning: what was learned stays.            *)
WorkIsSafe ==
  /\ [](/\ focus = "ledger" => ScoredOnce
        /\ focus = "updater" => Updater!AtRest
        /\ focus = "telemetry" => History!HistoryHonest
        /\ focus = "keys" => Pool!SetAsideForCause)
  /\ Learner!NothingUnlearned

(* What each of them has begun comes to an end. *)
UpkeepEnds ==
  /\ Settled
  /\ Life!Recovers /\ Life!Handles
  /\ Updater!Updated
  /\ History!Drained
  /\ Pool!OpenSkyReturns
  /\ Learner!PlacesReopen
  /\ Vercel!SupersededEnds
================================================================================
