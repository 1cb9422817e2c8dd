--------------------------- MODULE AlertLifecycle ---------------------------
(***************************************************************************)
(* The life of one alert: what _match_user_aircraft (app/worker/monitor.py) *)
(* does every five seconds about one aircraft and one user, with the       *)
(* decisions of app/intelligence/lifecycle.py and the delivery of          *)
(* send_or_update_approach (app/worker/notifications.py).                  *)
(*                                                                         *)
(* Distances are metres and trends metres per second, so the thresholds of *)
(* lifecycle.py are compared exactly (both sides times 100). A prediction  *)
(* is a member of Predictions, whose assumption says what the trajectory   *)
(* code can produce. Time advances in ticks.                               *)
(*                                                                         *)
(* A cycle that sends a message is two steps: the call (pc = "sending"),   *)
(* during which time passes, the settings change or the process stops, and *)
(* its answer, which the code handles together with the record's write.    *)
(***************************************************************************)
EXTENDS Integers, FiniteSets

CONSTANTS
    Predictions,  \* what predict_trajectory may return
    Radius,       \* the alert radius
    MinConf,      \* _threshold(min_confidence), per cent
    LiveStages,   \* stages of a qualifying cycle the shooting window may give
    StartStages,  \* those the user lets start an alert
    GapMax,       \* INITIAL_ALERT_MAX_OBSERVATION_GAP_S (18 s)
    FreshFor,     \* age at which every prediction is stale (30 s)
    QuietFor,     \* silence after a pass (3 min)
    MaxAge,       \* age at which a record is a previous encounter's (30 min)
    NoRec,        \* no record
    NoVal,        \* Python's None for a distance or a time
    NoCall,       \* no message is being sent
    MaxClock,     \* bound: clock
    MaxMessages,  \* bound: messages ever sent to the chat
    MaxIdent,     \* bound: changes of settings or callsign
    MaxRestarts,  \* bound: restarts
    MaxFailures   \* bound: sends that fail or whose answer is lost

\* The states of a prediction (trajectory.py), the blanks of their names filled.
States == {"Approaching", "Passing_nearby", "Passed", "Turning_away",
           "Moving_away", "Will_not_approach", "Prediction_uncertain"}
Stages == LiveStages \cup {"passed", "cancelled", "candidate"}
Value  == Nat \cup {NoVal}

Prediction ==
    [state : States, cur : Nat, cpa : Nat, eta : Value, trend : Int,
     conf : 0..100, enters : BOOLEAN, stale : BOOLEAN]

Record ==
    [msg : Nat, active : BOOLEAN, stage : Stages, cpa : Nat, closest : Nat,
     strikes : Nat, count : Nat, icpa : Value, ieta : Value, obs : Nat,
     at : Nat, ident : Nat]

\* What the chain of predictors can say: a path that enters the radius comes
\* with the states that say so, a stale position supports no statement, and a
\* position inside the radius that is not stale enters it unless it is over.
Feasible(p) ==
    /\ p.cpa <= p.cur
    /\ p.state \in {"Approaching", "Passing_nearby"} => p.enters
    /\ p.enters => /\ p.cpa <= Radius
                   /\ p.state \notin {"Moving_away", "Will_not_approach",
                                      "Prediction_uncertain"}
    /\ p.stale => p.state = "Prediction_uncertain"

ASSUME PredictionsAssumption ==
    Predictions \subseteq {p \in Prediction : Feasible(p)}
ASSUME StagesAssumption ==
    /\ {LiveStages, StartStages} \subseteq
           SUBSET {"candidate", "prepare", "camera_ready", "photo_now"}
    /\ StartStages \subseteq LiveStages \ {"candidate"}
ASSUME SentinelAssumption ==
    NoRec \notin Record /\ NoVal \notin Nat
ASSUME LimitsAssumption ==
    /\ Radius \in Nat \ {0} /\ MinConf \in 0..100
    /\ {GapMax, FreshFor, QuietFor, MaxAge} \subseteq Nat
    /\ {MaxClock, MaxMessages, MaxIdent, MaxRestarts, MaxFailures} \subseteq Nat

VARIABLES
    now,      \* the clock
    ident,    \* the settings and the callsign in force (config_key, callsign)
    seen,     \* timestamp of the latest sample of the aircraft's history
    pos,      \* distance of that sample
    path,     \* closest distance predicted from it
    rec,      \* the approach record the monitor reads and writes
    saved,    \* the record a restart finds
    pc,       \* "idle" or "sending"
    call,     \* the message being sent and the record to be written after it
    chat,     \* the messages of the chat: stage shown, ident, last upkeep
    trail,    \* history: the last three observations, the latest at 3
    struck,   \* history: samples that spoke against the alert, since the last
              \* cycle that qualified and saw no pass
    entered,  \* history: the aircraft was inside since the alert went "live",
              \* "before" that, or "never"
    lost,     \* history: the process missed a delivery or lost a record
    restarts, failures \* history, bounded

world   == <<now, ident, seen, pos, path>>
history == <<trail, struck, entered, lost, restarts, failures>>
vars    == <<world, rec, saved, pc, call, chat, history>>

Required == 3

Absent  == [text |-> "absent", ident |-> 0, kept |-> 0]
Message == [text : Stages \cup {"absent"}, ident : Nat, kept : Nat]
Look    == [t : Nat, ident : Nat, cur : Nat, cpa : Nat, eta : Value, ok : BOOLEAN]
Blank   == [t |-> 0, ident |-> 0, cur |-> 0, cpa |-> 0, eta |-> NoVal, ok |-> FALSE]
Call    == [kind : {"passed", "cancelled", "live"}, msg : Nat, next : Record]

TypeOK ==
    /\ now \in Nat /\ ident \in Nat /\ seen \in Nat /\ pos \in Nat /\ path \in Nat
    /\ rec \in Record \cup {NoRec}
    /\ saved \in Record \cup {NoRec}
    /\ pc \in {"idle", "sending"}
    /\ call \in Call \cup {NoCall}
    /\ chat \in [1..MaxMessages -> Message]
    /\ trail \in [1..3 -> Look]
    /\ struck \in SUBSET Nat
    /\ entered \in {"never", "before", "live"} /\ lost \in BOOLEAN
    /\ restarts \in Nat /\ failures \in Nat

Init ==
    /\ now = 1 /\ ident = 1 /\ seen = 0 /\ pos = 0 /\ path = 0
    /\ rec = NoRec /\ saved = NoRec
    /\ pc = "idle" /\ call = NoCall
    /\ chat = [m \in 1..MaxMessages |-> Absent]
    /\ trail = [i \in 1..3 |-> Blank] /\ struck = {} /\ entered = "never" /\ lost = FALSE
    /\ restarts = 0 /\ failures = 0

-----------------------------------------------------------------------------
(* The decisions of lifecycle.py.                                          *)

Larger(a, b)  == IF a >= b THEN a ELSE b
Smaller(a, b) == IF a <= b THEN a ELSE b
Distance(a, b) == IF a >= b THEN a - b ELSE b - a

\* should_finalize_observed_pass
Finalizes(p, observed) ==
    /\ ~p.stale
    /\ observed <= Radius
    /\ 100 * (p.cur - observed) >= Larger(15000, Radius)
    /\ p.trend >= 2 \/ p.state \in {"Moving_away", "Turning_away", "Passed"}

\* should_cancel_active_alert
CredibleMiss(p, previous) ==
    LET beyond == 100 * (p.cpa - Radius)
    IN  /\ ~p.stale /\ p.state # "Passed" /\ ~p.enters
        /\ beyond > Larger(200000, 18 * Radius)
        /\ 100 * (p.cpa - previous) >= Larger(250000, 22 * Radius)
        /\ \/ p.trend >= 4 \/ p.state = "Turning_away"
           \/ /\ p.state = "Will_not_approach"
              /\ \/ beyond >= Larger(500000, 50 * Radius) /\ p.conf >= 58
                 \/ beyond >= Larger(1000000, 100 * Radius) /\ p.conf >= 36

\* The tolerances of resolve_initial_alert_confirmation.
Stable(cpa, eta, previousCpa, previousEta) ==
    /\ previousCpa = NoVal \/
           100 * Distance(cpa, previousCpa)
               <= Larger(150000, Larger(18 * Radius, 25 * previousCpa))
    /\ previousEta = NoVal \/ eta = NoVal \/
           100 * Distance(eta, previousEta) <= Larger(3500, 20 * previousEta)

-----------------------------------------------------------------------------
(* What a cycle sees: the record it goes by, and its questions about a     *)
(* prediction p made from a sample taken at t, with the route gate's veto. *)

\* The record, unless it belongs to another configuration, flight or encounter.
Old == IF rec # NoRec /\ rec.ident = ident /\ now - rec.at <= MaxAge
       THEN rec ELSE NoRec

Known      == Old # NoRec
Active     == Known /\ Old.msg # 0 /\ Old.active
\* Mutant: a message is known only while its alert is active.
HasLiveMessage == Active
HasMessage == Known /\ Old.msg # 0

Fresh(t) == t > IF Known THEN Old.obs ELSE 0
Inside(p) == p.cur <= Radius

\* Mutants: the prediction counts as an observation; nothing until there is a
\* record.
ClosestPredicted(p) == IF Known THEN Smaller(Old.closest, p.cpa) ELSE p.cpa
ClosestUnknown(p)   == IF Known THEN Smaller(Old.closest, p.cur) ELSE NoVal

\* observed_closest
Closest(p) == IF Known THEN Smaller(Old.closest, p.cur) ELSE p.cur

\* A pass was announced less than three minutes ago.
Quiet == /\ Known /\ ~Old.active /\ Old.stage = "passed"
         /\ now - Old.at < QuietFor

LiveQualifies(p) == p.enters /\ p.conf >= MinConf

\* The route gate is asked about a pass or a live alert, and never hides an
\* aircraft inside the radius.
MayVeto(p) == (LiveQualifies(p) \/ Active) /\ ~Inside(p)

\* Mutant: any fresh qualifying sample undoes a cancellation.
LatchedUntilFresh(p, t) ==
    /\ Known /\ ~Old.active /\ Old.stage = "cancelled"
    /\ ~Fresh(t) \/ p.stale

\* cancelled_latch_allows_reactivation
Latched(p, t) ==
    /\ Known /\ ~Old.active /\ Old.stage = "cancelled"
    /\ ~Fresh(t) \/ p.stale \/ ~Inside(p)

Qualifies(p, t, veto) == LiveQualifies(p) /\ ~veto /\ ~Latched(p, t)

ObservedPass(p, t) == Active /\ Fresh(t) /\ Finalizes(p, Closest(p))

Evidence(p, veto) == Active /\ ~p.stale /\ (veto \/ CredibleMiss(p, Old.cpa))

\* resolve_cancellation_confirmation
Undecided(p, veto) == p.state = "Prediction_uncertain" /\ ~veto

\* Mutant: a sample seen again counts again.
StrikesRepeated(p, t, veto) ==
    IF p.stale THEN Old.strikes
    ELSE IF Undecided(p, veto) THEN 0
    ELSE IF Evidence(p, veto) THEN Old.strikes + 1
    ELSE Old.strikes

Strikes(p, t, veto) ==
    IF ~Fresh(t) \/ p.stale THEN Old.strikes
    ELSE IF Undecided(p, veto) THEN 0
    ELSE IF Evidence(p, veto) THEN Old.strikes + 1
    ELSE Old.strikes

Confirmed(p, t, veto) ==
    /\ Evidence(p, veto)
    /\ IF Fresh(t)
       THEN ~Undecided(p, veto) /\ Old.strikes + 1 >= Required
       ELSE Old.strikes >= Required

\* The run goes on over a gap of GapMax at most; mutant: over any gap.
ContinuesAnyhow(t) == Known
Continues(t) == Known /\ ~(Old.obs > 0 /\ Fresh(t) /\ t - Old.obs > GapMax)

\* resolve_initial_alert_confirmation of a qualifying cycle.
Run(p, t) ==
    LET before  == IF Continues(t) THEN Old.count ELSE 0
        stable  == before > 0 => Stable(p.cpa, p.eta, Old.icpa, Old.ieta)
        counted == Smaller(Required, (IF stable THEN before ELSE 0) + 1)
    IN  IF Fresh(t) /\ ~p.stale /\ Inside(p)
        THEN [ready |-> TRUE, count |-> Required, cpa |-> p.cpa, eta |-> p.eta]
        ELSE IF p.stale
        THEN [ready |-> FALSE, count |-> 0, cpa |-> NoVal, eta |-> NoVal]
        ELSE IF ~Fresh(t)
        THEN [ready |-> FALSE, count |-> before, cpa |-> Old.icpa, eta |-> Old.ieta]
        ELSE [ready |-> counted >= Required, count |-> counted,
              cpa |-> p.cpa, eta |-> p.eta]

-----------------------------------------------------------------------------
(* One cycle.                                                              *)

\* The sample a cycle works with: none is newer than now, the same timestamp is
\* the same position on the same path until it is too old to say anything.
Sampled(p, t) ==
    /\ pc = "idle"
    /\ t \in 1..now /\ t >= seen
    /\ t = seen => p.cur = pos /\ (p.stale \/ p.cpa = path)
    /\ now - t > FreshFor => p.stale
    /\ seen' = t /\ pos' = p.cur /\ path' = p.cpa

\* The history variables: what was observed, told apart by the sample and not
\* by the record; the same sample again may change its verdict.
Observed(p, t, veto) ==
    /\ LET look == [t |-> t, ident |-> ident, cur |-> p.cur, cpa |-> p.cpa,
                    eta |-> p.eta, ok |-> Qualifies(p, t, veto)]
       IN  trail' = IF trail[3].t # t THEN <<trail[2], trail[3], look>>
                    ELSE [trail EXCEPT ![3] = IF Fresh(t) THEN look
                                              ELSE [@ EXCEPT !.ok = look.ok]]
    /\ struck' = IF Qualifies(p, t, veto) /\ ~ObservedPass(p, t) THEN {}
                 ELSE IF Evidence(p, veto) /\ ~Undecided(p, veto) THEN struck \cup {t}
                 ELSE struck
    /\ entered' = IF Inside(p) THEN "live"
                  ELSE IF Qualifies(p, t, veto) /\ ~Active /\ entered = "live"
                  THEN "before"
                  ELSE entered
    /\ UNCHANGED <<now, ident, saved, lost, restarts, failures>>

\* A record write; upkeep of the message it names.
Upkept(c, m) == IF m \in 1..MaxMessages THEN [c EXCEPT ![m].kept = now] ELSE c

Write(r) ==
    /\ rec' = r
    /\ chat' = Upkept(chat, r.msg)
    /\ UNCHANGED <<pc, call>>

\* The unsent messages bound the first messages.
Unsent == {m \in 1..MaxMessages : chat[m] = Absent}

Send(kind, msg, next) ==
    /\ msg = 0 => Unsent # {}
    /\ pc' = "sending"
    /\ call' = [kind |-> kind, msg |-> msg, next |-> next]
    /\ UNCHANGED <<rec, chat>>

Ended(stage, p, t) ==
    [Old EXCEPT !.active = FALSE, !.stage = stage, !.cpa = p.cpa,
                !.closest = Closest(p), !.strikes = 0, !.count = 0,
                !.icpa = NoVal, !.ieta = NoVal, !.obs = t, !.at = now]

\* A pass was announced moments ago: the aircraft is skipped.
Skip ==
    /\ Quiet
    /\ UNCHANGED <<rec, pc, call, chat>>

\* The pass was observed: the message says so, then the record ends.
Pass(p, t) ==
    /\ ~Quiet /\ ObservedPass(p, t)
    /\ Send("passed", Old.msg, Ended("passed", p, t))

\* Confirmed evidence against the pass: the message is cancelled.
Cancel(p, t, veto) ==
    /\ ~Quiet /\ ~ObservedPass(p, t) /\ ~Qualifies(p, t, veto)
    /\ Active /\ Confirmed(p, t, veto)
    /\ Send("cancelled", Old.msg, Ended("cancelled", p, t))

\* Not confirmed: the live alert is held as it is.
Hold(p, t, veto) ==
    /\ ~Quiet /\ ~ObservedPass(p, t) /\ ~Qualifies(p, t, veto)
    /\ Active /\ ~Confirmed(p, t, veto)
    /\ Write([Old EXCEPT !.closest = Closest(p), !.obs = t, !.at = now,
                         !.strikes = Strikes(p, t, veto)])

\* A candidate without a message starts over.
StartOver(p, t, veto) ==
    /\ ~Quiet /\ ~Qualifies(p, t, veto)
    /\ Known /\ Old.msg = 0
    /\ Write([Old EXCEPT !.active = FALSE, !.stage = "candidate", !.cpa = p.cpa,
                         !.count = 0, !.icpa = NoVal, !.ieta = NoVal,
                         !.obs = t, !.at = now])

\* Nothing is known or the alert is over: nothing is written.
Ignore(p, t, veto) ==
    /\ ~Quiet /\ ~Qualifies(p, t, veto)
    /\ ~Known \/ (HasMessage /\ ~Active)
    /\ UNCHANGED <<rec, pc, call, chat>>

\* The record of a qualifying cycle; its message is known after the send.
Going(p, t, stage, m) ==
    LET run == IF Active
               THEN [ready |-> TRUE, count |-> 0, cpa |-> NoVal, eta |-> NoVal]
               ELSE Run(p, t)
    IN  [msg |-> m, active |-> TRUE, stage |-> stage, cpa |-> p.cpa,
         closest |-> Closest(p), strikes |-> 0,
         count |-> IF m # 0 THEN 0 ELSE run.count,
         icpa |-> IF m # 0 THEN NoVal ELSE run.cpa,
         ieta |-> IF m # 0 THEN NoVal ELSE run.eta,
         obs |-> t, at |-> now, ident |-> ident]

StagesOf(p) == IF p.state = "Passed" THEN {"passed"} ELSE LiveStages

Starts(p, t, stage) == stage \in StartStages /\ Run(p, t).ready

\* The aircraft qualifies: a known message follows it, a new one starts when
\* the run of confirmations is complete; the record is written in any case.
Qualify(p, t, veto, stage) ==
    /\ ~Quiet /\ ~ObservedPass(p, t) /\ Qualifies(p, t, veto)
    /\ stage \in StagesOf(p)
    /\ LET m == IF HasMessage THEN Old.msg ELSE 0
       IN  IF HasMessage \/ Starts(p, t, stage)
           THEN Send("live", m, Going(p, t, stage, m))
           ELSE Write(Going(p, t, stage, 0))

Cycle ==
    \E p \in Predictions, t \in 1..MaxClock, veto \in BOOLEAN :
        /\ Sampled(p, t)
        /\ veto => MayVeto(p)
        /\ Observed(p, t, veto)
        /\ \/ Skip \/ Pass(p, t) \/ Cancel(p, t, veto) \/ Hold(p, t, veto)
           \/ StartOver(p, t, veto) \/ Ignore(p, t, veto)
           \/ \E stage \in Stages : Qualify(p, t, veto, stage)

-----------------------------------------------------------------------------
(* Delivery: send_or_update_approach and the write that follows it.        *)

Shown(text) == [text |-> text, ident |-> call.next.ident, kept |-> now]

\* The id of a message sent anew: one that was never used.
NewId == CHOOSE m \in Unsent : TRUE

\* What the answer leads to: only an undelivered ending is not recorded.
Answered(m) ==
    /\ rec' = IF m = 0 /\ call.kind # "live" THEN rec
              ELSE IF m = 0 THEN [call.next EXCEPT !.at = now]
              ELSE [call.next EXCEPT !.msg = m, !.count = 0, !.icpa = NoVal,
                                     !.ieta = NoVal, !.at = now]
    /\ pc' = "idle" /\ call' = NoCall
    /\ UNCHANGED <<world, saved, trail, struck, entered, restarts>>

\* The known message shows the new stage.
Edited ==
    /\ pc = "sending" /\ call.msg # 0
    /\ chat' = [chat EXCEPT ![call.msg] = Shown(call.next.stage)]
    /\ Answered(call.msg)
    /\ UNCHANGED <<lost, failures>>

\* A first message, or one that takes the place of a message that cannot be
\* edited, which is then deleted.
SentAnew ==
    /\ pc = "sending" /\ Unsent # {}
    /\ chat' = [m \in 1..MaxMessages |->
                   IF m = NewId THEN Shown(call.next.stage)
                   ELSE IF m = call.msg THEN [chat[m] EXCEPT !.text = "absent"]
                   ELSE chat[m]]
    /\ Answered(NewId)
    /\ UNCHANGED <<lost, failures>>

\* No answer, or a refusal: None is returned.
Failed ==
    /\ pc = "sending" /\ failures < MaxFailures
    /\ failures' = failures + 1
    /\ chat' = Upkept(chat, IF call.kind = "live" THEN call.msg ELSE 0)
    /\ Answered(0)
    /\ UNCHANGED lost

\* The request took effect although no answer came back.
Carried ==
    IF call.msg # 0
    THEN chat' = [chat EXCEPT ![call.msg] = Shown(call.next.stage)]
    ELSE Unsent # {} /\ chat' = [chat EXCEPT ![NewId] = Shown(call.next.stage)]

AnswerLost ==
    /\ pc = "sending" /\ failures < MaxFailures
    /\ failures' = failures + 1 /\ lost' = TRUE
    /\ Carried
    /\ Answered(0)

-----------------------------------------------------------------------------
(* The world, the database and the process.                                *)

Tick ==
    /\ now < MaxClock
    /\ now' = now + 1
    /\ UNCHANGED <<ident, seen, pos, path, rec, saved, pc, call, chat, history>>

\* The user changes a setting, or the aircraft its callsign.
Reconfigure ==
    /\ ident < MaxIdent
    /\ ident' = ident + 1
    /\ UNCHANGED <<now, seen, pos, path, rec, saved, pc, call, chat, history>>

\* The storage runtime persists the record some time after it is written; it
\* matters while a restart is left.
Save ==
    /\ restarts < MaxRestarts /\ saved # rec
    /\ saved' = rec
    /\ UNCHANGED <<world, rec, pc, call, chat, history>>

\* The process restarts from what was saved; a send may be carried out or not.
Restart ==
    /\ restarts < MaxRestarts
    /\ restarts' = restarts + 1
    /\ rec' = saved
    /\ pc' = "idle" /\ call' = NoCall
    /\ seen' = 0 /\ pos' = 0 /\ path' = 0
    /\ lost' = (lost \/ saved # rec \/ pc = "sending")
    /\ UNCHANGED chat \/ (pc = "sending" /\ Carried)
    /\ trail' = [i \in 1..3 |-> Blank] /\ struck' = {}
    /\ UNCHANGED <<now, ident, saved, entered, failures>>

Deliver == Edited \/ SentAnew \/ Failed \/ AnswerLost

Next == Cycle \/ Deliver \/ Tick \/ Reconfigure \/ Save \/ Restart

Spec == Init /\ [][Next]_vars
-----------------------------------------------------------------------------
(* Properties.                                                             *)

\* In the life of a process the first message of an encounter needs the aircraft
\* inside the radius, now or one observation ago, or three qualifying
\* observations in a row; and none of them follows the one before it after a gap,
\* with a jump or under other settings (resolve_initial_alert_confirmation).
Follows(i) ==
    /\ trail[i].ok /\ trail[i - 1].ok
    /\ trail[i].ident = trail[i - 1].ident
    /\ trail[i].t - trail[i - 1].t <= GapMax
    /\ Stable(trail[i].cpa, trail[i].eta, trail[i - 1].cpa, trail[i - 1].eta)

FirstMessageConfirmed ==
    restarts = 0 /\ pc = "sending" /\ call.msg = 0 =>
        \/ pos <= Radius
        \/ Follows(3) /\ (trail[2].cur <= Radius \/ Follows(2))

\* In the life of a process a cancellation needs three different samples that
\* speak against the alert since it last qualified: a restart may return to a
\* record with strikes that a later cycle had reset (resolve_cancellation_confirmation).
CancelConfirmed ==
    restarts = 0 /\ pc = "sending" /\ call.kind = "cancelled" =>
        Cardinality(struck) >= Required

\* A pass is announced only of an aircraft that was inside the radius since the
\* alert went live (should_finalize_observed_pass).
PassWasObserved ==
    pc = "sending" /\ call.kind = "passed" => entered = "live"

\* The weaker fact: a pass is announced only of an aircraft that was inside the
\* radius at some time, whatever was predicted of it.
PassNotPredicted ==
    pc = "sending" /\ call.kind = "passed" => entered # "never"

\* A second first message is sent only for a new configuration or flight, or
\* when the alert was left alone for half an hour.
NoDuplicate ==
    ~lost /\ pc = "sending" /\ call.msg = 0 =>
        \A m \in DOMAIN chat :
            chat[m].text \in LiveStages \cup {"passed", "cancelled"} =>
                chat[m].ident # call.next.ident \/ call.next.at - chat[m].kept > MaxAge

\* A cancelled message is edited or replaced only when a sample shows the
\* aircraft inside the radius, however often it qualifies, or when the edit that
\* such a sample led to has failed (cancelled_latch_allows_reactivation).
CancelledStays ==
    [][~lost' => \A m \in DOMAIN chat :
        chat[m].text = "cancelled" /\ chat'[m].text # "cancelled" =>
            pos <= Radius \/ (failures > 0 /\ rec # NoRec /\ rec.active)]_vars
=============================================================================
