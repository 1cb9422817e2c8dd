------------------------- MODULE AlertLifecycleProofs -------------------------
(***************************************************************************)
(* Theorems about AlertLifecycle for every set of predictions, every        *)
(* radius, every limit and every bound.                                    *)
(***************************************************************************)
EXTENDS AlertLifecycle, FiniteSetTheorems, TLAPS

-----------------------------------------------------------------------------
(* Type correctness.                                                       *)

\* What the assumption on the predictions says of one of them.
LEMMA PredictionType ==
    ASSUME NEW p \in Predictions
    PROVE  /\ p \in Prediction
           /\ p.cur \in Nat /\ p.cpa \in Nat /\ p.eta \in Value /\ p.trend \in Int
           /\ p.conf \in Nat /\ p.enters \in BOOLEAN /\ p.stale \in BOOLEAN
           /\ p.state \in States
           /\ Feasible(p)
  BY PredictionsAssumption DEF Prediction

\* The record a cycle goes by is the record, or none.
LEMMA OldType ==
    ASSUME TypeOK
    PROVE  /\ Old \in Record \cup {NoRec}
           /\ Known => Old = rec /\ rec # NoRec /\ rec \in Record /\ Old \in Record
                       /\ rec.ident = ident /\ now - rec.at <= MaxAge
           /\ Old = NoRec => ~Known
  BY SentinelAssumption DEF TypeOK, Old, Known

\* The fields of a record.
LEMMA RecordFields ==
    ASSUME NEW r \in Record
    PROVE  /\ r.msg \in Nat /\ r.active \in BOOLEAN /\ r.stage \in Stages
           /\ r.cpa \in Nat /\ r.closest \in Nat /\ r.strikes \in Nat
           /\ r.count \in Nat /\ r.icpa \in Value /\ r.ieta \in Value
           /\ r.obs \in Nat /\ r.at \in Nat /\ r.ident \in Nat
  BY DEF Record

\* A record stays one when a field of it changes.
LEMMA RecordUpdate ==
    ASSUME NEW r \in Record
    PROVE  /\ \A m \in Nat : [r EXCEPT !.msg = m] \in Record
           /\ \A b \in BOOLEAN : [r EXCEPT !.active = b] \in Record
           /\ \A s \in Stages : [r EXCEPT !.stage = s] \in Record
           /\ \A n \in Nat : [r EXCEPT !.cpa = n] \in Record
           /\ \A n \in Nat : [r EXCEPT !.closest = n] \in Record
           /\ \A n \in Nat : [r EXCEPT !.strikes = n] \in Record
           /\ \A n \in Nat : [r EXCEPT !.count = n] \in Record
           /\ \A v \in Value : [r EXCEPT !.icpa = v] \in Record
           /\ \A v \in Value : [r EXCEPT !.ieta = v] \in Record
           /\ \A n \in Nat : [r EXCEPT !.obs = n] \in Record
           /\ \A n \in Nat : [r EXCEPT !.at = n] \in Record
  BY DEF Record

\* A record without its run of confirmations.
LEMMA RunCleared ==
    ASSUME NEW r \in Record
    PROVE  [r EXCEPT !.count = 0, !.icpa = NoVal, !.ieta = NoVal] \in Record
<1>. DEFINE r1 == [r EXCEPT !.count = 0]
            r2 == [r1 EXCEPT !.icpa = NoVal]
            r3 == [r2 EXCEPT !.ieta = NoVal]
<1>1. r1 \in Record
  BY RecordUpdate
<1>2. r2 \in Record
  <2>. HIDE DEF r1
  <2>. QED  BY <1>1, RecordUpdate DEF Value
<1>3. r3 \in Record
  <2>. HIDE DEF r2
  <2>. QED  BY <1>2, RecordUpdate DEF Value
<1>. QED  BY <1>3

\* The closest distance observed is a distance.
LEMMA ClosestType ==
    ASSUME TypeOK, NEW p \in Predictions
    PROVE  Closest(p) \in Nat
  BY OldType, RecordFields, PredictionType DEF Closest, Smaller

\* The record of an alert that ends.
LEMMA EndedType ==
    ASSUME TypeOK, Known, NEW stage \in {"passed", "cancelled"},
           NEW p \in Predictions, NEW t \in Nat
    PROVE  /\ Ended(stage, p, t) \in Record
           /\ Ended(stage, p, t).msg = Old.msg /\ ~Ended(stage, p, t).active
           /\ Ended(stage, p, t).stage = stage
           /\ Ended(stage, p, t).closest = Closest(p)
           /\ Ended(stage, p, t).strikes = 0 /\ Ended(stage, p, t).count = 0
           /\ Ended(stage, p, t).obs = t /\ Ended(stage, p, t).at = now
           /\ Ended(stage, p, t).ident = Old.ident
<1>1. Closest(p) \in Nat /\ p.cpa \in Nat /\ now \in Nat /\ Old \in Record
  BY ClosestType, PredictionType, OldType DEF TypeOK
<1>2. NoVal \in Value /\ stage \in Stages /\ FALSE \in BOOLEAN
  BY DEF Value, Stages
<1>3. Ended(stage, p, t) \in Record
  <2>. DEFINE r1 == [Old EXCEPT !.active = FALSE]
              r2 == [r1 EXCEPT !.stage = stage]
              r3 == [r2 EXCEPT !.cpa = p.cpa]
              r4 == [r3 EXCEPT !.closest = Closest(p)]
              r5 == [r4 EXCEPT !.strikes = 0]
              r6 == [r5 EXCEPT !.count = 0, !.icpa = NoVal, !.ieta = NoVal]
              r7 == [r6 EXCEPT !.obs = t]
              r8 == [r7 EXCEPT !.at = now]
  <2>0. Ended(stage, p, t) = r8
    BY DEF Ended
  <2>1. r1 \in Record
    BY <1>1, <1>2, RecordUpdate
  <2>. HIDE DEF r1
  <2>2. r2 \in Record
    BY <2>1, <1>2, RecordUpdate
  <2>. HIDE DEF r2
  <2>3. r3 \in Record
    BY <2>2, <1>1, RecordUpdate
  <2>. HIDE DEF r3
  <2>4. r4 \in Record
    BY <2>3, <1>1, RecordUpdate
  <2>. HIDE DEF r4
  <2>5. r5 \in Record
    BY <2>4, RecordUpdate
  <2>. HIDE DEF r5
  <2>6. r6 \in Record
    BY <2>5, RunCleared
  <2>. HIDE DEF r6
  <2>7. r7 \in Record
    BY <2>6, RecordUpdate
  <2>. HIDE DEF r7
  <2>8. r8 \in Record
    BY <2>7, <1>1, RecordUpdate
  <2>. QED  BY <2>0, <2>8
<1>. QED  BY <1>1, <1>3 DEF Ended, Record

\* The run of confirmations.
LEMMA RunType ==
    ASSUME TypeOK, NEW p \in Predictions, NEW t \in Nat \ {0}
    PROVE  /\ Run(p, t).ready \in BOOLEAN /\ Run(p, t).count \in Nat
           /\ Run(p, t).cpa \in Value /\ Run(p, t).eta \in Value
<1>. DEFINE before == IF Continues(t) THEN Old.count ELSE 0
            stable == before > 0 => Stable(p.cpa, p.eta, Old.icpa, Old.ieta)
            counted == Smaller(Required, (IF stable THEN before ELSE 0) + 1)
<1>1. before \in Nat
  BY OldType, RecordFields DEF Continues
<1>2. counted \in Nat
  BY <1>1 DEF Smaller, Required
<1>3. p.cpa \in Value /\ p.eta \in Value /\ NoVal \in Value
  BY PredictionType DEF Value
<1>4. ~Fresh(t) => Known
  BY DEF Fresh
<1>5. Known => Old.icpa \in Value /\ Old.ieta \in Value
  BY OldType, RecordFields
<1>6. Run(p, t) =
        IF Fresh(t) /\ ~p.stale /\ Inside(p)
        THEN [ready |-> TRUE, count |-> Required, cpa |-> p.cpa, eta |-> p.eta]
        ELSE IF p.stale
        THEN [ready |-> FALSE, count |-> 0, cpa |-> NoVal, eta |-> NoVal]
        ELSE IF ~Fresh(t)
        THEN [ready |-> FALSE, count |-> before, cpa |-> Old.icpa, eta |-> Old.ieta]
        ELSE [ready |-> counted >= Required, count |-> counted,
              cpa |-> p.cpa, eta |-> p.eta]
  BY DEF Run
<1>. HIDE DEF before, counted
<1>7. CASE Fresh(t) /\ ~p.stale /\ Inside(p)
  BY <1>3, <1>6, <1>7 DEF Required
<1>8. CASE p.stale
  BY <1>3, <1>6, <1>8
<1>9. CASE ~p.stale /\ ~Fresh(t)
  BY <1>1, <1>4, <1>5, <1>6, <1>9
<1>10. CASE ~p.stale /\ Fresh(t) /\ ~Inside(p)
  <2>1. Run(p, t) = [ready |-> counted >= Required, count |-> counted,
                     cpa |-> p.cpa, eta |-> p.eta]
    BY <1>6, <1>10
  <2>2. (counted >= Required) \in BOOLEAN
    OBVIOUS
  <2>. QED  BY <1>2, <1>3, <2>1, <2>2
<1>. QED  BY <1>7, <1>8, <1>9, <1>10

\* The record of a qualifying cycle.
LEMMA GoingType ==
    ASSUME TypeOK, NEW p \in Predictions, NEW t \in Nat \ {0},
           NEW stage \in StagesOf(p), NEW m \in Nat
    PROVE  /\ Going(p, t, stage, m) \in Record
           /\ Going(p, t, stage, m).msg = m /\ Going(p, t, stage, m).active
           /\ Going(p, t, stage, m).stage = stage /\ stage # "cancelled"
           /\ Going(p, t, stage, m).closest = Closest(p)
           /\ Going(p, t, stage, m).strikes = 0
           /\ Going(p, t, stage, m).obs = t /\ Going(p, t, stage, m).at = now
           /\ Going(p, t, stage, m).ident = ident
           /\ m = 0 /\ ~Active =>
                 /\ Going(p, t, stage, m).count = Run(p, t).count
                 /\ Going(p, t, stage, m).icpa = Run(p, t).cpa
                 /\ Going(p, t, stage, m).ieta = Run(p, t).eta
<1>1. Closest(p) \in Nat /\ p.cpa \in Nat /\ now \in Nat /\ ident \in Nat
  BY ClosestType, PredictionType DEF TypeOK
<1>2. NoVal \in Value /\ stage \in Stages /\ stage # "cancelled"
  BY StagesAssumption DEF Value, Stages, StagesOf
<1>. DEFINE run == IF Active
                   THEN [ready |-> TRUE, count |-> 0, cpa |-> NoVal, eta |-> NoVal]
                   ELSE Run(p, t)
<1>3. run.count \in Nat /\ run.cpa \in Value /\ run.eta \in Value
  BY <1>2, RunType
<1>. DEFINE count == IF m # 0 THEN 0 ELSE run.count
            icpa == IF m # 0 THEN NoVal ELSE run.cpa
            ieta == IF m # 0 THEN NoVal ELSE run.eta
<1>4. Going(p, t, stage, m) =
        [msg |-> m, active |-> TRUE, stage |-> stage, cpa |-> p.cpa,
         closest |-> Closest(p), strikes |-> 0, count |-> count, icpa |-> icpa,
         ieta |-> ieta, obs |-> t, at |-> now, ident |-> ident]
  BY DEF Going
<1>5. count \in Nat /\ icpa \in Value /\ ieta \in Value
  BY <1>2, <1>3
<1>6. m = 0 /\ ~Active => count = Run(p, t).count /\ icpa = Run(p, t).cpa
                          /\ ieta = Run(p, t).eta
  OBVIOUS
<1>. HIDE DEF count, icpa, ieta
<1>. QED  BY <1>1, <1>2, <1>4, <1>5, <1>6 DEF Record

\* The records that Hold and StartOver write.
Held(p, t, veto) ==
    [Old EXCEPT !.closest = Closest(p), !.obs = t, !.at = now,
                !.strikes = Strikes(p, t, veto)]

StartedOver(p, t) ==
    [Old EXCEPT !.active = FALSE, !.stage = "candidate", !.cpa = p.cpa,
                !.count = 0, !.icpa = NoVal, !.ieta = NoVal, !.obs = t, !.at = now]

LEMMA HeldType ==
    ASSUME TypeOK, Known, NEW p \in Predictions, NEW t \in Nat, NEW veto \in BOOLEAN
    PROVE  /\ Held(p, t, veto) \in Record
           /\ Held(p, t, veto).msg = Old.msg /\ (Held(p, t, veto).active <=> Old.active)
           /\ Held(p, t, veto).stage = Old.stage
           /\ Held(p, t, veto).closest = Closest(p)
           /\ Held(p, t, veto).strikes = Strikes(p, t, veto)
           /\ Held(p, t, veto).count = Old.count
           /\ Held(p, t, veto).obs = t /\ Held(p, t, veto).at = now
           /\ Held(p, t, veto).ident = Old.ident
<1>1. Closest(p) \in Nat /\ now \in Nat /\ Old \in Record
  BY ClosestType, OldType DEF TypeOK
<1>2. Strikes(p, t, veto) \in Nat
  BY <1>1, RecordFields DEF Strikes
<1>3. Held(p, t, veto) \in Record
  <2>. DEFINE r1 == [Old EXCEPT !.closest = Closest(p)]
              r2 == [r1 EXCEPT !.obs = t]
              r3 == [r2 EXCEPT !.at = now]
              r4 == [r3 EXCEPT !.strikes = Strikes(p, t, veto)]
  <2>0. Held(p, t, veto) = r4
    BY DEF Held
  <2>1. r1 \in Record
    BY <1>1, RecordUpdate
  <2>. HIDE DEF r1
  <2>2. r2 \in Record
    BY <2>1, RecordUpdate
  <2>. HIDE DEF r2
  <2>3. r3 \in Record
    BY <2>2, <1>1, RecordUpdate
  <2>. HIDE DEF r3
  <2>4. r4 \in Record
    BY <2>3, <1>2, RecordUpdate
  <2>. QED  BY <2>0, <2>4
<1>. QED  BY <1>1, <1>3 DEF Held, Record

LEMMA StartedOverType ==
    ASSUME TypeOK, Known, NEW p \in Predictions, NEW t \in Nat
    PROVE  /\ StartedOver(p, t) \in Record
           /\ StartedOver(p, t).msg = Old.msg /\ ~StartedOver(p, t).active
           /\ StartedOver(p, t).closest = Old.closest
           /\ StartedOver(p, t).strikes = Old.strikes /\ StartedOver(p, t).count = 0
           /\ StartedOver(p, t).obs = t /\ StartedOver(p, t).at = now
           /\ StartedOver(p, t).ident = Old.ident
<1>1. p.cpa \in Nat /\ now \in Nat /\ Old \in Record
  BY PredictionType, OldType DEF TypeOK
<1>2. FALSE \in BOOLEAN /\ "candidate" \in Stages
  BY DEF Stages
<1>3. StartedOver(p, t) \in Record
  <2>. DEFINE r1 == [Old EXCEPT !.active = FALSE]
              r2 == [r1 EXCEPT !.stage = "candidate"]
              r3 == [r2 EXCEPT !.cpa = p.cpa]
              r4 == [r3 EXCEPT !.count = 0, !.icpa = NoVal, !.ieta = NoVal]
              r5 == [r4 EXCEPT !.obs = t]
              r6 == [r5 EXCEPT !.at = now]
  <2>0. StartedOver(p, t) = r6
    BY DEF StartedOver
  <2>1. r1 \in Record
    BY <1>1, <1>2, RecordUpdate
  <2>. HIDE DEF r1
  <2>2. r2 \in Record
    BY <2>1, <1>2, RecordUpdate
  <2>. HIDE DEF r2
  <2>3. r3 \in Record
    BY <2>2, <1>1, RecordUpdate
  <2>. HIDE DEF r3
  <2>4. r4 \in Record
    BY <2>3, RunCleared
  <2>. HIDE DEF r4
  <2>5. r5 \in Record
    BY <2>4, RecordUpdate
  <2>. HIDE DEF r5
  <2>6. r6 \in Record
    BY <2>5, <1>1, RecordUpdate
  <2>. QED  BY <2>0, <2>6
<1>. QED  BY <1>1, <1>3 DEF StartedOver, Record

\* The id of a message sent anew is that of an unsent message.
LEMMA NewIdType ==
    ASSUME Unsent # {}
    PROVE  NewId \in Unsent /\ NewId \in 1..MaxMessages /\ NewId \in Nat \ {0}
<1>1. MaxMessages \in Nat
  BY LimitsAssumption
<1>2. Unsent \subseteq 1..MaxMessages /\ Unsent \subseteq Nat
  BY <1>1 DEF Unsent
<1>3. NewId \in Unsent
  BY DEF NewId
<1>. QED  BY <1>1, <1>2, <1>3

\* What the upkeep of a message leaves of the chat.
LEMMA UpkeptType ==
    ASSUME TypeOK, NEW m \in Nat
    PROVE  /\ Upkept(chat, m) \in [1..MaxMessages -> Message]
           /\ \A n \in 1..MaxMessages :
                 /\ Upkept(chat, m)[n].text = chat[n].text
                 /\ Upkept(chat, m)[n].ident = chat[n].ident
                 /\ Upkept(chat, m)[n].kept = IF n = m THEN now ELSE chat[n].kept
<1>1. now \in Nat /\ chat \in [1..MaxMessages -> Message]
  BY DEF TypeOK
<1>2. CASE m \in 1..MaxMessages
  BY <1>1, <1>2 DEF Upkept, Message
<1>3. CASE m \notin 1..MaxMessages
  BY <1>1, <1>3 DEF Upkept
<1>. QED  BY <1>2, <1>3

-----------------------------------------------------------------------------
(* Type correctness is not inductive by itself: the answer to a send writes *)
(* the record that was made when it began.                                 *)

\* The message being sent and the record to be written fit each other, the
\* record in force and the sample they were made from.
CallSound ==
    pc = "sending" =>
        /\ call \in Call
        /\ call.next.msg = call.msg
        /\ call.msg # 0 => rec # NoRec /\ rec.msg = call.msg
        /\ call.kind = "live" => call.next.active /\ call.next.stage # "cancelled"
        /\ call.kind # "live" => /\ call.msg # 0
                                 /\ ~call.next.active /\ call.next.stage = call.kind
        /\ call.next.ident <= ident /\ call.next.at <= now
        /\ call.next.strikes = 0 /\ call.next.obs = seen

Sound == TypeOK /\ CallSound

LEMMA InitSound == Init => Sound
<1>. SUFFICES ASSUME Init  PROVE Sound
  OBVIOUS
<1>1. Absent \in Message /\ Blank \in Look
  BY DEF Absent, Message, Blank, Look, Value
<1>2. chat \in [1..MaxMessages -> Message] /\ trail \in [1..3 -> Look]
  BY <1>1 DEF Init
<1>. QED  BY <1>2 DEF Init, Sound, TypeOK, CallSound

\* A cycle leaves the samples and the history well typed.
LEMMA ObservedType ==
    ASSUME TypeOK, NEW p \in Predictions, NEW t \in 1..MaxClock, NEW veto \in BOOLEAN,
           Sampled(p, t), Observed(p, t, veto)
    PROVE  /\ now' \in Nat /\ ident' \in Nat /\ seen' \in Nat /\ pos' \in Nat
           /\ path' \in Nat
           /\ trail' \in [1..3 -> Look] /\ struck' \in SUBSET Nat
           /\ entered' \in {"never", "before", "live"} /\ lost' \in BOOLEAN
           /\ restarts' \in Nat /\ failures' \in Nat
           /\ saved' \in Record \cup {NoRec}
<1>1. t \in Nat
  BY LimitsAssumption
<1>2. now' \in Nat /\ ident' \in Nat /\ seen' \in Nat /\ pos' \in Nat /\ path' \in Nat
  BY <1>1, PredictionType DEF TypeOK, Sampled, Observed
<1>. DEFINE ok   == Qualifies(p, t, veto)
            look == [t |-> t, ident |-> ident, cur |-> p.cur, cpa |-> p.cpa,
                     eta |-> p.eta, ok |-> ok]
<1>3. ok \in BOOLEAN
  BY PredictionType DEF Qualifies, LiveQualifies
<1>4. look \in Look
  <2>. HIDE DEF ok
  <2>. QED  BY <1>1, <1>3, PredictionType DEF Look, TypeOK
<1>5. trail' \in [1..3 -> Look]
  <2>. HIDE DEF ok
  <2>1. trail \in [1..3 -> Look] /\ trail[2] \in Look /\ trail[3] \in Look
    BY DEF TypeOK
  <2>2. [trail[3] EXCEPT !.ok = look.ok] \in Look
    BY <2>1, <1>3 DEF Look
  <2>3. trail' = IF trail[3].t # t THEN <<trail[2], trail[3], look>>
                 ELSE [trail EXCEPT ![3] = IF Fresh(t) THEN look
                                           ELSE [trail[3] EXCEPT !.ok = look.ok]]
    BY DEF Observed, ok
  <2>. HIDE DEF look
  <2>. QED  BY <1>4, <2>1, <2>2, <2>3
<1>6. struck' \in SUBSET Nat
  BY <1>1 DEF TypeOK, Observed
<1>7. entered' \in {"never", "before", "live"}
  BY DEF TypeOK, Observed
<1>. QED  BY <1>2, <1>5, <1>6, <1>7 DEF TypeOK, Observed

\* A cycle that writes its record.
LEMMA WriteSound ==
    ASSUME TypeOK, pc = "idle", NEW r \in Record, Write(r)
    PROVE  /\ rec' \in Record /\ pc' = "idle" /\ call' \in Call \cup {NoCall}
           /\ chat' \in [1..MaxMessages -> Message]
  BY UpkeptType, RecordFields DEF TypeOK, Write

\* A cycle that sends a message.
LEMMA SendSound ==
    ASSUME TypeOK, NEW kind \in {"passed", "cancelled", "live"}, NEW m \in Nat,
           NEW next \in Record, Send(kind, m, next)
    PROVE  /\ pc' = "sending" /\ call' \in Call
           /\ call'.kind = kind /\ call'.msg = m /\ call'.next = next
           /\ rec' = rec /\ chat' = chat
           /\ rec' \in Record \cup {NoRec} /\ chat' \in [1..MaxMessages -> Message]
  BY DEF TypeOK, Send, Call

\* What the steps of a cycle do to the record and the call, without the rest.
LEMMA CycleCases ==
    ASSUME Sound, NEW p \in Predictions, NEW t \in 1..MaxClock, NEW veto \in BOOLEAN,
           Sampled(p, t),
           \/ Skip \/ Pass(p, t) \/ Cancel(p, t, veto) \/ Hold(p, t, veto)
           \/ StartOver(p, t, veto) \/ Ignore(p, t, veto)
           \/ \E stage \in Stages : Qualify(p, t, veto, stage)
    PROVE  \/ UNCHANGED <<rec, pc, call, chat>>
           \/ \E r \in Record :
                 /\ Write(r) /\ r.msg = (IF Known THEN Old.msg ELSE 0)
                 /\ r.ident = ident /\ r.at = now
           \/ \E kind \in {"passed", "cancelled", "live"}, m \in Nat, next \in Record :
                 /\ Send(kind, m, next)
                 /\ next.msg = m /\ next.ident = ident /\ next.at = now
                 /\ next.strikes = 0 /\ next.obs = t
                 /\ m = (IF Known THEN Old.msg ELSE 0)
                 /\ kind = "live" => next.active /\ next.stage # "cancelled"
                 /\ kind # "live" => m # 0 /\ ~next.active /\ next.stage = kind
<1>0. TypeOK /\ t \in Nat \ {0}
  BY LimitsAssumption DEF Sound
<1>1. Known => Old.msg \in Nat /\ Old.ident = ident
  BY <1>0, OldType, RecordFields
<1>2. CASE Skip
  BY <1>2 DEF Skip
<1>3. CASE Pass(p, t)
  <2>1. Known /\ Old.msg # 0 /\ Send("passed", Old.msg, Ended("passed", p, t))
    BY <1>3 DEF Pass, ObservedPass, Active
  <2>. QED  BY <2>1, <1>0, <1>1, EndedType
<1>4. CASE Cancel(p, t, veto)
  <2>1. Known /\ Old.msg # 0 /\ Send("cancelled", Old.msg, Ended("cancelled", p, t))
    BY <1>4 DEF Cancel, Active
  <2>. QED  BY <2>1, <1>0, <1>1, EndedType
<1>5. CASE Hold(p, t, veto)
  <2>. DEFINE r == Held(p, t, veto)
  <2>1. Known /\ Write(r)
    BY <1>5 DEF Hold, Active, Held
  <2>2. r \in Record /\ r.msg = Old.msg /\ r.ident = Old.ident /\ r.at = now
    BY <2>1, <1>0, HeldType
  <2>. HIDE DEF r
  <2>. QED  BY <2>1, <2>2, <1>1
<1>6. CASE StartOver(p, t, veto)
  <2>. DEFINE r == StartedOver(p, t)
  <2>1. Known /\ Write(r)
    BY <1>6 DEF StartOver, StartedOver
  <2>2. r \in Record /\ r.msg = Old.msg /\ r.ident = Old.ident /\ r.at = now
    BY <2>1, <1>0, StartedOverType
  <2>. HIDE DEF r
  <2>. QED  BY <2>1, <2>2, <1>1
<1>7. CASE Ignore(p, t, veto)
  BY <1>7 DEF Ignore
<1>8. CASE \E stage \in Stages : Qualify(p, t, veto, stage)
  <2>. DEFINE m == IF HasMessage THEN Old.msg ELSE 0
  <2>1. PICK stage \in StagesOf(p) :
            IF HasMessage \/ Starts(p, t, stage)
            THEN Send("live", m, Going(p, t, stage, m))
            ELSE Write(Going(p, t, stage, 0))
    BY <1>8 DEF Qualify
  <2>2. m \in Nat /\ m = (IF Known THEN Old.msg ELSE 0) /\ (~HasMessage => m = 0)
    BY <1>1 DEF HasMessage
  <2>. HIDE DEF m
  <2>3. CASE HasMessage \/ Starts(p, t, stage)
    BY <2>1, <2>2, <2>3, <1>0, GoingType
  <2>4. CASE ~(HasMessage \/ Starts(p, t, stage))
    BY <2>1, <2>2, <2>4, <1>0, GoingType
  <2>. QED  BY <2>3, <2>4
<1>. QED  BY <1>2, <1>3, <1>4, <1>5, <1>6, <1>7, <1>8

LEMMA CycleSound ==
    ASSUME Sound, Cycle  PROVE Sound'
<1>1. PICK p \in Predictions, t \in 1..MaxClock, veto \in BOOLEAN :
        /\ Sampled(p, t) /\ Observed(p, t, veto)
        /\ \/ Skip \/ Pass(p, t) \/ Cancel(p, t, veto) \/ Hold(p, t, veto)
           \/ StartOver(p, t, veto) \/ Ignore(p, t, veto)
           \/ \E stage \in Stages : Qualify(p, t, veto, stage)
  BY DEF Cycle
<1>2. TypeOK /\ pc = "idle" /\ seen' = t /\ t \in Nat
  BY <1>1, LimitsAssumption DEF Sound, Sampled
<1>3. now' = now /\ ident' = ident /\ now \in Nat /\ ident \in Nat
  BY <1>1, <1>2 DEF Observed, TypeOK
<1>4. CASE UNCHANGED <<rec, pc, call, chat>>
  BY <1>1, <1>2, <1>4, ObservedType DEF Sound, TypeOK, CallSound
<1>5. CASE \E r \in Record : Write(r)
  <2>1. /\ rec' \in Record /\ pc' = "idle" /\ call' \in Call \cup {NoCall}
        /\ chat' \in [1..MaxMessages -> Message]
    BY <1>2, <1>5, WriteSound
  <2>. QED  BY <1>1, <1>2, <2>1, ObservedType DEF Sound, TypeOK, CallSound
<1>6. ASSUME NEW kind \in {"passed", "cancelled", "live"}, NEW m \in Nat,
             NEW next \in Record, Send(kind, m, next),
             next.msg = m, next.ident = ident, next.at = now,
             next.strikes = 0, next.obs = t,
             m = (IF Known THEN Old.msg ELSE 0),
             kind = "live" => next.active /\ next.stage # "cancelled",
             kind # "live" => m # 0 /\ ~next.active /\ next.stage = kind
      PROVE  Sound'
  <2>1. /\ pc' = "sending" /\ call' \in Call
        /\ call'.kind = kind /\ call'.msg = m /\ call'.next = next
        /\ rec' = rec /\ chat' = chat
        /\ rec' \in Record \cup {NoRec} /\ chat' \in [1..MaxMessages -> Message]
    BY <1>2, <1>6, SendSound
  <2>2. m # 0 => rec # NoRec /\ rec.msg = m
    BY <1>2, <1>6, OldType
  <2>3. TypeOK'
    BY <1>1, <1>2, <2>1, ObservedType DEF TypeOK
  <2>4. CallSound'
    BY <1>2, <1>3, <1>6, <2>1, <2>2 DEF CallSound
  <2>. QED  BY <2>3, <2>4 DEF Sound
<1>. QED  BY <1>1, <1>4, <1>5, <1>6, CycleCases

\* The record that an answer writes.
LEMMA AnsweredType ==
    ASSUME Sound, pc = "sending", NEW m \in Nat, Answered(m)
    PROVE  /\ rec' \in Record \cup {NoRec} /\ pc' = "idle" /\ call' = NoCall
           /\ m = 0 /\ call.kind # "live" => rec' = rec
           /\ ~(m = 0 /\ call.kind # "live") =>
                 /\ rec' \in Record /\ rec'.at = now
                 /\ rec'.msg = IF m = 0 THEN call.msg ELSE m
                 /\ (rec'.active <=> call.next.active) /\ rec'.stage = call.next.stage
                 /\ rec'.closest = call.next.closest /\ rec'.strikes = 0
                 /\ rec'.obs = call.next.obs /\ rec'.ident = call.next.ident
           /\ m = 0 /\ call.kind = "live" =>
                 /\ rec'.count = call.next.count /\ rec'.icpa = call.next.icpa
                 /\ rec'.ieta = call.next.ieta
           /\ UNCHANGED <<now, ident, seen, pos, path, saved, trail, struck, entered,
                         restarts>>
<1>1. call \in Call /\ call.next \in Record /\ now \in Nat /\ rec \in Record \cup {NoRec}
  BY DEF Sound, CallSound, Call, TypeOK
<1>2. call.next.msg = call.msg /\ call.next.strikes = 0
  BY DEF Sound, CallSound
<1>3. pc' = "idle" /\ call' = NoCall
      /\ UNCHANGED <<now, ident, seen, pos, path, saved, trail, struck, entered, restarts>>
  BY DEF Answered, world
<1>4. CASE m = 0 /\ call.kind # "live"
  BY <1>1, <1>3, <1>4 DEF Answered
<1>5. CASE m = 0 /\ call.kind = "live"
  <2>1. rec' = [call.next EXCEPT !.at = now]
    BY <1>5 DEF Answered
  <2>2. rec' \in Record
    BY <1>1, <2>1, RecordUpdate
  <2>. QED  BY <1>1, <1>2, <1>3, <1>5, <2>1, <2>2 DEF Record
<1>6. CASE m # 0
  <2>. DEFINE r1 == [call.next EXCEPT !.msg = m]
              r2 == [r1 EXCEPT !.count = 0, !.icpa = NoVal, !.ieta = NoVal]
              r3 == [r2 EXCEPT !.at = now]
  <2>1. rec' = [call.next EXCEPT !.msg = m, !.count = 0, !.icpa = NoVal,
                                 !.ieta = NoVal, !.at = now]
    BY <1>6 DEF Answered
  <2>2. rec' = r3
    BY <2>1
  <2>3. r1 \in Record
    BY <1>1, RecordUpdate
  <2>4. r2 \in Record
    <3>. HIDE DEF r1
    <3>. QED  BY <2>3, RunCleared
  <2>5. r3 \in Record
    <3>. HIDE DEF r2
    <3>. QED  BY <1>1, <2>4, RecordUpdate
  <2>6. rec' \in Record
    BY <2>2, <2>5
  <2>. HIDE DEF r1, r2, r3
  <2>. QED  BY <1>1, <1>2, <1>3, <1>6, <2>1, <2>6 DEF Record
<1>. QED  BY <1>4, <1>5, <1>6

\* What a message shows once it is sent or edited.
LEMMA ShownType ==
    ASSUME Sound, pc = "sending"
    PROVE  /\ Shown(call.next.stage) \in Message
           /\ Shown(call.next.stage).text = call.next.stage
           /\ Shown(call.next.stage).ident = call.next.ident
           /\ Shown(call.next.stage).kept = now
<1>1. call.next \in Record /\ now \in Nat
  BY DEF Sound, TypeOK, CallSound, Call
<1>2. call.next.stage \in Stages /\ call.next.ident \in Nat
  BY <1>1, RecordFields
<1>. QED  BY <1>1, <1>2 DEF Shown, Message

\* A request that takes effect.
LEMMA CarriedType ==
    ASSUME Sound, pc = "sending", Carried
    PROVE  chat' \in [1..MaxMessages -> Message]
  BY ShownType DEF Carried, Sound, TypeOK

\* How each answer comes about: the id it leaves in the record, and the chat.
LEMMA DeliverCases ==
    ASSUME Sound, Deliver
    PROVE  /\ pc = "sending" /\ call \in Call /\ call.next \in Record
           /\ chat' \in [1..MaxMessages -> Message]
           /\ \E m \in Nat : Answered(m)
           /\ lost' \in BOOLEAN /\ failures' \in Nat
<1>0. pc = "sending"
  BY DEF Deliver, Edited, SentAnew, Failed, AnswerLost
<1>1. /\ call \in Call /\ call.next \in Record /\ call.msg \in Nat
      /\ chat \in [1..MaxMessages -> Message]
      /\ lost \in BOOLEAN /\ failures \in Nat
  BY <1>0 DEF Sound, CallSound, Call, TypeOK
<1>2. CASE Edited
  BY <1>0, <1>1, <1>2, ShownType DEF Edited
<1>3. CASE SentAnew
  <2>1. NewId \in Nat /\ Answered(NewId) /\ UNCHANGED <<lost, failures>>
    BY <1>3, NewIdType DEF SentAnew
  <2>2. \A m \in 1..MaxMessages : [chat[m] EXCEPT !.text = "absent"] \in Message
    BY <1>1 DEF Message
  <2>3. chat' = [m \in 1..MaxMessages |->
                   IF m = NewId THEN Shown(call.next.stage)
                   ELSE IF m = call.msg THEN [chat[m] EXCEPT !.text = "absent"]
                   ELSE chat[m]]
    BY <1>3 DEF SentAnew
  <2>4. chat' \in [1..MaxMessages -> Message]
    BY <1>0, <1>1, <2>2, <2>3, ShownType
  <2>. QED  BY <1>0, <1>1, <2>1, <2>4
<1>4. CASE Failed
  <2>1. chat' \in [1..MaxMessages -> Message]
    BY <1>1, <1>4, UpkeptType DEF Failed, Sound
  <2>. QED  BY <1>0, <1>1, <1>4, <2>1 DEF Failed
<1>5. CASE AnswerLost
  BY <1>0, <1>1, <1>5, CarriedType DEF AnswerLost
<1>. QED  BY <1>2, <1>3, <1>4, <1>5 DEF Deliver

LEMMA DeliverSound ==
    ASSUME Sound, Deliver  PROVE Sound'
<1>1. PICK m \in Nat : Answered(m)
  BY DeliverCases
<1>2. /\ pc = "sending" /\ pc' = "idle" /\ call' = NoCall /\ rec' \in Record \cup {NoRec}
      /\ chat' \in [1..MaxMessages -> Message] /\ lost' \in BOOLEAN /\ failures' \in Nat
      /\ UNCHANGED <<now, ident, seen, pos, path, saved, trail, struck, entered, restarts>>
  BY <1>1, DeliverCases, AnsweredType
<1>. QED  BY <1>2 DEF Sound, TypeOK, CallSound

\* The world, the database and the process.
LEMMA OtherSound ==
    ASSUME Sound, Tick \/ Reconfigure \/ Save \/ Restart \/ UNCHANGED vars  PROVE Sound'
<1>0. now \in Nat /\ ident \in Nat /\ restarts \in Nat
      /\ (pc = "sending" => call.next.ident \in Nat /\ call.next.at \in Nat)
  BY RecordFields DEF Sound, TypeOK, CallSound, Call
<1>1. CASE Tick
  BY <1>0, <1>1 DEF Tick, Sound, TypeOK, CallSound, history
<1>2. CASE Reconfigure
  BY <1>0, <1>2 DEF Reconfigure, Sound, TypeOK, CallSound, history
<1>3. CASE Save
  BY <1>3 DEF Save, Sound, TypeOK, CallSound, history, world
<1>4. CASE Restart
  <2>1. chat' \in [1..MaxMessages -> Message]
    BY <1>4, CarriedType DEF Restart, Sound, TypeOK
  <2>2. Blank \in Look
    BY DEF Blank, Look, Value
  <2>3. trail' \in [1..3 -> Look] /\ struck' \in SUBSET Nat
    BY <1>4, <2>2 DEF Restart
  <2>4. lost' \in BOOLEAN
    BY <1>4 DEF Restart
  <2>. QED  BY <1>0, <1>4, <2>1, <2>3, <2>4 DEF Restart, Sound, TypeOK, CallSound
<1>5. CASE UNCHANGED vars
  BY <1>5 DEF vars, world, history, Sound, TypeOK, CallSound
<1>. QED  BY <1>1, <1>2, <1>3, <1>4, <1>5

LEMMA StepSound == Sound /\ [Next]_vars => Sound'
  BY CycleSound, DeliverSound, OtherSound DEF Next

\* Every variable keeps its type, and the answer to a send finds the record
\* that the message belongs to (_match_user_aircraft, send_or_update_approach).
THEOREM TypeCorrect == Spec => []Sound
  BY InitSound, StepSound, PTL DEF Spec

-----------------------------------------------------------------------------
(* A pass is announced only of an aircraft that was inside the radius: until *)
(* then every record, the one a restart finds included, and the one to be    *)
(* written after a send, holds a closest distance beyond the radius.         *)

NeverInside ==
    entered = "never" =>
        /\ \A r \in {rec, saved} : r # NoRec => r.closest > Radius
        /\ pc = "sending" => call.kind # "passed" /\ call.next.closest > Radius

\* A cycle outside the radius observes no closest distance within it.
LEMMA ClosestBeyond ==
    ASSUME Sound, NeverInside, entered = "never", NEW p \in Predictions, ~Inside(p)
    PROVE  Closest(p) > Radius
<1>1. p.cur \in Nat /\ Radius \in Nat /\ p.cur > Radius
  BY PredictionType, LimitsAssumption DEF Inside
<1>2. Known => Old.closest \in Nat /\ Old.closest > Radius
  BY OldType, RecordFields DEF Sound, NeverInside
<1>. QED  BY <1>1, <1>2 DEF Closest, Smaller

LEMMA CycleNeverInside ==
    ASSUME Sound, NeverInside, Cycle  PROVE NeverInside'
<1>1. PICK p \in Predictions, t \in 1..MaxClock, veto \in BOOLEAN :
        /\ Sampled(p, t) /\ Observed(p, t, veto)
        /\ \/ Skip \/ Pass(p, t) \/ Cancel(p, t, veto) \/ Hold(p, t, veto)
           \/ StartOver(p, t, veto) \/ Ignore(p, t, veto)
           \/ \E stage \in Stages : Qualify(p, t, veto, stage)
  BY DEF Cycle
<1>. SUFFICES ASSUME entered' = "never"  PROVE NeverInside'
  BY DEF NeverInside
<1>2. entered = "never" /\ ~Inside(p) /\ saved' = saved
  BY <1>1 DEF Observed
<1>3. TypeOK /\ pc = "idle" /\ t \in Nat \ {0}
  BY <1>1, LimitsAssumption DEF Sound, Sampled
<1>4. Closest(p) > Radius
  BY <1>2, ClosestBeyond
<1>5. Known => Old.closest > Radius
  BY <1>2, <1>3, OldType DEF NeverInside
<1>6. CASE Skip \/ Ignore(p, t, veto)
  BY <1>2, <1>3, <1>6 DEF Skip, Ignore, NeverInside
<1>7. CASE Pass(p, t)
  <2>1. Finalizes(p, Closest(p))
    BY <1>7 DEF Pass, ObservedPass
  <2>2. Closest(p) \in Nat /\ Radius \in Nat
    BY <1>3, ClosestType, LimitsAssumption
  <2>3. Closest(p) <= Radius
    BY <2>1, <2>2 DEF Finalizes
  <2>. QED  BY <1>4, <2>2, <2>3
<1>8. CASE Cancel(p, t, veto)
  <2>1. Known /\ Old.msg \in Nat
    BY <1>3, <1>8, OldType, RecordFields DEF Cancel, Active
  <2>2. Ended("cancelled", p, t) \in Record /\ Ended("cancelled", p, t).closest = Closest(p)
    BY <1>3, <2>1, EndedType
  <2>3. Send("cancelled", Old.msg, Ended("cancelled", p, t))
    BY <1>8 DEF Cancel
  <2>4. /\ call'.kind = "cancelled" /\ call'.next = Ended("cancelled", p, t)
        /\ rec' = rec
    BY <1>3, <2>1, <2>2, <2>3, SendSound
  <2>. QED  BY <1>2, <1>4, <2>2, <2>4 DEF NeverInside
<1>9. CASE Hold(p, t, veto)
  <2>1. Known /\ rec' = Held(p, t, veto) /\ pc' = pc
    BY <1>9 DEF Hold, Active, Held, Write
  <2>2. rec'.closest > Radius
    BY <1>3, <1>4, <2>1, HeldType
  <2>. QED  BY <1>2, <1>3, <2>1, <2>2 DEF NeverInside
<1>10. CASE StartOver(p, t, veto)
  <2>1. Known /\ rec' = StartedOver(p, t) /\ pc' = pc
    BY <1>10 DEF StartOver, StartedOver, Write
  <2>2. rec'.closest > Radius
    BY <1>3, <1>5, <2>1, StartedOverType
  <2>. QED  BY <1>2, <1>3, <2>1, <2>2 DEF NeverInside
<1>11. CASE \E stage \in Stages : Qualify(p, t, veto, stage)
  <2>. DEFINE m == IF HasMessage THEN Old.msg ELSE 0
  <2>1. PICK stage \in StagesOf(p) :
            IF HasMessage \/ Starts(p, t, stage)
            THEN Send("live", m, Going(p, t, stage, m))
            ELSE Write(Going(p, t, stage, 0))
    BY <1>11 DEF Qualify
  <2>2. m \in Nat
    BY <1>3, OldType, RecordFields DEF HasMessage
  <2>. HIDE DEF m
  <2>3. CASE HasMessage \/ Starts(p, t, stage)
    <3>1. /\ Going(p, t, stage, m) \in Record
          /\ Going(p, t, stage, m).closest = Closest(p)
      BY <1>3, <2>2, GoingType
    <3>2. call'.kind = "live" /\ call'.next = Going(p, t, stage, m) /\ rec' = rec
      BY <1>3, <2>1, <2>2, <2>3, <3>1, SendSound
    <3>. QED  BY <1>2, <1>4, <3>1, <3>2 DEF NeverInside
  <2>4. CASE ~(HasMessage \/ Starts(p, t, stage))
    <3>1. rec' = Going(p, t, stage, 0) /\ pc' = pc
      BY <2>1, <2>4 DEF Write
    <3>2. rec'.closest > Radius
      BY <1>3, <1>4, <3>1, GoingType
    <3>. QED  BY <1>2, <1>3, <3>1, <3>2 DEF NeverInside
  <2>. QED  BY <2>3, <2>4
<1>. QED  BY <1>1, <1>6, <1>7, <1>8, <1>9, <1>10, <1>11

LEMMA StepNeverInside ==
    ASSUME Sound, NeverInside, [Next]_vars  PROVE NeverInside'
<1>1. CASE Cycle
  BY <1>1, CycleNeverInside
<1>2. CASE Deliver
  <2>1. PICK m \in Nat : Answered(m)
    BY <1>2, DeliverCases
  <2>2. /\ entered' = entered /\ saved' = saved /\ pc' = "idle" /\ pc = "sending"
        /\ rec' = rec \/ rec'.closest = call.next.closest
    BY <1>2, <2>1, DeliverCases, AnsweredType
  <2>. QED  BY <2>2 DEF NeverInside
<1>3. CASE Tick \/ Reconfigure
  BY <1>3 DEF Tick, Reconfigure, history, NeverInside
<1>4. CASE Save
  BY <1>4 DEF Save, history, NeverInside
<1>5. CASE Restart
  BY <1>5 DEF Restart, NeverInside
<1>6. CASE UNCHANGED vars
  BY <1>6 DEF vars, history, NeverInside
<1>. QED  BY <1>1, <1>2, <1>3, <1>4, <1>5, <1>6 DEF Next

\* A pass is announced only of an aircraft that was inside the radius, whatever
\* was predicted of it, whichever sends fail and however often the process
\* restarts from an older record (should_finalize_observed_pass).
THEOREM PassObserved == Spec => []PassNotPredicted
<1>1. Init => NeverInside
  BY DEF Init, NeverInside
<1>2. Sound /\ NeverInside /\ [Next]_vars => NeverInside'
  BY StepNeverInside
<1>3. NeverInside => PassNotPredicted
  BY DEF NeverInside, PassNotPredicted
<1>. QED  BY <1>1, <1>2, <1>3, TypeCorrect, PTL DEF Spec

-----------------------------------------------------------------------------
(* A cancellation has three samples behind it: in the life of a process a   *)
(* record counts no more strikes than samples spoke against the alert up to *)
(* the one it was written from. While a message of a live alert is being    *)
(* sent the record in force is one that is about to be replaced.            *)

Before(n) == {s \in struck : s <= n}

StrikesCounted ==
    restarts = 0 =>
        /\ IsFiniteSet(struck)
        /\ rec # NoRec => rec.obs <= seen
        /\ rec # NoRec /\ rec.strikes > 0 => rec.active /\ rec.msg # 0
        /\ rec # NoRec /\ ~(pc = "sending" /\ call.kind = "live") =>
               rec.strikes <= Cardinality(Before(rec.obs))
        /\ CancelConfirmed

\* More samples, up to a later one, are no fewer; a newer sample is one more.
LEMMA Counted ==
    ASSUME struck \in SUBSET Nat, IsFiniteSet(struck), NEW n \in Nat, NEW t \in Nat,
           n <= t, NEW S, S = struck \/ S = struck \cup {t}
    PROVE  /\ IsFiniteSet(S)
           /\ Cardinality(Before(n)) \in Nat /\ Cardinality(S) \in Nat
           /\ Cardinality({s \in S : s <= t}) \in Nat
           /\ Cardinality(Before(n)) <= Cardinality({s \in S : s <= n})
           /\ Cardinality(Before(n)) <= Cardinality({s \in S : s <= t})
           /\ Cardinality({s \in S : s <= t}) <= Cardinality(S)
           /\ n < t /\ S = struck \cup {t} =>
                 Cardinality(Before(n)) + 1 <= Cardinality({s \in S : s <= t})
<1>1. IsFiniteSet(S)
  BY FS_AddElement
<1>2. S \subseteq Nat
  OBVIOUS
<1>. DEFINE low  == {s \in S : s <= n}
            upto == {s \in S : s <= t}
<1>3. IsFiniteSet(Before(n)) /\ IsFiniteSet(low) /\ IsFiniteSet(upto)
  BY <1>1, FS_Subset DEF Before
<1>4. /\ Cardinality(Before(n)) \in Nat /\ Cardinality(low) \in Nat
      /\ Cardinality(upto) \in Nat /\ Cardinality(S) \in Nat
  BY <1>1, <1>3, FS_CardinalityType
<1>5. Before(n) \subseteq low /\ low \subseteq upto /\ upto \subseteq S
  <2>1. \A s \in S : s \in Nat /\ (s <= n => s <= t)
    BY <1>2
  <2>. QED  BY <2>1 DEF Before
<1>6. /\ Cardinality(Before(n)) <= Cardinality(low)
      /\ Cardinality(low) <= Cardinality(upto)
      /\ Cardinality(upto) <= Cardinality(S)
  BY <1>1, <1>3, <1>5, FS_Subset
<1>7. ASSUME n < t, S = struck \cup {t}
      PROVE  Cardinality(Before(n)) + 1 <= Cardinality(upto)
  <2>1. t \notin Before(n)
    BY <1>7 DEF Before
  <2>2. IsFiniteSet(Before(n) \cup {t})
        /\ Cardinality(Before(n) \cup {t}) = Cardinality(Before(n)) + 1
    BY <1>3, <2>1, FS_AddElement
  <2>3. Before(n) \cup {t} \subseteq upto
    BY <1>5, <1>7
  <2>. QED  BY <1>3, <2>2, <2>3, FS_Subset
<1>. HIDE DEF low, upto
<1>8. Cardinality(Before(n)) <= Cardinality(upto)
  BY <1>4, <1>6
<1>. QED  BY <1>1, <1>4, <1>6, <1>7, <1>8 DEF low, upto

\* What a cycle does to the samples that spoke against the alert.
LEMMA StruckCases ==
    ASSUME NEW p \in Predictions, NEW t \in Nat, NEW veto \in BOOLEAN,
           Observed(p, t, veto)
    PROVE  /\ struck' \in {{}, struck, struck \cup {t}}
           /\ ~(Qualifies(p, t, veto) /\ ~ObservedPass(p, t)) =>
                 /\ struck' \in {struck, struck \cup {t}}
                 /\ Evidence(p, veto) /\ ~Undecided(p, veto) /\ ~Qualifies(p, t, veto)
                      => struck' = struck \cup {t}
           /\ ~Active /\ ~Qualifies(p, t, veto) => struck' = struck
  BY DEF Observed, Evidence

LEMMA CycleStrikesCounted ==
    ASSUME Sound, StrikesCounted, restarts = 0, Cycle  PROVE StrikesCounted'
<1>1. PICK p \in Predictions, t \in 1..MaxClock, veto \in BOOLEAN :
        /\ Sampled(p, t) /\ Observed(p, t, veto)
        /\ \/ Skip \/ Pass(p, t) \/ Cancel(p, t, veto) \/ Hold(p, t, veto)
           \/ StartOver(p, t, veto) \/ Ignore(p, t, veto)
           \/ \E stage \in Stages : Qualify(p, t, veto, stage)
  BY DEF Cycle
<1>2. /\ TypeOK /\ pc = "idle" /\ t \in Nat \ {0} /\ seen' = t /\ seen <= t
      /\ seen \in Nat /\ struck \in SUBSET Nat /\ rec \in Record \cup {NoRec}
  BY <1>1, LimitsAssumption DEF Sound, TypeOK, Sampled
<1>3. /\ IsFiniteSet(struck)
      /\ rec # NoRec => /\ rec.obs <= seen /\ rec.obs \in Nat /\ rec.strikes \in Nat
                        /\ rec.strikes <= Cardinality(Before(rec.obs))
                        /\ rec.strikes > 0 => rec.active /\ rec.msg # 0
  BY <1>2, RecordFields DEF StrikesCounted
<1>4. rec # NoRec => rec.obs <= t
  BY <1>2, <1>3
<1>5. Known => Old = rec /\ rec # NoRec /\ rec.active \in BOOLEAN
  BY <1>2, OldType, RecordFields
<1>6. struck' \in {{}, struck, struck \cup {t}}
  BY <1>1, <1>2, StruckCases
<1>7. IsFiniteSet(struck')
  <2>1. IsFiniteSet(struck \cup {t}) /\ IsFiniteSet({})
    BY <1>3, FS_AddElement, FS_EmptySet
  <2>. QED  BY <1>3, <1>6, <2>1
<1>. DEFINE upto(n) == {s \in struck' : s <= n}
<1>8. ASSUME NEW n  PROVE Cardinality(upto(n)) \in Nat
  BY <1>7, FS_Subset, FS_CardinalityType
\* The record stays: its strikes stand.
<1>9. ASSUME rec' = rec, struck' \in {struck, struck \cup {t}}, rec # NoRec
      PROVE  rec'.strikes <= Cardinality(upto(rec'.obs))
  <2>1. Cardinality(Before(rec.obs)) <= Cardinality(upto(rec.obs))
        /\ Cardinality(Before(rec.obs)) \in Nat
    BY <1>2, <1>3, <1>4, <1>9, Counted
  <2>2. Cardinality(upto(rec.obs)) \in Nat
    BY <1>8
  <2>. HIDE DEF upto
  <2>. QED  BY <1>3, <1>9, <2>1, <2>2
\* What remains to be shown of each kind of step.
<1>10. SUFFICES
         /\ rec' # NoRec =>
               /\ rec'.obs <= t
               /\ rec'.strikes > 0 => rec'.active /\ rec'.msg # 0
         /\ rec' # NoRec /\ ~(pc' = "sending" /\ call'.kind = "live") =>
               rec'.strikes <= Cardinality(upto(rec'.obs))
         /\ pc' = "sending" /\ call'.kind = "cancelled" => Cardinality(struck') >= 3
  BY <1>2, <1>7 DEF StrikesCounted, CancelConfirmed, Before, Required
<1>11. CASE Skip \/ Ignore(p, t, veto)
  <2>1. rec' = rec /\ pc' = pc
    BY <1>11 DEF Skip, Ignore
  <2>2. rec # NoRec /\ Known => rec.strikes = 0
    BY <1>3, <1>5, <1>11 DEF Skip, Ignore, Quiet, HasMessage, Active
  <2>3. ~Known => ~Qualifies(p, t, veto) /\ ~Active
    BY <1>11 DEF Skip, Ignore, Quiet, Active
  <2>4. ~Known => struck' = struck
    BY <1>1, <1>2, <2>3, StruckCases
  <2>5. rec # NoRec /\ Known => rec.strikes <= Cardinality(upto(rec.obs))
    <3>. HIDE DEF upto
    <3>. QED  BY <1>8, <2>2
  <2>. QED  BY <1>2, <1>3, <1>4, <1>9, <2>1, <2>4, <2>5
<1>12. CASE Pass(p, t)
  <2>1. Known /\ ObservedPass(p, t) /\ Send("passed", Old.msg, Ended("passed", p, t))
    BY <1>12 DEF Pass, ObservedPass, Active
  <2>2. Ended("passed", p, t) \in Record /\ Old.msg \in Nat
    BY <1>2, <2>1, EndedType, OldType, RecordFields
  <2>3. call'.kind = "passed" /\ rec' = rec
    BY <1>2, <2>1, <2>2, SendSound
  <2>4. struck' \in {struck, struck \cup {t}}
    BY <1>1, <1>2, <2>1, StruckCases
  <2>. QED  BY <1>3, <1>4, <1>9, <2>3, <2>4
<1>13. CASE Cancel(p, t, veto)
  <2>1. /\ Known /\ ~Qualifies(p, t, veto) /\ Confirmed(p, t, veto)
        /\ Send("cancelled", Old.msg, Ended("cancelled", p, t))
    BY <1>13 DEF Cancel, Active
  <2>2. Ended("cancelled", p, t) \in Record /\ Old.msg \in Nat
    BY <1>2, <2>1, EndedType, OldType, RecordFields
  <2>3. call'.kind = "cancelled" /\ rec' = rec
    BY <1>2, <2>1, <2>2, SendSound
  <2>4. /\ struck' \in {struck, struck \cup {t}}
        /\ Evidence(p, veto)
        /\ ~Undecided(p, veto) => struck' = struck \cup {t}
    BY <1>1, <1>2, <2>1, StruckCases DEF Confirmed
  <2>5. Old = rec /\ rec # NoRec
    BY <1>5, <2>1
  <2>6. /\ Cardinality(Before(rec.obs)) \in Nat /\ Cardinality(struck') \in Nat
        /\ Cardinality(upto(t)) \in Nat
        /\ Cardinality(Before(rec.obs)) <= Cardinality(upto(t))
        /\ Cardinality(upto(t)) <= Cardinality(struck')
        /\ rec.obs < t /\ struck' = struck \cup {t} =>
              Cardinality(Before(rec.obs)) + 1 <= Cardinality(upto(t))
    BY <1>2, <1>3, <1>4, <2>4, <2>5, Counted
  <2>7. Cardinality(struck') >= 3
    <3>. HIDE DEF upto
    <3>1. CASE Fresh(t)
      <4>1. rec.obs < t /\ struck' = struck \cup {t} /\ rec.strikes + 1 >= 3
        BY <1>2, <1>3, <2>1, <2>4, <2>5, <3>1 DEF Fresh, Confirmed, Required
      <4>. QED  BY <1>3, <2>5, <2>6, <4>1
    <3>2. CASE ~Fresh(t)
      <4>1. rec.strikes >= 3
        BY <2>1, <2>5, <3>2 DEF Confirmed, Required
      <4>. QED  BY <1>3, <2>5, <2>6, <4>1
    <3>. QED  BY <3>1, <3>2
  <2>. QED  BY <1>3, <1>4, <1>9, <2>3, <2>4, <2>7
<1>14. CASE Hold(p, t, veto)
  <2>1. /\ Active /\ Known /\ ~Qualifies(p, t, veto)
        /\ rec' = Held(p, t, veto) /\ pc' = pc
    BY <1>14 DEF Hold, Active, Held, Write
  <2>2. /\ rec'.obs = t /\ rec'.active /\ rec'.msg = Old.msg /\ Old.msg # 0
        /\ rec'.strikes = Strikes(p, t, veto)
    BY <1>2, <2>1, HeldType DEF Active
  <2>3. /\ struck' \in {struck, struck \cup {t}}
        /\ Evidence(p, veto) /\ ~Undecided(p, veto) => struck' = struck \cup {t}
    BY <1>1, <1>2, <2>1, StruckCases
  <2>4. Old = rec /\ rec # NoRec
    BY <1>5, <2>1
  <2>5. /\ Cardinality(Before(rec.obs)) \in Nat /\ Cardinality(upto(t)) \in Nat
        /\ Cardinality(Before(rec.obs)) <= Cardinality(upto(t))
        /\ rec.obs < t /\ struck' = struck \cup {t} =>
              Cardinality(Before(rec.obs)) + 1 <= Cardinality(upto(t))
    BY <1>2, <1>3, <1>4, <2>3, <2>4, Counted
  <2>6. Strikes(p, t, veto) <= Cardinality(upto(t))
    <3>. HIDE DEF upto
    <3>1. CASE ~Fresh(t) \/ p.stale \/ (~Undecided(p, veto) /\ ~Evidence(p, veto))
      <4>1. Strikes(p, t, veto) = rec.strikes \/ Strikes(p, t, veto) = 0
        BY <2>4, <3>1 DEF Strikes
      <4>. QED  BY <1>3, <2>4, <2>5, <4>1
    <3>2. CASE Fresh(t) /\ ~p.stale /\ Undecided(p, veto)
      BY <2>5, <3>2 DEF Strikes
    <3>3. CASE Fresh(t) /\ ~p.stale /\ ~Undecided(p, veto) /\ Evidence(p, veto)
      <4>1. Strikes(p, t, veto) = rec.strikes + 1 /\ rec.obs < t
        BY <1>2, <1>3, <2>1, <2>4, <3>3 DEF Strikes, Fresh
      <4>. QED  BY <1>3, <2>3, <2>4, <2>5, <3>3, <4>1
    <3>. QED  BY <3>1, <3>2, <3>3
  <2>. QED  BY <1>2, <2>1, <2>2, <2>6
<1>15. CASE StartOver(p, t, veto)
  <2>1. Known /\ Old.msg = 0 /\ rec' = StartedOver(p, t) /\ pc' = pc
    BY <1>15 DEF StartOver, StartedOver, Write
  <2>2. rec.strikes = 0
    BY <1>3, <1>5, <2>1
  <2>3. rec'.obs = t /\ rec'.strikes = 0
    BY <1>2, <1>5, <2>1, <2>2, StartedOverType
  <2>. HIDE DEF upto
  <2>. QED  BY <1>2, <1>8, <2>1, <2>3
<1>16. CASE \E stage \in Stages : Qualify(p, t, veto, stage)
  <2>. DEFINE m == IF HasMessage THEN Old.msg ELSE 0
  <2>1. PICK stage \in StagesOf(p) :
            IF HasMessage \/ Starts(p, t, stage)
            THEN Send("live", m, Going(p, t, stage, m))
            ELSE Write(Going(p, t, stage, 0))
    BY <1>16 DEF Qualify
  <2>2. m \in Nat
    BY <1>2, OldType, RecordFields DEF HasMessage
  <2>. HIDE DEF m, upto
  <2>3. CASE HasMessage \/ Starts(p, t, stage)
    <3>1. Going(p, t, stage, m) \in Record
      BY <1>2, <2>2, GoingType
    <3>2. call'.kind = "live" /\ pc' = "sending" /\ rec' = rec
      BY <1>2, <2>1, <2>2, <2>3, <3>1, SendSound
    <3>. QED  BY <1>3, <1>4, <3>2
  <2>4. CASE ~(HasMessage \/ Starts(p, t, stage))
    <3>1. rec' = Going(p, t, stage, 0) /\ pc' = pc
      BY <2>1, <2>4 DEF Write
    <3>2. rec'.obs = t /\ rec'.strikes = 0
      BY <1>2, <3>1, GoingType
    <3>. QED  BY <1>2, <1>8, <3>1, <3>2
  <2>. QED  BY <2>3, <2>4
<1>. QED  BY <1>1, <1>11, <1>12, <1>13, <1>14, <1>15, <1>16

LEMMA StepStrikesCounted ==
    ASSUME Sound, StrikesCounted, [Next]_vars  PROVE StrikesCounted'
<1>. SUFFICES ASSUME restarts' = 0  PROVE StrikesCounted'
  BY DEF StrikesCounted
<1>0. restarts = 0 /\ ~Restart
  BY DEF Next, Cycle, Observed, Deliver, Edited, SentAnew, Failed, AnswerLost, Answered,
         Tick, Reconfigure, Save, Restart, history, vars, Sound, TypeOK
<1>1. CASE Cycle
  BY <1>0, <1>1, CycleStrikesCounted
<1>2. CASE Deliver
  <2>1. PICK m \in Nat : Answered(m)
    BY <1>2, DeliverCases
  <2>2. /\ struck' = struck /\ seen' = seen /\ pc' = "idle" /\ pc = "sending"
        /\ IF m = 0 /\ call.kind # "live" THEN rec' = rec
           ELSE rec'.strikes = 0 /\ rec'.obs = call.next.obs
    BY <1>2, <2>1, DeliverCases, AnsweredType
  <2>3. call.next.obs = seen /\ seen \in Nat
    BY <2>2 DEF Sound, TypeOK, CallSound
  <2>4. \A n : Cardinality({s \in struck : s <= n}) \in Nat
    BY <1>0, FS_Subset, FS_CardinalityType DEF StrikesCounted
  <2>. QED  BY <1>0, <2>2, <2>3, <2>4 DEF StrikesCounted, CancelConfirmed, Before
<1>3. CASE Tick \/ Reconfigure \/ Save
  BY <1>3, <1>0 DEF Tick, Reconfigure, Save, world, history, StrikesCounted,
                    CancelConfirmed, Before
<1>4. CASE UNCHANGED vars
  BY <1>4, <1>0 DEF vars, world, history, StrikesCounted, CancelConfirmed, Before
<1>. QED  BY <1>0, <1>1, <1>2, <1>3, <1>4 DEF Next

\* As long as the process does not restart a cancellation has three different
\* samples behind it, whichever sends fail (resolve_cancellation_confirmation).
THEOREM ThreeSamples == Spec => []CancelConfirmed
<1>1. Init => StrikesCounted
  BY FS_EmptySet DEF Init, StrikesCounted, CancelConfirmed
<1>2. Sound /\ StrikesCounted /\ [Next]_vars => StrikesCounted'
  BY StepStrikesCounted
<1>3. StrikesCounted => CancelConfirmed
  BY DEF StrikesCounted, CancelConfirmed
<1>. QED  BY <1>1, <1>2, <1>3, TypeCorrect, PTL DEF Spec

-----------------------------------------------------------------------------
(* A first message has its observations behind it: in the life of a process *)
(* the count of a candidate's record is that of the observations which end  *)
(* the trail, and what it remembers of the last prediction is what the       *)
(* trail shows.                                                            *)

\* Follows, of two observations.
Linked(a, b) ==
    /\ b.ok /\ a.ok
    /\ b.ident = a.ident
    /\ b.t - a.t <= GapMax
    /\ Stable(b.cpa, b.eta, a.cpa, a.eta)

Recorded(r, looks, at) ==
    r.count >= 1 =>
        /\ looks[3].ok /\ looks[3].ident = r.ident
        /\ r.obs > 0 /\ r.obs = at /\ looks[3].t = r.obs
        /\ r.icpa = looks[3].cpa /\ r.ieta = looks[3].eta
        /\ r.count >= 2 => looks[3].cur <= Radius \/ Linked(looks[2], looks[3])
        /\ r.count >= 3 =>
              \/ looks[3].cur <= Radius
              \/ /\ Linked(looks[2], looks[3])
                 /\ looks[2].cur <= Radius \/ Linked(looks[1], looks[2])

RunRecorded ==
    restarts = 0 =>
        /\ rec # NoRec => rec.ident <= ident
        /\ rec # NoRec /\ ~rec.active => rec.count = 0
        /\ pc = "idle" /\ Known /\ Old.msg = 0 => Recorded(Old, trail, seen)
        /\ pc = "sending" /\ call.msg = 0 => Recorded(call.next, trail, seen)
        /\ FirstMessageConfirmed

\* What a cycle does to the trail.
LEMMA TrailCases ==
    ASSUME TypeOK, NEW p \in Predictions, NEW t \in 1..MaxClock, NEW veto \in BOOLEAN,
           Sampled(p, t), Observed(p, t, veto), Qualifies(p, t, veto)
    PROVE  /\ Fresh(t) \/ trail[3].t # t =>
                 /\ trail'[3].t = t /\ trail'[3].ident = ident /\ trail'[3].cur = p.cur
                 /\ trail'[3].cpa = p.cpa /\ trail'[3].eta = p.eta /\ trail'[3].ok
           /\ trail[3].t # t => trail'[1] = trail[2] /\ trail'[2] = trail[3]
           /\ trail[3].t = t => trail'[1] = trail[1] /\ trail'[2] = trail[2]
           /\ trail[3].t = t /\ ~Fresh(t) =>
                 /\ trail'[3].t = t /\ trail'[3].ident = trail[3].ident
                 /\ trail'[3].cur = trail[3].cur /\ trail'[3].cpa = trail[3].cpa
                 /\ trail'[3].eta = trail[3].eta /\ trail'[3].ok
<1>. DEFINE ok   == Qualifies(p, t, veto)
            look == [t |-> t, ident |-> ident, cur |-> p.cur, cpa |-> p.cpa,
                     eta |-> p.eta, ok |-> ok]
<1>1. trail \in [1..3 -> Look] /\ trail[2] \in Look /\ trail[3] \in Look
  BY DEF TypeOK
<1>2. trail' = IF trail[3].t # t THEN <<trail[2], trail[3], look>>
               ELSE [trail EXCEPT ![3] = IF Fresh(t) THEN look
                                         ELSE [trail[3] EXCEPT !.ok = ok]]
  BY DEF Observed
<1>3. ok
  OBVIOUS
<1>. HIDE DEF ok
<1>4. /\ look.t = t /\ look.ident = ident /\ look.cur = p.cur
      /\ look.cpa = p.cpa /\ look.eta = p.eta /\ look.ok
  BY <1>3
<1>5. LET same == [trail[3] EXCEPT !.ok = ok]
      IN  /\ same.t = trail[3].t /\ same.ident = trail[3].ident
          /\ same.cur = trail[3].cur /\ same.cpa = trail[3].cpa
          /\ same.eta = trail[3].eta /\ same.ok
  BY <1>1, <1>3 DEF Look
<1>. HIDE DEF look
<1>6. CASE trail[3].t # t
  <2>1. trail' = <<trail[2], trail[3], look>>
    BY <1>2, <1>6
  <2>. QED  BY <1>4, <1>6, <2>1
<1>7. CASE trail[3].t = t /\ Fresh(t)
  <2>1. trail' = [trail EXCEPT ![3] = look]
    BY <1>2, <1>7
  <2>. QED  BY <1>1, <1>4, <1>7, <2>1
<1>8. CASE trail[3].t = t /\ ~Fresh(t)
  <2>. DEFINE same == [trail[3] EXCEPT !.ok = ok]
  <2>1. trail' = [trail EXCEPT ![3] = same]
    BY <1>2, <1>8
  <2>2. /\ same.t = trail[3].t /\ same.ident = trail[3].ident
        /\ same.cur = trail[3].cur /\ same.cpa = trail[3].cpa
        /\ same.eta = trail[3].eta /\ same.ok
    BY <1>5
  <2>. HIDE DEF same
  <2>. QED  BY <1>1, <1>8, <2>1, <2>2
<1>. QED  BY <1>6, <1>7, <1>8

\* A qualifying sample is not stale.
LEMMA QualifyingFresh ==
    ASSUME NEW p \in Predictions, NEW t, NEW veto, Qualifies(p, t, veto)
    PROVE  ~p.stale
<1>1. p.enters
  BY DEF Qualifies, LiveQualifies
<1>. QED  BY <1>1, PredictionType DEF Feasible

\* The run of a qualifying candidate is recorded as the trail shows it, and it
\* is complete only with the observations that a first message needs.
LEMMA RunRecords ==
    ASSUME Sound, RunRecorded, restarts = 0,
           NEW p \in Predictions, NEW t \in 1..MaxClock, NEW veto \in BOOLEAN,
           Sampled(p, t), Observed(p, t, veto), Qualifies(p, t, veto), ~HasMessage,
           NEW r \in Record, r.count = Run(p, t).count, r.icpa = Run(p, t).cpa,
           r.ieta = Run(p, t).eta, r.obs = t, r.ident = ident
    PROVE  /\ Recorded(r, trail', t)
           /\ Run(p, t).ready =>
                 \/ p.cur <= Radius
                 \/ /\ Linked(trail'[2], trail'[3])
                    /\ trail'[2].cur <= Radius \/ Linked(trail'[1], trail'[2])
<1>1. /\ TypeOK /\ pc = "idle" /\ t \in Nat \ {0} /\ seen \in Nat /\ seen <= t
      /\ p.cur \in Nat /\ Radius \in Nat /\ GapMax \in Nat
  BY LimitsAssumption, PredictionType DEF Sound, TypeOK, Sampled
<1>2. ~p.stale
  BY QualifyingFresh
<1>3. Known => /\ Old.msg = 0 /\ Recorded(Old, trail, seen) /\ Old \in Record
               /\ Old.ident = ident /\ Old.obs \in Nat /\ Old.count \in Nat
  BY <1>1, OldType, RecordFields DEF RunRecorded, HasMessage
<1>. DEFINE before == IF Continues(t) THEN Old.count ELSE 0
            stable == before > 0 => Stable(p.cpa, p.eta, Old.icpa, Old.ieta)
            counted == Smaller(Required, (IF stable THEN before ELSE 0) + 1)
<1>4. before \in Nat
  BY <1>3 DEF Continues
<1>5. Run(p, t) =
        IF Fresh(t) /\ Inside(p)
        THEN [ready |-> TRUE, count |-> Required, cpa |-> p.cpa, eta |-> p.eta]
        ELSE IF ~Fresh(t)
        THEN [ready |-> FALSE, count |-> before, cpa |-> Old.icpa, eta |-> Old.ieta]
        ELSE [ready |-> counted >= Required, count |-> counted,
              cpa |-> p.cpa, eta |-> p.eta]
  BY <1>2 DEF Run
<1>6. CASE Fresh(t) /\ Inside(p)
  <2>1. /\ Run(p, t).count = 3 /\ Run(p, t).cpa = p.cpa /\ Run(p, t).eta = p.eta
        /\ p.cur <= Radius
    BY <1>5, <1>6 DEF Required, Inside
  <2>2. /\ trail'[3].t = t /\ trail'[3].ident = ident /\ trail'[3].cur = p.cur
        /\ trail'[3].cpa = p.cpa /\ trail'[3].eta = p.eta /\ trail'[3].ok
    BY <1>1, <1>6, TrailCases
  <2>. QED  BY <1>1, <2>1, <2>2 DEF Recorded
<1>7. CASE ~Fresh(t)
  <2>1. Known /\ t <= Old.obs
    BY <1>1, <1>3, <1>7 DEF Fresh
  <2>2. Run(p, t).count = Old.count /\ Run(p, t).cpa = Old.icpa
        /\ Run(p, t).eta = Old.ieta /\ ~Run(p, t).ready
    BY <1>5, <1>7, <2>1 DEF Continues
  <2>. SUFFICES ASSUME Old.count >= 1
                PROVE  Recorded(r, trail', t)
    BY <1>3, <2>1, <2>2 DEF Recorded
  <2>3. /\ trail[3].ident = ident /\ Old.obs = seen /\ trail[3].t = Old.obs
        /\ Old.icpa = trail[3].cpa /\ Old.ieta = trail[3].eta /\ trail[3].ok
        /\ Old.count >= 2 => trail[3].cur <= Radius \/ Linked(trail[2], trail[3])
        /\ Old.count >= 3 =>
              \/ trail[3].cur <= Radius
              \/ /\ Linked(trail[2], trail[3])
                 /\ trail[2].cur <= Radius \/ Linked(trail[1], trail[2])
    BY <1>3, <2>1 DEF Recorded
  <2>4. trail[3].t = t
    BY <1>1, <1>3, <2>1, <2>3
  <2>5. /\ trail'[1] = trail[1] /\ trail'[2] = trail[2]
        /\ trail'[3].t = t /\ trail'[3].ident = trail[3].ident
        /\ trail'[3].cur = trail[3].cur /\ trail'[3].cpa = trail[3].cpa
        /\ trail'[3].eta = trail[3].eta /\ trail'[3].ok
    BY <1>1, <1>7, <2>4, TrailCases
  <2>6. Linked(trail[2], trail[3]) => Linked(trail'[2], trail'[3])
    BY <2>4, <2>5 DEF Linked
  <2>. QED  BY <1>1, <2>2, <2>3, <2>5, <2>6 DEF Recorded
<1>8. CASE Fresh(t) /\ ~Inside(p)
  <2>1. /\ Run(p, t).count = counted /\ Run(p, t).cpa = p.cpa /\ Run(p, t).eta = p.eta
        /\ Run(p, t).ready <=> counted >= 3
    <3>. DEFINE complete == counted >= Required
    <3>1. Run(p, t) = [ready |-> complete, count |-> counted,
                       cpa |-> p.cpa, eta |-> p.eta]
      BY <1>5, <1>8
    <3>2. complete \in BOOLEAN /\ (complete <=> counted >= 3)
      BY DEF Required
    <3>. HIDE DEF counted, complete
    <3>. QED  BY <3>1, <3>2
  <2>2. /\ trail'[3].t = t /\ trail'[3].ident = ident /\ trail'[3].cur = p.cur
        /\ trail'[3].cpa = p.cpa /\ trail'[3].eta = p.eta /\ trail'[3].ok
    BY <1>1, <1>8, TrailCases
  <2>3. counted \in Nat
        /\ (counted >= 2 => before >= 1 /\ Stable(p.cpa, p.eta, Old.icpa, Old.ieta))
        /\ (counted >= 3 => before >= 2)
    <3>. HIDE DEF before
    <3>. QED  BY <1>4 DEF Smaller, Required
  <2>. HIDE DEF counted
  <2>4. ASSUME counted >= 2
        PROVE  /\ Linked(trail'[2], trail'[3])
               /\ counted >= 3 => trail'[2].cur <= Radius \/ Linked(trail'[1], trail'[2])
    <3>1. Continues(t) /\ Known /\ Old.count >= 1 /\ (counted >= 3 => Old.count >= 2)
      BY <1>3, <2>3, <2>4 DEF Continues
    <3>2. /\ trail[3].ident = ident /\ Old.obs = seen /\ trail[3].t = Old.obs
          /\ Old.obs > 0
          /\ Old.icpa = trail[3].cpa /\ Old.ieta = trail[3].eta /\ trail[3].ok
          /\ Old.count >= 2 => trail[3].cur <= Radius \/ Linked(trail[2], trail[3])
      BY <1>3, <3>1 DEF Recorded
    <3>3. t > Old.obs /\ t - Old.obs <= GapMax
      BY <1>1, <1>3, <1>8, <3>1, <3>2 DEF Fresh, Continues
    <3>4. trail'[1] = trail[2] /\ trail'[2] = trail[3]
      BY <1>1, <1>3, <3>1, <3>2, <3>3, TrailCases
    <3>5. Linked(trail'[2], trail'[3])
      BY <2>2, <2>3, <2>4, <3>2, <3>3, <3>4 DEF Linked
    <3>. QED  BY <3>1, <3>2, <3>4, <3>5
  <2>5. Recorded(r, trail', t)
    BY <1>1, <2>1, <2>2, <2>3, <2>4 DEF Recorded
  <2>6. Run(p, t).ready => counted >= 2
    BY <2>1, <2>3
  <2>. QED  BY <2>1, <2>4, <2>5, <2>6
<1>. QED  BY <1>6, <1>7, <1>8

LEMMA CycleRunRecorded ==
    ASSUME Sound, RunRecorded, restarts = 0, Cycle  PROVE RunRecorded'
<1>1. PICK p \in Predictions, t \in 1..MaxClock, veto \in BOOLEAN :
        /\ Sampled(p, t) /\ Observed(p, t, veto)
        /\ \/ Skip \/ Pass(p, t) \/ Cancel(p, t, veto) \/ Hold(p, t, veto)
           \/ StartOver(p, t, veto) \/ Ignore(p, t, veto)
           \/ \E stage \in Stages : Qualify(p, t, veto, stage)
  BY DEF Cycle
<1>2. /\ TypeOK /\ pc = "idle" /\ t \in Nat \ {0} /\ seen' = t /\ pos' = p.cur
      /\ now' = now /\ ident' = ident /\ ident \in Nat /\ now \in Nat
  BY <1>1, LimitsAssumption DEF Sound, TypeOK, Sampled, Observed
<1>3. /\ rec # NoRec => rec.ident <= ident /\ (~rec.active => rec.count = 0)
      /\ Known => Old = rec /\ rec # NoRec /\ Old.ident = ident /\ Old \in Record
  BY <1>1, <1>2, OldType, RecordFields DEF RunRecorded, Observed
\* What remains to be shown of each kind of step.
<1>4. SUFFICES
         /\ rec' # NoRec => rec'.ident <= ident /\ (~rec'.active => rec'.count = 0)
         /\ pc' = "idle" /\ Known' /\ Old'.msg = 0 => Recorded(Old', trail', t)
         /\ pc' = "sending" /\ call'.msg = 0 =>
               /\ Recorded(call'.next, trail', t)
               /\ \/ p.cur <= Radius
                  \/ /\ Linked(trail'[2], trail'[3])
                     /\ trail'[2].cur <= Radius \/ Linked(trail'[1], trail'[2])
  BY <1>2 DEF RunRecorded, FirstMessageConfirmed, Follows, Linked
<1>5. Known' => Old' = rec' /\ rec' # NoRec
  BY DEF Known, Old
<1>6. CASE Skip \/ Ignore(p, t, veto)
  <2>1. rec' = rec /\ pc' = pc
    BY <1>6 DEF Skip, Ignore
  <2>2. Old' = Old /\ (Known' <=> Known)
    BY <1>2, <2>1 DEF Old, Known
  <2>3. Known => Old.msg # 0 \/ Old.count = 0
    BY <1>3, <1>6 DEF Skip, Ignore, Quiet, HasMessage
  <2>. QED  BY <1>2, <1>3, <2>1, <2>2, <2>3 DEF Recorded
<1>7. CASE Pass(p, t) \/ Cancel(p, t, veto)
  <2>1. PICK kind \in {"passed", "cancelled"} :
          Known /\ Old.msg # 0 /\ Send(kind, Old.msg, Ended(kind, p, t))
    BY <1>7 DEF Pass, Cancel, ObservedPass, Active
  <2>2. Ended(kind, p, t) \in Record /\ Old.msg \in Nat
    BY <1>2, <2>1, EndedType, OldType, RecordFields
  <2>3. pc' = "sending" /\ call'.msg # 0 /\ rec' = rec
    BY <1>2, <2>1, <2>2, SendSound
  <2>. QED  BY <1>3, <2>3
<1>8. CASE Hold(p, t, veto)
  <2>1. Known /\ Old.msg # 0 /\ Old.active /\ rec' = Held(p, t, veto) /\ pc' = pc
    BY <1>8 DEF Hold, Active, Held, Write
  <2>2. /\ rec'.ident = ident /\ rec'.active /\ rec'.msg # 0
    BY <1>2, <1>3, <2>1, HeldType
  <2>. QED  BY <1>2, <1>5, <2>1, <2>2
<1>9. CASE StartOver(p, t, veto)
  <2>1. Known /\ rec' = StartedOver(p, t) /\ pc' = pc
    BY <1>9 DEF StartOver, StartedOver, Write
  <2>2. rec'.ident = ident /\ rec'.count = 0
    BY <1>2, <1>3, <2>1, StartedOverType
  <2>. QED  BY <1>2, <1>5, <2>1, <2>2 DEF Recorded
<1>10. CASE \E stage \in Stages : Qualify(p, t, veto, stage)
  <2>. DEFINE m == IF HasMessage THEN Old.msg ELSE 0
  <2>1. PICK stage \in StagesOf(p) :
            IF HasMessage \/ Starts(p, t, stage)
            THEN Send("live", m, Going(p, t, stage, m))
            ELSE Write(Going(p, t, stage, 0))
    BY <1>10 DEF Qualify
  <2>2. Qualifies(p, t, veto)
    BY <1>10 DEF Qualify
  <2>3. m \in Nat /\ (m = 0 => ~HasMessage) /\ (HasMessage => m # 0)
    BY <1>2, OldType, RecordFields DEF HasMessage
  <2>4. ASSUME ~HasMessage
        PROVE  /\ Recorded(Going(p, t, stage, 0), trail', t)
               /\ Run(p, t).ready =>
                     \/ p.cur <= Radius
                     \/ /\ Linked(trail'[2], trail'[3])
                        /\ trail'[2].cur <= Radius \/ Linked(trail'[1], trail'[2])
    <3>1. ~Active
      BY <2>4 DEF Active, HasMessage
    <3>2. /\ Going(p, t, stage, 0) \in Record
          /\ Going(p, t, stage, 0).count = Run(p, t).count
          /\ Going(p, t, stage, 0).icpa = Run(p, t).cpa
          /\ Going(p, t, stage, 0).ieta = Run(p, t).eta
          /\ Going(p, t, stage, 0).obs = t /\ Going(p, t, stage, 0).ident = ident
      BY <1>2, <3>1, GoingType
    <3>. QED  BY <1>1, <2>2, <2>4, <3>2, RunRecords
  <2>. HIDE DEF m
  <2>5. CASE HasMessage \/ Starts(p, t, stage)
    <3>1. Going(p, t, stage, m) \in Record
      BY <1>2, <2>3, GoingType
    <3>2. /\ pc' = "sending" /\ call'.msg = m /\ call'.next = Going(p, t, stage, m)
          /\ rec' = rec
      BY <1>2, <2>1, <2>3, <2>5, <3>1, SendSound
    <3>3. m = 0 => ~HasMessage /\ Run(p, t).ready
      BY <2>3, <2>5 DEF Starts
    <3>. QED  BY <1>3, <2>4, <3>2, <3>3
  <2>6. CASE ~(HasMessage \/ Starts(p, t, stage))
    <3>1. rec' = Going(p, t, stage, 0) /\ pc' = pc
      BY <2>1, <2>6 DEF Write
    <3>2. rec'.active /\ rec'.ident = ident
      BY <1>2, <3>1, GoingType
    <3>. QED  BY <1>2, <1>5, <2>4, <2>6, <3>1, <3>2
  <2>. QED  BY <2>5, <2>6
<1>. QED  BY <1>1, <1>6, <1>7, <1>8, <1>9, <1>10

LEMMA StepRunRecorded ==
    ASSUME Sound, RunRecorded, [Next]_vars  PROVE RunRecorded'
<1>. SUFFICES ASSUME restarts' = 0  PROVE RunRecorded'
  BY DEF RunRecorded
<1>0. restarts = 0 /\ ~Restart
  BY DEF Next, Cycle, Observed, Deliver, Edited, SentAnew, Failed, AnswerLost, Answered,
         Tick, Reconfigure, Save, Restart, history, vars, Sound, TypeOK
<1>1. CASE Cycle
  BY <1>0, <1>1, CycleRunRecorded
<1>2. CASE Deliver
  <2>1. PICK m \in Nat : Answered(m)
    BY <1>2, DeliverCases
  <2>2. /\ pc = "sending" /\ pc' = "idle"
        /\ UNCHANGED <<now, ident, seen, trail>>
        /\ m = 0 /\ call.kind # "live" => rec' = rec
        /\ ~(m = 0 /\ call.kind # "live") =>
              /\ rec'.msg = IF m = 0 THEN call.msg ELSE m
              /\ rec'.active <=> call.next.active
              /\ rec'.obs = call.next.obs /\ rec'.ident = call.next.ident
        /\ m = 0 /\ call.kind = "live" =>
              /\ rec'.count = call.next.count /\ rec'.icpa = call.next.icpa
              /\ rec'.ieta = call.next.ieta
    BY <1>2, <2>1, DeliverCases, AnsweredType
  <2>3. /\ call.next.ident <= ident
        /\ call.kind = "live" => call.next.active
        /\ call.msg # 0 => rec # NoRec /\ rec.msg = call.msg
        /\ call.kind # "live" => call.msg # 0
    BY <2>2 DEF Sound, CallSound
  <2>4. m # 0 => rec'.count = 0
    <3>1. m # 0 => rec' = [call.next EXCEPT !.msg = m, !.count = 0, !.icpa = NoVal,
                                            !.ieta = NoVal, !.at = now]
      BY <2>1 DEF Answered
    <3>2. call.next \in Record
      BY <2>2 DEF Sound, CallSound, Call
    <3>. QED  BY <3>1, <3>2 DEF Record
  <2>5. Known' => Old' = rec'
    BY DEF Known, Old
  <2>6. rec' # NoRec => rec'.ident <= ident' /\ (~rec'.active => rec'.count = 0)
    BY <1>0, <2>2, <2>3, <2>4 DEF RunRecorded
  <2>7. Known' /\ Old'.msg = 0 => Recorded(Old', trail', seen')
    <3>. SUFFICES ASSUME Known', rec'.msg = 0
                  PROVE  Recorded(rec', trail, seen)
      BY <2>2, <2>5
    <3>1. m = 0 /\ call.kind = "live" /\ call.msg = 0
      BY <2>2, <2>3
    <3>2. Recorded(call.next, trail, seen)
      BY <1>0, <2>2, <3>1 DEF RunRecorded
    <3>. QED  BY <2>2, <3>1, <3>2 DEF Recorded
  <2>. QED  BY <2>2, <2>6, <2>7 DEF RunRecorded, FirstMessageConfirmed
<1>3. CASE Tick
  <2>1. /\ UNCHANGED <<ident, seen, pos, trail, rec, pc, call, restarts>>
        /\ now' = now + 1 /\ now \in Nat
    BY <1>3 DEF Tick, history, Sound, TypeOK
  <2>2. Known' => Known /\ Old' = Old
    BY <2>1, LimitsAssumption, RecordFields DEF Known, Old, Sound, TypeOK
  <2>. QED  BY <1>0, <2>1, <2>2 DEF RunRecorded, FirstMessageConfirmed, Follows
<1>4. CASE Reconfigure
  <2>1. /\ UNCHANGED <<now, seen, pos, trail, rec, pc, call, restarts>>
        /\ ident' = ident + 1 /\ ident \in Nat
        /\ rec # NoRec => rec.ident \in Nat /\ rec.ident <= ident
    BY <1>0, <1>4, RecordFields DEF Reconfigure, history, Sound, TypeOK, RunRecorded
  <2>2. ~Known'
    BY <2>1 DEF Known, Old
  <2>. QED  BY <1>0, <2>1, <2>2 DEF RunRecorded, FirstMessageConfirmed, Follows
<1>5. CASE Save \/ UNCHANGED vars
  <2>1. UNCHANGED <<now, ident, seen, pos, trail, rec, pc, call, restarts>>
    BY <1>5 DEF Save, vars, world, history
  <2>2. Old' = Old /\ (Known' <=> Known)
    BY <2>1 DEF Old, Known
  <2>. QED  BY <1>0, <2>1, <2>2 DEF RunRecorded, FirstMessageConfirmed, Follows
<1>. QED  BY <1>0, <1>1, <1>2, <1>3, <1>4, <1>5 DEF Next

\* As long as the process does not restart, the first message of an encounter has
\* the observations behind it that resolve_initial_alert_confirmation asks for,
\* whatever changes meanwhile and whichever sends fail.
THEOREM FirstConfirmed == Spec => []FirstMessageConfirmed
<1>1. Init => RunRecorded
  BY DEF Init, RunRecorded, FirstMessageConfirmed, Known, Old
<1>2. Sound /\ RunRecorded /\ [Next]_vars => RunRecorded'
  BY StepRunRecorded
<1>3. RunRecorded => FirstMessageConfirmed
  BY DEF RunRecorded, FirstMessageConfirmed
<1>. QED  BY <1>1, <1>2, <1>3, TypeCorrect, PTL DEF Spec

-----------------------------------------------------------------------------
(* One message for one encounter: as long as nothing is lost, every message  *)
(* of the chat that shows the present configuration was left alone for long  *)
(* or is the one that the record names, and was kept up no later than it.    *)

Visible(m) == chat[m].text \in LiveStages \cup {"passed", "cancelled"}

OneMessage ==
    ~lost =>
        /\ \A m \in 1..MaxMessages : Visible(m) =>
              /\ chat[m].ident <= ident
              /\ chat[m].ident = ident =>
                    \/ now - chat[m].kept > MaxAge
                    \/ /\ rec # NoRec /\ rec.msg = m /\ rec.ident = ident
                       /\ chat[m].kept <= rec.at
              /\ pc = "sending" => chat[m].ident <= call.next.ident
        /\ NoDuplicate

\* A record of the present configuration that a cycle does not go by is old.
LEMMA UnknownIsOld ==
    ASSUME TypeOK, rec # NoRec, rec.ident = ident
    PROVE  Known \/ now - rec.at > MaxAge
<1>1. rec.at \in Nat /\ now \in Nat /\ MaxAge \in Nat
  BY LimitsAssumption, RecordFields DEF TypeOK
<1>. QED  BY <1>1 DEF Known, Old

LEMMA CycleOneMessage ==
    ASSUME Sound, OneMessage, ~lost, Cycle  PROVE OneMessage'
<1>1. PICK p \in Predictions, t \in 1..MaxClock, veto \in BOOLEAN :
        /\ Sampled(p, t) /\ Observed(p, t, veto)
        /\ \/ Skip \/ Pass(p, t) \/ Cancel(p, t, veto) \/ Hold(p, t, veto)
           \/ StartOver(p, t, veto) \/ Ignore(p, t, veto)
           \/ \E stage \in Stages : Qualify(p, t, veto, stage)
  BY DEF Cycle
<1>2. /\ TypeOK /\ pc = "idle" /\ now' = now /\ ident' = ident
      /\ now \in Nat /\ ident \in Nat /\ MaxAge \in Nat
      /\ chat \in [1..MaxMessages -> Message]
      /\ \A m \in 1..MaxMessages : chat[m].ident \in Nat /\ chat[m].kept \in Nat
      /\ rec # NoRec => rec.at \in Nat
  BY <1>1, LimitsAssumption, RecordFields DEF Sound, TypeOK, Sampled, Observed, Message
<1>3. ASSUME NEW m \in 1..MaxMessages, Visible(m)
      PROVE  /\ chat[m].ident <= ident
             /\ chat[m].ident = ident =>
                   \/ now - chat[m].kept > MaxAge
                   \/ /\ Known /\ Old.msg = m
                      /\ rec # NoRec /\ rec.msg = m /\ rec.ident = ident
                      /\ chat[m].kept <= rec.at
  <2>1. /\ chat[m].ident <= ident
        /\ chat[m].ident = ident =>
              \/ now - chat[m].kept > MaxAge
              \/ /\ rec # NoRec /\ rec.msg = m /\ rec.ident = ident
                 /\ chat[m].kept <= rec.at
    BY <1>3 DEF OneMessage
  <2>2. rec # NoRec /\ rec.ident = ident /\ chat[m].kept <= rec.at =>
            Known \/ now - chat[m].kept > MaxAge
    BY <1>2, UnknownIsOld
  <2>. QED  BY <1>2, <2>1, <2>2, OldType
<1>4. CASE UNCHANGED <<rec, pc, call, chat>>
  BY <1>2, <1>3, <1>4 DEF OneMessage, NoDuplicate, Visible
<1>5. ASSUME NEW r \in Record, Write(r), r.msg = (IF Known THEN Old.msg ELSE 0),
             r.ident = ident, r.at = now
      PROVE  OneMessage'
  <2>1. /\ rec' = r /\ pc' = "idle" /\ chat' = Upkept(chat, r.msg) /\ r # NoRec
        /\ r.msg \in Nat
    BY <1>2, <1>5, RecordFields, SentinelAssumption DEF Write
  <2>2. \A m \in 1..MaxMessages :
          /\ chat'[m].text = chat[m].text /\ chat'[m].ident = chat[m].ident
          /\ chat'[m].kept = IF m = r.msg THEN now ELSE chat[m].kept
    BY <1>2, <2>1, UpkeptType
  <2>3. ASSUME NEW m \in 1..MaxMessages, Visible(m)'
        PROVE  /\ chat'[m].ident <= ident
               /\ chat'[m].ident = ident =>
                     \/ now - chat'[m].kept > MaxAge
                     \/ r.msg = m /\ chat'[m].kept <= r.at
    <3>1. Visible(m)
      BY <2>2, <2>3 DEF Visible
    <3>. QED  BY <1>2, <1>3, <1>5, <2>2, <3>1
  <2>. QED  BY <1>2, <1>5, <2>1, <2>3 DEF OneMessage, NoDuplicate
<1>6. ASSUME NEW kind \in {"passed", "cancelled", "live"}, NEW m \in Nat,
             NEW next \in Record, Send(kind, m, next), next.ident = ident,
             next.at = now, m = (IF Known THEN Old.msg ELSE 0)
      PROVE  OneMessage'
  <2>1. /\ pc' = "sending" /\ call'.msg = m /\ call'.next = next
        /\ rec' = rec /\ chat' = chat
    BY <1>2, <1>6, SendSound
  <2>2. ASSUME m = 0, NEW n \in 1..MaxMessages, Visible(n)
        PROVE  chat[n].ident # ident \/ now - chat[n].kept > MaxAge
    BY <1>3, <1>6, <2>2
  <2>3. NoDuplicate'
    BY <1>2, <1>6, <2>1, <2>2 DEF NoDuplicate, Visible
  <2>. QED  BY <1>2, <1>3, <1>6, <2>1, <2>3 DEF OneMessage, Visible
<1>. QED  BY <1>1, <1>4, <1>5, <1>6, CycleCases

LEMMA DeliverOneMessage ==
    ASSUME Sound, OneMessage, ~lost', Deliver  PROVE OneMessage'
<1>0. /\ pc = "sending" /\ call \in Call /\ call.next \in Record /\ ~AnswerLost
      /\ now \in Nat /\ ident \in Nat /\ MaxAge \in Nat
      /\ chat \in [1..MaxMessages -> Message]
      /\ \A m \in 1..MaxMessages : chat[m].ident \in Nat /\ chat[m].kept \in Nat
      /\ call.next.ident \in Nat /\ call.next.at \in Nat /\ call.msg \in Nat
      /\ rec # NoRec => rec.at \in Nat
  BY DeliverCases, LimitsAssumption, RecordFields
     DEF Sound, TypeOK, AnswerLost, Message, Call
<1>1. /\ call.next.ident <= ident /\ call.next.at <= now
      /\ call.msg # 0 => rec # NoRec /\ rec.msg = call.msg
      /\ call.kind # "live" => call.msg # 0
  BY <1>0 DEF Sound, CallSound
<1>2. ~lost
  BY <1>0 DEF Deliver, Edited, SentAnew, Failed
\* What is known of a message other than the one that is sent.
<1>3. ASSUME NEW n \in 1..MaxMessages, Visible(n)
      PROVE  /\ chat[n].ident <= ident /\ chat[n].ident <= call.next.ident
             /\ n # call.msg /\ chat[n].ident = ident => now - chat[n].kept > MaxAge
  <2>1. /\ chat[n].ident <= ident /\ chat[n].ident <= call.next.ident
        /\ chat[n].ident = ident => now - chat[n].kept > MaxAge \/ (rec # NoRec /\ rec.msg = n)
        /\ NoDuplicate
    BY <1>0, <1>2, <1>3 DEF OneMessage
  <2>2. CASE call.msg # 0
    BY <1>1, <2>1, <2>2
  <2>3. CASE call.msg = 0
    <3>1. chat[n].ident # call.next.ident \/ call.next.at - chat[n].kept > MaxAge
      BY <1>0, <1>2, <1>3, <2>1, <2>3 DEF NoDuplicate, Visible
    <3>. QED  BY <1>0, <1>1, <2>1, <3>1
  <2>. QED  BY <2>2, <2>3
<1>4. ASSUME NEW m \in Nat, Answered(m), ~(m = 0 /\ call.kind # "live")
      PROVE  /\ rec' # NoRec /\ rec'.at = now /\ rec'.ident = call.next.ident
             /\ rec'.msg = IF m = 0 THEN call.msg ELSE m
             /\ pc' = "idle" /\ now' = now /\ ident' = ident
  BY <1>0, <1>4, AnsweredType, SentinelAssumption
<1>5. CASE Edited
  <2>1. /\ chat' = [chat EXCEPT ![call.msg] = Shown(call.next.stage)]
        /\ Answered(call.msg) /\ call.msg # 0
    BY <1>5 DEF Edited
  <2>2. /\ rec' # NoRec /\ rec'.at = now /\ rec'.ident = call.next.ident
        /\ rec'.msg = call.msg /\ pc' = "idle" /\ now' = now /\ ident' = ident
    BY <1>0, <1>4, <2>1
  <2>3. ASSUME NEW n \in 1..MaxMessages, Visible(n)'
        PROVE  /\ chat'[n].ident <= ident
               /\ chat'[n].ident = ident =>
                     \/ now - chat'[n].kept > MaxAge
                     \/ rec'.msg = n /\ rec'.ident = ident /\ chat'[n].kept <= rec'.at
    <3>1. CASE n = call.msg
      BY <1>0, <1>1, <2>1, <2>2, <3>1, ShownType
    <3>2. CASE n # call.msg
      BY <1>0, <1>3, <2>1, <2>3, <3>2 DEF Visible
    <3>. QED  BY <3>1, <3>2
  <2>. QED  BY <2>2, <2>3 DEF OneMessage, NoDuplicate
<1>6. CASE SentAnew
  <2>1. /\ chat' = [m \in 1..MaxMessages |->
                      IF m = NewId THEN Shown(call.next.stage)
                      ELSE IF m = call.msg THEN [chat[m] EXCEPT !.text = "absent"]
                      ELSE chat[m]]
        /\ Answered(NewId) /\ NewId \in Nat \ {0}
    BY <1>6, NewIdType DEF SentAnew
  <2>2. /\ rec' # NoRec /\ rec'.at = now /\ rec'.ident = call.next.ident
        /\ rec'.msg = NewId /\ pc' = "idle" /\ now' = now /\ ident' = ident
    BY <1>0, <1>4, <2>1
  <2>3. ASSUME NEW n \in 1..MaxMessages, Visible(n)'
        PROVE  /\ chat'[n].ident <= ident
               /\ chat'[n].ident = ident =>
                     \/ now - chat'[n].kept > MaxAge
                     \/ rec'.msg = n /\ rec'.ident = ident /\ chat'[n].kept <= rec'.at
    <3>1. CASE n = NewId
      BY <1>0, <1>1, <2>1, <2>2, <3>1, ShownType
    <3>2. CASE n # NewId /\ n = call.msg
      <4>1. chat'[n].text = "absent"
        BY <1>0, <2>1, <3>2 DEF Message
      <4>. QED  BY <2>3, <4>1, StagesAssumption DEF Visible
    <3>3. CASE n # NewId /\ n # call.msg
      BY <1>0, <1>3, <2>1, <2>3, <3>3 DEF Visible
    <3>. QED  BY <3>1, <3>2, <3>3
  <2>. QED  BY <2>2, <2>3 DEF OneMessage, NoDuplicate
<1>7. CASE Failed
  <2>. DEFINE kept == IF call.kind = "live" THEN call.msg ELSE 0
  <2>1. chat' = Upkept(chat, kept) /\ Answered(0) /\ kept \in Nat
    BY <1>0, <1>7 DEF Failed
  <2>2. \A n \in 1..MaxMessages :
          /\ chat'[n].text = chat[n].text /\ chat'[n].ident = chat[n].ident
          /\ chat'[n].kept = IF n = kept THEN now ELSE chat[n].kept
    BY <2>1, UpkeptType DEF Sound
  <2>3. pc' = "idle" /\ now' = now /\ ident' = ident
    BY <1>0, <2>1, AnsweredType
  <2>4. ASSUME NEW n \in 1..MaxMessages, Visible(n)'
        PROVE  /\ chat'[n].ident <= ident
               /\ chat'[n].ident = ident =>
                     \/ now - chat'[n].kept > MaxAge
                     \/ /\ rec' # NoRec /\ rec'.msg = n /\ rec'.ident = ident
                        /\ chat'[n].kept <= rec'.at
    <3>1. Visible(n)
      BY <2>2, <2>4 DEF Visible
    <3>2. CASE call.kind = "live"
      <4>1. /\ rec' # NoRec /\ rec'.at = now /\ rec'.ident = call.next.ident
            /\ rec'.msg = call.msg
        BY <1>4, <2>1, <3>2
      <4>. QED  BY <1>0, <1>1, <1>3, <2>2, <3>1, <3>2, <4>1
    <3>3. CASE call.kind # "live"
      <4>1. rec' = rec /\ chat'[n].ident = chat[n].ident /\ chat'[n].kept = chat[n].kept
        BY <1>0, <2>1, <2>2, <3>3, AnsweredType
      <4>. QED  BY <1>0, <1>2, <3>1, <4>1 DEF OneMessage
    <3>. QED  BY <3>2, <3>3
  <2>. QED  BY <2>3, <2>4 DEF OneMessage, NoDuplicate
<1>. QED  BY <1>0, <1>5, <1>6, <1>7 DEF Deliver

LEMMA StepOneMessage ==
    ASSUME Sound, OneMessage, [Next]_vars  PROVE OneMessage'
<1>. SUFFICES ASSUME ~lost'  PROVE OneMessage'
  BY DEF OneMessage
<1>0. /\ now \in Nat /\ ident \in Nat /\ MaxAge \in Nat
      /\ \A m \in 1..MaxMessages : chat[m].ident \in Nat /\ chat[m].kept \in Nat
      /\ DOMAIN chat = 1..MaxMessages
  BY LimitsAssumption DEF Sound, TypeOK, Message
<1>1. CASE Cycle
  <2>1. ~lost
    BY <1>1 DEF Cycle, Observed
  <2>. QED  BY <1>1, <2>1, CycleOneMessage
<1>2. CASE Deliver
  BY <1>2, DeliverOneMessage
<1>3. CASE Tick
  <2>1. now' = now + 1 /\ UNCHANGED <<ident, rec, pc, call, chat, lost>>
    BY <1>3 DEF Tick, history
  <2>. QED  BY <1>0, <2>1 DEF OneMessage, NoDuplicate, Visible
<1>4. CASE Reconfigure
  <2>1. ident' = ident + 1 /\ UNCHANGED <<now, rec, pc, call, chat, lost>>
    BY <1>4 DEF Reconfigure, history
  <2>. QED  BY <1>0, <2>1 DEF OneMessage, NoDuplicate, Visible
<1>5. CASE Save \/ UNCHANGED vars
  <2>1. UNCHANGED <<now, ident, rec, pc, call, chat, lost>>
    BY <1>5 DEF Save, vars, world, history
  <2>. QED  BY <2>1 DEF OneMessage, NoDuplicate, Visible
<1>6. CASE Restart
  <2>1. /\ ~lost /\ rec' = rec /\ pc' = "idle" /\ chat' = chat
        /\ now' = now /\ ident' = ident
    BY <1>6 DEF Restart
  <2>. QED  BY <2>1 DEF OneMessage, NoDuplicate, Visible
<1>. QED  BY <1>1, <1>2, <1>3, <1>4, <1>5, <1>6 DEF Next

\* As long as no answer and no record is lost, a second first message is sent
\* only for a new configuration or flight, or when the alert was left alone for
\* the life of a record, restarts from a saved record included
\* (_match_user_aircraft, send_or_update_approach).
THEOREM OneFirstMessage == Spec => []NoDuplicate
<1>1. Init => OneMessage
  BY StagesAssumption DEF Init, OneMessage, NoDuplicate, Visible, Absent
<1>2. Sound /\ OneMessage /\ [Next]_vars => OneMessage'
  BY StepOneMessage
<1>3. OneMessage => NoDuplicate
  BY DEF OneMessage, NoDuplicate
<1>. QED  BY <1>1, <1>2, <1>3, TypeCorrect, PTL DEF Spec

-----------------------------------------------------------------------------
(* A cancellation stays: as long as nothing is lost, the record of a message *)
(* that shows it says so too, or an edit of the message to something else    *)
(* has failed; a message is on its way to it only from inside the radius.    *)

ShowsCancelled(m) == m \in 1..MaxMessages /\ chat[m].text = "cancelled"

EditHasFailed == failures > 0 /\ rec # NoRec /\ rec.active

StaysCancelled ==
    ~lost =>
        /\ rec # NoRec /\ ShowsCancelled(rec.msg) =>
              (~rec.active /\ rec.stage = "cancelled") \/ EditHasFailed
        /\ pc = "sending" /\ ShowsCancelled(call.msg) => pos <= Radius \/ EditHasFailed

\* Whatever a cycle does about a message that shows the cancellation.
LEMMA CycleStaysCancelled ==
    ASSUME Sound, StaysCancelled, ~lost, Cycle  PROVE StaysCancelled'
<1>1. PICK p \in Predictions, t \in 1..MaxClock, veto \in BOOLEAN :
        /\ Sampled(p, t) /\ Observed(p, t, veto)
        /\ \/ Skip \/ Pass(p, t) \/ Cancel(p, t, veto) \/ Hold(p, t, veto)
           \/ StartOver(p, t, veto) \/ Ignore(p, t, veto)
           \/ \E stage \in Stages : Qualify(p, t, veto, stage)
  BY DEF Cycle
<1>2. /\ TypeOK /\ pc = "idle" /\ failures' = failures /\ pos' = p.cur
      /\ t \in Nat \ {0} /\ chat \in [1..MaxMessages -> Message]
      /\ Known => Old = rec /\ rec # NoRec /\ Old.msg \in Nat
  <2>1. TypeOK /\ pc = "idle" /\ failures' = failures /\ pos' = p.cur
    BY <1>1 DEF Sound, Sampled, Observed
  <2>2. t \in Nat \ {0} /\ chat \in [1..MaxMessages -> Message]
    BY <2>1, LimitsAssumption DEF TypeOK
  <2>3. Known => Old = rec /\ rec # NoRec /\ Old.msg \in Nat
    BY <2>1, OldType, RecordFields
  <2>. QED  BY <2>1, <2>2, <2>3
<1>3. Known /\ ShowsCancelled(Old.msg) =>
          (~Old.active /\ Old.stage = "cancelled") \/ EditHasFailed
  BY <1>2 DEF StaysCancelled
<1>4. Active => Known /\ Old.active /\ rec # NoRec /\ rec.active
  BY <1>2 DEF Active
<1>5. CASE UNCHANGED <<rec, pc, call, chat>>
  BY <1>2, <1>5 DEF StaysCancelled, ShowsCancelled, EditHasFailed
<1>6. ASSUME NEW r \in Record, Write(r),
             r.msg = 0 \/ (Active /\ r.msg = Old.msg /\ (r.active <=> Old.active))
      PROVE  StaysCancelled'
  <2>1. rec' = r /\ pc' = "idle" /\ chat' = Upkept(chat, r.msg) /\ r.msg \in Nat
    BY <1>2, <1>6, RecordFields DEF Write
  <2>2. \A m \in 1..MaxMessages : chat'[m].text = chat[m].text
    BY <1>2, <2>1, UpkeptType
  <2>3. ShowsCancelled(r.msg)' => ShowsCancelled(r.msg) /\ r.msg # 0
    BY <2>1, <2>2 DEF ShowsCancelled
  <2>4. ShowsCancelled(r.msg)' => r.active /\ failures > 0
    BY <1>3, <1>4, <1>6, <2>3 DEF EditHasFailed
  <2>. QED  BY <1>2, <2>1, <2>4, SentinelAssumption DEF StaysCancelled, EditHasFailed, ShowsCancelled
<1>7. ASSUME NEW kind \in {"passed", "cancelled", "live"}, NEW m \in Nat,
             NEW next \in Record, Send(kind, m, next),
             m = 0 \/ (Known /\ m = Old.msg), Active \/ ~Latched(p, t)
      PROVE  StaysCancelled'
  <2>1. /\ pc' = "sending" /\ call'.msg = m /\ rec' = rec /\ chat' = chat
    BY <1>2, <1>7, SendSound
  <2>2. ShowsCancelled(m) => m # 0 /\ Known /\ m = Old.msg
    BY <1>7 DEF ShowsCancelled
  <2>3. ShowsCancelled(m) => p.cur <= Radius \/ EditHasFailed
    <3>1. CASE Active
      BY <1>3, <1>4, <2>2, <3>1
    <3>2. CASE ~Latched(p, t)
      BY <1>3, <2>2, <3>2 DEF Latched, Inside
    <3>. QED  BY <1>7, <3>1, <3>2
  <2>. QED  BY <1>2, <2>1, <2>3 DEF StaysCancelled, ShowsCancelled, EditHasFailed
<1>8. CASE Skip \/ Ignore(p, t, veto)
  BY <1>5, <1>8 DEF Skip, Ignore
<1>9. CASE Pass(p, t)
  <2>1. Active /\ Known /\ Send("passed", Old.msg, Ended("passed", p, t))
    BY <1>9 DEF Pass, ObservedPass, Active
  <2>2. Ended("passed", p, t) \in Record
    BY <1>2, <2>1, EndedType
  <2>. QED  BY <1>2, <1>7, <2>1, <2>2
<1>10. CASE Cancel(p, t, veto)
  <2>1. Active /\ Known /\ Send("cancelled", Old.msg, Ended("cancelled", p, t))
    BY <1>10 DEF Cancel, Active
  <2>2. Ended("cancelled", p, t) \in Record
    BY <1>2, <2>1, EndedType
  <2>. QED  BY <1>2, <1>7, <2>1, <2>2
<1>11. CASE Hold(p, t, veto)
  <2>. DEFINE r == Held(p, t, veto)
  <2>1. Active /\ Known /\ Write(r)
    BY <1>11 DEF Hold, Active, Held
  <2>2. r \in Record /\ r.msg = Old.msg /\ (r.active <=> Old.active)
    BY <1>2, <2>1, HeldType
  <2>. HIDE DEF r
  <2>. QED  BY <1>6, <2>1, <2>2
<1>12. CASE StartOver(p, t, veto)
  <2>. DEFINE r == StartedOver(p, t)
  <2>1. Known /\ Old.msg = 0 /\ Write(r)
    BY <1>12 DEF StartOver, StartedOver
  <2>2. r \in Record /\ r.msg = 0
    BY <1>2, <2>1, StartedOverType
  <2>. HIDE DEF r
  <2>. QED  BY <1>6, <2>1, <2>2
<1>13. CASE \E stage \in Stages : Qualify(p, t, veto, stage)
  <2>. DEFINE m == IF HasMessage THEN Old.msg ELSE 0
  <2>1. PICK stage \in StagesOf(p) :
            /\ Qualifies(p, t, veto)
            /\ IF HasMessage \/ Starts(p, t, stage)
               THEN Send("live", m, Going(p, t, stage, m))
               ELSE Write(Going(p, t, stage, 0))
    BY <1>13 DEF Qualify
  <2>2. m \in Nat /\ (m = 0 \/ (Known /\ m = Old.msg)) /\ ~Latched(p, t)
    BY <1>2, <2>1 DEF HasMessage, Qualifies
  <2>. HIDE DEF m
  <2>3. CASE HasMessage \/ Starts(p, t, stage)
    <3>1. Going(p, t, stage, m) \in Record
      BY <1>2, <2>2, GoingType
    <3>. QED  BY <1>7, <2>1, <2>2, <2>3, <3>1
  <2>4. CASE ~(HasMessage \/ Starts(p, t, stage))
    <3>. DEFINE r == Going(p, t, stage, 0)
    <3>1. r \in Record /\ r.msg = 0
      BY <1>2, GoingType
    <3>2. Write(r)
      BY <2>1, <2>4
    <3>. HIDE DEF r
    <3>. QED  BY <1>6, <3>1, <3>2
  <2>. QED  BY <2>3, <2>4
<1>. QED  BY <1>1, <1>8, <1>9, <1>10, <1>11, <1>12, <1>13

\* An ending is recorded as it is shown; a live edit that fails is counted.
LEMMA DeliverStaysCancelled ==
    ASSUME Sound, StaysCancelled, ~lost', Deliver  PROVE StaysCancelled'
<1>0. /\ pc = "sending" /\ call \in Call /\ call.next \in Record /\ ~AnswerLost
      /\ chat \in [1..MaxMessages -> Message] /\ failures \in Nat /\ call.msg \in Nat
  BY DeliverCases DEF Sound, TypeOK, AnswerLost, Call
<1>1. /\ call.kind = "live" => call.next.active /\ call.next.stage # "cancelled"
      /\ call.kind # "live" => ~call.next.active
      /\ call.next.msg = call.msg
  BY <1>0 DEF Sound, CallSound
<1>2. ~lost
  BY <1>0 DEF Deliver, Edited, SentAnew, Failed
<1>3. ASSUME NEW m \in 1..MaxMessages, m # 0, Answered(m),
             chat'[m].text = call.next.stage
      PROVE  StaysCancelled'
  <2>1. /\ rec'.msg = m /\ (rec'.active <=> call.next.active)
        /\ rec'.stage = call.next.stage /\ pc' = "idle"
    BY <1>0, <1>3, LimitsAssumption, AnsweredType
  <2>. QED  BY <1>1, <1>3, <2>1 DEF StaysCancelled, ShowsCancelled
<1>4. CASE Edited
  <2>1. /\ chat' = [chat EXCEPT ![call.msg] = Shown(call.next.stage)]
        /\ Answered(call.msg) /\ call.msg # 0
    BY <1>4 DEF Edited
  <2>2. CASE call.msg \in 1..MaxMessages
    <3>1. chat'[call.msg].text = call.next.stage
      BY <1>0, <2>1, <2>2, ShownType
    <3>. QED  BY <1>3, <2>1, <2>2, <3>1
  <2>3. CASE call.msg \notin 1..MaxMessages
    <3>1. rec'.msg = call.msg /\ pc' = "idle"
      BY <1>0, <2>1, AnsweredType
    <3>. QED  BY <2>3, <3>1 DEF StaysCancelled, ShowsCancelled
  <2>. QED  BY <2>2, <2>3
<1>5. CASE SentAnew
  <2>1. /\ chat' = [m \in 1..MaxMessages |->
                      IF m = NewId THEN Shown(call.next.stage)
                      ELSE IF m = call.msg THEN [chat[m] EXCEPT !.text = "absent"]
                      ELSE chat[m]]
        /\ Answered(NewId) /\ NewId \in 1..MaxMessages /\ NewId # 0
    BY <1>5, NewIdType DEF SentAnew
  <2>2. chat'[NewId].text = call.next.stage
    BY <1>0, <2>1, ShownType
  <2>. QED  BY <1>3, <2>1, <2>2
<1>6. CASE Failed
  <2>. DEFINE kept == IF call.kind = "live" THEN call.msg ELSE 0
  <2>1. /\ chat' = Upkept(chat, kept) /\ Answered(0) /\ kept \in Nat
        /\ failures' = failures + 1
    BY <1>0, <1>6 DEF Failed
  <2>2. \A n \in 1..MaxMessages : chat'[n].text = chat[n].text
    BY <2>1, UpkeptType DEF Sound
  <2>3. \A n : ShowsCancelled(n)' => ShowsCancelled(n)
    BY <2>2 DEF ShowsCancelled
  <2>4. CASE call.kind = "live"
    <3>1. rec'.active /\ pc' = "idle"
      BY <1>0, <1>1, <2>1, <2>4, AnsweredType
    <3>. QED  BY <1>0, <2>1, <3>1 DEF StaysCancelled, EditHasFailed
  <2>5. CASE call.kind # "live"
    <3>1. rec' = rec /\ pc' = "idle"
      BY <1>0, <2>1, <2>5, AnsweredType
    <3>. QED  BY <1>0, <1>2, <2>1, <2>3, <3>1 DEF StaysCancelled, EditHasFailed
  <2>. QED  BY <2>4, <2>5
<1>. QED  BY <1>0, <1>4, <1>5, <1>6 DEF Deliver

LEMMA StepStaysCancelled ==
    ASSUME Sound, StaysCancelled, [Next]_vars  PROVE StaysCancelled'
<1>. SUFFICES ASSUME ~lost'  PROVE StaysCancelled'
  BY DEF StaysCancelled
<1>1. CASE Cycle
  <2>1. ~lost
    BY <1>1 DEF Cycle, Observed
  <2>. QED  BY <1>1, <2>1, CycleStaysCancelled
<1>2. CASE Deliver
  BY <1>2, DeliverStaysCancelled
<1>3. CASE Tick \/ Reconfigure \/ Save \/ UNCHANGED vars
  <2>1. UNCHANGED <<pos, rec, pc, call, chat, lost, failures>>
    BY <1>3 DEF Tick, Reconfigure, Save, vars, world, history
  <2>. QED  BY <2>1 DEF StaysCancelled, ShowsCancelled, EditHasFailed
<1>4. CASE Restart
  <2>1. /\ ~lost /\ rec' = rec /\ pc' = "idle" /\ chat' = chat
        /\ failures' = failures
    BY <1>4 DEF Restart
  <2>. QED  BY <2>1 DEF StaysCancelled, ShowsCancelled, EditHasFailed
<1>. QED  BY <1>1, <1>2, <1>3, <1>4 DEF Next

\* The messages whose text a step changes: the one that is being edited or
\* replaced, and one that was never used.
LEMMA StepChangesText ==
    ASSUME Sound, [Next]_vars, ~lost', NEW m \in DOMAIN chat,
           chat[m].text = "cancelled", chat'[m].text # "cancelled"
    PROVE  pc = "sending" /\ m = call.msg
<1>0. TypeOK /\ m \in 1..MaxMessages /\ chat \in [1..MaxMessages -> Message]
  BY DEF Sound, TypeOK
<1>1. CASE Cycle
  <2>1. PICK p \in Predictions, t \in 1..MaxClock, veto \in BOOLEAN :
          /\ Sampled(p, t)
          /\ \/ Skip \/ Pass(p, t) \/ Cancel(p, t, veto) \/ Hold(p, t, veto)
             \/ StartOver(p, t, veto) \/ Ignore(p, t, veto)
             \/ \E stage \in Stages : Qualify(p, t, veto, stage)
    BY <1>1 DEF Cycle
  <2>2. CASE UNCHANGED <<rec, pc, call, chat>>
    BY <2>2
  <2>3. CASE \E r \in Record : Write(r)
    <3>1. PICK r \in Record : chat' = Upkept(chat, r.msg)
      BY <2>3 DEF Write
    <3>2. chat'[m].text = chat[m].text
      BY <1>0, <3>1, RecordFields, UpkeptType
    <3>. QED  BY <3>2
  <2>4. CASE \E kind \in {"passed", "cancelled", "live"}, n \in Nat, next \in Record :
                 Send(kind, n, next)
    BY <2>4 DEF Send
  <2>. QED  BY <2>1, <2>2, <2>3, <2>4, CycleCases
<1>2. CASE Edited
  BY <1>0, <1>2 DEF Edited
<1>3. CASE SentAnew
  <2>1. /\ chat' = [n \in 1..MaxMessages |->
                      IF n = NewId THEN Shown(call.next.stage)
                      ELSE IF n = call.msg THEN [chat[n] EXCEPT !.text = "absent"]
                      ELSE chat[n]]
        /\ NewId \in Unsent /\ pc = "sending"
    BY <1>3, NewIdType DEF SentAnew
  <2>2. m # NewId
    BY <2>1 DEF Unsent, Absent
  <2>. QED  BY <1>0, <2>1, <2>2
<1>4. CASE Failed
  <2>1. PICK n \in Nat : chat' = Upkept(chat, n)
    BY <1>4, DeliverCases DEF Deliver, Failed, Call
  <2>2. chat'[m].text = chat[m].text
    BY <1>0, <2>1, UpkeptType
  <2>. QED  BY <2>2
<1>5. CASE AnswerLost
  BY <1>5 DEF AnswerLost
<1>6. CASE Tick \/ Reconfigure \/ Save \/ UNCHANGED vars
  <2>1. UNCHANGED chat
    BY <1>6 DEF Tick, Reconfigure, Save, vars
  <2>. QED  BY <2>1
<1>7. CASE Restart
  BY <1>7 DEF Restart
<1>. QED  BY <1>1, <1>2, <1>3, <1>4, <1>5, <1>6, <1>7 DEF Next, Deliver

\* As long as no answer and no record is lost, a cancellation is taken back only
\* from inside the radius or after an edit that failed, whatever the settings, the
\* clock and a restart do meanwhile (cancelled_latch_allows_reactivation).
THEOREM CancellationStays == Spec => CancelledStays
<1>1. Init => StaysCancelled
  BY DEF Init, StaysCancelled
<1>2. Sound /\ StaysCancelled /\ [Next]_vars => StaysCancelled'
  BY StepStaysCancelled
<1>3. Sound /\ StaysCancelled /\ [Next]_vars =>
          [~lost' => \A m \in DOMAIN chat :
              chat[m].text = "cancelled" /\ chat'[m].text # "cancelled" =>
                  pos <= Radius \/ (failures > 0 /\ rec # NoRec /\ rec.active)]_vars
  <2>. SUFFICES ASSUME Sound, StaysCancelled, [Next]_vars, ~lost', NEW m \in DOMAIN chat,
                       chat[m].text = "cancelled", chat'[m].text # "cancelled"
                PROVE  pos <= Radius \/ (failures > 0 /\ rec # NoRec /\ rec.active)
    OBVIOUS
  <2>1. pc = "sending" /\ m = call.msg
    BY StepChangesText
  <2>2. ~lost /\ m \in 1..MaxMessages
    BY DEF Sound, TypeOK, Next, Cycle, Observed, Deliver, Edited, SentAnew, Failed,
           AnswerLost, Tick, Reconfigure, Save, Restart, vars, history
  <2>. QED  BY <2>1, <2>2 DEF StaysCancelled, ShowsCancelled, EditHasFailed
<1>. QED  BY <1>1, <1>2, <1>3, TypeCorrect, PTL DEF Spec, CancelledStays
=============================================================================
