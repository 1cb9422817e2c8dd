------------------------------- MODULE KeyPool -------------------------------
(***************************************************************************)
(* The OpenSky credentials (app/aircraft/api_keys.py) as the last provider   *)
(* of a poll uses them (OpenSkyProvider in app/aircraft/providers.py): a     *)
(* token of the current credential, one request for each bounding box, at    *)
(* once, and a credential that is refused or used up is set aside until the  *)
(* next UTC day.                                                            *)
(*                                                                          *)
(* gather() does not cancel the other box when one fails, so a request may   *)
(* outlive the poll that made it.  The next poll comes after the cooldown of *)
(* the provider; here, when that request has ended.                          *)
(***************************************************************************)
EXTENDS Integers, FiniteSets

CONSTANTS
  Count,     \* number of credentials
  Boxes,     \* bounding boxes of an area: {1}, or {1, 2} at the antimeridian
  Credits,   \* _DAILY_CREDIT_LIMIT - 50
  Days       \* days of a year: a day is known by its number

\* Of the constants; an instance assumes it.
KeyAssumption ==
  /\ {Count, Credits} \subseteq Nat \ {0} /\ Days \in Nat /\ Days > 1 /\ Boxes \subseteq Nat /\ Boxes # {}

Keys == 0..(Count - 1)
NoKey == Count

VARIABLES
  aside,    \* is_exhausted
  made,     \* requests_made
  token,    \* keys with an access token
  day,      \* last_reset_day of each key
  current,  \* _current_index
  today,
  poll,     \* what the poll waits for: nothing, a token of a key, its boxes
  box,      \* each request under way: sent with a key, or to be sent again
  answers,  \* boxes of this poll that were answered
  blamed    \* history: keys that were refused, limited or used up since their reset

vars == <<aside, made, token, day, current, today, poll, box, answers, blamed>>

Idle == [stage |-> "idle", key |-> NoKey]
Gone == [stage |-> "gone", key |-> NoKey]
TypeOK ==
  /\ {aside, token, blamed} \subseteq SUBSET Keys
  /\ made \in [Keys -> 0..Credits] /\ day \in [Keys -> 0..(Days - 1)]
  /\ current \in Keys /\ today \in 0..(Days - 1) /\ answers \subseteq Boxes
  /\ poll \in [stage : {"idle", "token", "boxes"}, key : Keys \cup {NoKey}]
  /\ box \in [Boxes -> [stage : {"gone", "sent", "refresh", "replace", "again"}, key : Keys \cup {NoKey}]]

\* load_keys
Init ==
  /\ aside = {} /\ made = [k \in Keys |-> 0] /\ token = {}
  /\ today = 0 /\ day = [k \in Keys |-> 0] /\ current = 0
  /\ poll = Idle /\ box = [b \in Boxes |-> Gone] /\ answers = {} /\ blamed = {}

--------------------------------------------------------------------------------
\* The pool

Usable(k, out) == k \notin out
\* The first usable key from i on, round the ring; NoKey if there is none.
FirstFrom(i, out) ==
  IF \A k \in Keys : ~Usable(k, out) THEN NoKey
  ELSE LET steps == {n \in 0..(Count - 1) : Usable((i + n) % Count, out)}
       IN (i + (CHOOSE n \in steps : \A m \in steps : n <= m)) % Count
Available == FirstFrom(current, aside)
Settle(i) == IF i = NoKey THEN current ELSE i

\* Mutant of Rotate: with every key set aside the index leaves the list.
RotateOff(out) == FirstFrom(current + 1, out)
\* _rotate_to_next, once a key is set aside
Rotate(out) == LET next == FirstFrom(current + 1, out) IN IF next = NoKey THEN current ELSE next

Stale == {k \in Keys : day[k] # today}
Reset ==
  /\ made' = [k \in Keys |-> IF k \in Stale THEN 0 ELSE made[k]]
  /\ aside' = aside \ Stale /\ token' = token \ Stale /\ blamed' = blamed \ Stale
  /\ day' = [k \in Keys |-> today]

\* Mutant of MarkLimited: the pool rotates before it marks.
MarkLimitedRotated == current' = Rotate(aside) /\ aside' = aside \cup {current'}
\* mark_rate_limited: whatever key is current is set aside.
MarkLimited == aside' = aside \cup {current} /\ current' = Rotate(aside')

--------------------------------------------------------------------------------
\* A poll: can_request_now, get_bearer_token, one request for each box

Ask ==
  /\ poll = Idle /\ aside # Keys /\ \A b \in Boxes : box[b] = Gone
  /\ Reset
  /\ LET key == FirstFrom(current, aside')
     IN /\ current' = key
        /\ IF key \in token'
           THEN /\ poll' = [stage |-> "boxes", key |-> key]
                /\ box' = [b \in Boxes |-> [stage |-> "sent", key |-> key]]
           ELSE /\ poll' = [stage |-> "token", key |-> key]
                /\ UNCHANGED box
  /\ answers' = {} /\ UNCHANGED today

SendAll(key) ==
  /\ poll' = [stage |-> "boxes", key |-> key]
  /\ box' = [b \in Boxes |-> [stage |-> "sent", key |-> key]]

TokenGranted ==
  /\ poll.stage = "token"
  /\ token' = token \cup {poll.key} /\ SendAll(poll.key)
  /\ UNCHANGED <<aside, made, day, current, today, answers, blamed>>
\* 400, 401, 403 and 429 set the key aside, and the next one is asked.
TokenRefused ==
  /\ poll.stage = "token"
  /\ aside' = aside \cup {poll.key} /\ blamed' = blamed \cup {poll.key}
  /\ current' = Rotate(aside')
  /\ LET next == FirstFrom(current', aside')
     IN IF next = NoKey THEN poll' = Idle /\ UNCHANGED box
        ELSE IF next \in token THEN SendAll(next)
        ELSE poll' = [stage |-> "token", key |-> next] /\ UNCHANGED box
  /\ UNCHANGED <<made, token, day, today, answers>>
TokenFailed ==
  /\ poll.stage = "token" /\ poll' = Idle
  /\ UNCHANGED <<aside, made, token, day, current, today, box, answers, blamed>>

Leaves(b) == box' = [box EXCEPT ![b] = Gone]
\* An exception ends the poll of this box; that of an older poll is nobody's.
Fails(b) == Leaves(b) /\ poll' = (IF poll.stage = "boxes" THEN Idle ELSE poll)

\* record_request, once for each box
Recorded ==
  LET n == made[current] + 1
      used == n >= Credits
  IN /\ made' = [made EXCEPT ![current] = IF used THEN Credits ELSE n]
     /\ aside' = (IF used THEN aside \cup {current} ELSE aside)
     /\ current' = (IF used THEN Rotate(aside') ELSE current)
     /\ blamed' = (IF used THEN blamed \cup {current} ELSE blamed)

Waiting(b) == box[b].stage \in {"sent", "again"}
Answered(b) ==
  /\ Waiting(b) /\ Leaves(b) /\ answers' = answers \cup {b}
  /\ UNCHANGED <<aside, made, token, day, current, today, poll, blamed>>
\* With all boxes answered each is recorded, with the key that is current then.
Record ==
  /\ poll.stage = "boxes" /\ answers # {} /\ \A b \in Boxes : box[b] = Gone
  /\ Recorded
  /\ answers' = answers \ {CHOOSE b \in answers : TRUE}
  /\ poll' = (IF answers' = {} THEN Idle ELSE poll)
  /\ UNCHANGED <<token, day, today, box>>

Limited(b) ==
  /\ Waiting(b) /\ MarkLimited /\ Fails(b)
  /\ blamed' = blamed \cup {box[b].key}
  /\ UNCHANGED <<made, token, day, today, answers>>
Unauthorized(b) ==
  /\ box[b].stage = "sent"
  /\ IF Available = NoKey THEN Fails(b) /\ UNCHANGED <<token, current>>
     ELSE /\ current' = Available /\ token' = token \ {Available}
          /\ box' = [box EXCEPT ![b] = [stage |-> "refresh", key |-> Available]]
          /\ UNCHANGED poll
  /\ UNCHANGED <<aside, made, day, today, answers, blamed>>
RequestFailed(b) ==
  /\ Waiting(b) /\ Fails(b)
  /\ UNCHANGED <<aside, made, token, day, current, today, answers, blamed>>

\* refresh_current_token: the current key, then one replacement
Refreshed(b) ==
  /\ box[b].stage \in {"refresh", "replace"}
  /\ token' = token \cup {box[b].key} /\ box' = [box EXCEPT ![b].stage = "again"]
  /\ UNCHANGED <<aside, made, day, current, today, poll, answers, blamed>>
Replaces(b, out, now) ==
  LET next == FirstFrom(now, out)
  IN IF box[b].stage = "replace" \/ next \in {NoKey, box[b].key} THEN Fails(b)
     ELSE box' = [box EXCEPT ![b] = [stage |-> "replace", key |-> next]] /\ UNCHANGED poll
RefreshRefused(b) ==
  /\ box[b].stage \in {"refresh", "replace"}
  /\ aside' = aside \cup {box[b].key} /\ blamed' = blamed \cup {box[b].key}
  /\ current' = Rotate(aside') /\ Replaces(b, aside', current')
  /\ UNCHANGED <<made, token, day, today, answers>>
RefreshFailed(b) ==
  /\ box[b].stage \in {"refresh", "replace"}
  /\ current' = (IF box[b].stage = "refresh" THEN Settle(Available) ELSE current)
  /\ Replaces(b, aside, current')
  /\ UNCHANGED <<aside, made, token, day, today, answers, blamed>>

\* The poll is cancelled by its timeout, and its requests with it.
TimedOut ==
  /\ poll # Idle /\ poll' = Idle /\ box' = [b \in Boxes |-> Gone] /\ answers' = {}
  /\ UNCHANGED <<aside, made, token, day, current, today, blamed>>

--------------------------------------------------------------------------------

\* The expiry of a token is noticed before it is used.
Expire(k) ==
  /\ k \in token /\ token' = token \ {k}
  /\ UNCHANGED <<aside, made, day, current, today, poll, box, answers, blamed>>

\* A day is longer than a cycle of the monitor: no day passes without a reset.
NextDay ==
  /\ Stale = {}
  /\ today' = (today + 1) % Days
  /\ UNCHANGED <<aside, made, token, day, current, poll, box, answers, blamed>>
\* get_all_provider_status, from the heartbeat of the monitor (v36.py)
Heartbeat == Reset /\ UNCHANGED <<current, today, poll, box, answers>>

Next ==
  \/ Ask \/ TokenGranted \/ TokenRefused \/ TokenFailed
  \/ \E b \in Boxes :
       \/ Answered(b) \/ Limited(b) \/ Unauthorized(b) \/ RequestFailed(b)
       \/ Refreshed(b) \/ RefreshRefused(b) \/ RefreshFailed(b)
  \/ \E k \in Keys : Expire(k)
  \/ Record \/ TimedOut \/ NextDay \/ Heartbeat

\* The clock and the monitor's heartbeat go on, whatever OpenSky does.
Spec == Init /\ [][Next]_vars /\ WF_vars(NextDay) /\ WF_vars(Heartbeat)

--------------------------------------------------------------------------------
\* Properties

\* A credential is set aside for what happened to it: OpenSky refused or limited
\* it, or its own credits are used up.  (With two boxes it does not hold: two 429
\* answers to the requests of one credential set the next one aside as well.)
SetAsideForCause == aside \subseteq blamed

\* Once every credential is set aside nothing asks for a token, where the counters
\* are reset: the heartbeat alone brings them back, the next day.
OpenSkyReturns == []<>(aside # Keys)
================================================================================
