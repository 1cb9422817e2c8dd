---------------------------- MODULE SharedPolling ----------------------------
(***************************************************************************)
(* The monitor cycle over shared regions (app/worker/v35.py, v36.py, with   *)
(* cadence_guard_v423.py and cadence_due_guard_v424.py): which users are    *)
(* due, when their region is fetched, and what they are evaluated with when *)
(* the feeds answer nothing or too late.  What the feeds do inside one poll *)
(* is ProviderRotation; here it is one outcome.                             *)
(*                                                                          *)
(* Users with the same home share a region; the key of a region is the set  *)
(* of its users with their home, so a user who moves changes the keys of    *)
(* both regions.  A tick is the budget of a poll.  Settings change between  *)
(* cycles only: a cycle reads them once, at its start.                      *)
(***************************************************************************)
EXTENDS Integers, FiniteSets, FiniteSetsExt

CONSTANTS
  Users, Homes,
  Delay,        \* [Users -> Nat]: the least time between two evaluations
  Priority,     \* the users with priority
  Restless,     \* bound: the users who move or are paused
  Slot,         \* [Keys -> 0..2]: the cycle, mod 3, in which a new region is polled
  CycleLength,  \* poll_interval_seconds
  Hot, Discovery, HotHold, Continuity  \* as in v35.py, in ticks

Nowhere == "nowhere"
Keys == {k \in SUBSET (Users \X Homes) :
           k # {} /\ \A p, q \in k : p[2] = q[2] /\ (p[1] = q[1] => p = q)}

\* Of the constants; an instance assumes it.
PollingAssumption ==
  /\ Delay \in [Users -> Nat \ {0}] /\ {Priority, Restless} \subseteq SUBSET Users
  /\ IsFiniteSet(Users) /\ IsFiniteSet(Homes) /\ Nowhere \notin Homes
  /\ \A k \in Keys : Slot[k] \in 0..2
  /\ CycleLength \in Nat \ {0} /\ {Hot, Discovery, HotHold, Continuity} \subseteq Nat \ {0}
  /\ Hot <= Continuity /\ Discovery <= Continuity  \* 5, 15 and 28 seconds

Budget == 1
Never == -99    \* below every age
AgeCap == Continuity + Budget + 1
Bound(u) == Delay[u] - 1 + Max({CycleLength, Cardinality(Homes)}) + Cardinality(Homes) - 1

VARIABLES
  home,     \* where each user is; Nowhere: not active
  paused,   \* users whose notifications the administrator switched off
  snap,     \* snapshot of each region that has one
  since,    \* _last_user_processed_mono: its age, or Never
  cycle,    \* number of the cycle, mod 3
  todo,     \* regions this cycle has still to visit; "idle" between cycles
  spent,    \* duration of this cycle so far
  sighted,  \* history: time since the feeds last showed aircraft, by region
  waited,   \* history: time since the evaluation of each user began
  excused,  \* history: users who moved, were paused or not evaluated since
  view      \* history: what the last evaluation worked with

vars == <<home, paused, snap, since, cycle, todo, spent, sighted, waited, excused, view>>

Snapshot == [age : 0..AgeCap, hot : 0..HotHold, aircraft : BOOLEAN]
NoView == [aircraft |-> FALSE, stated |-> 0, true |-> 0, unseen |-> AgeCap]

TypeOK ==
  /\ home \in [Users -> Homes \cup {Nowhere}] /\ paused \subseteq Users
  /\ DOMAIN snap \subseteq Keys /\ \A k \in DOMAIN snap : snap[k] \in Snapshot
  /\ since \in [Users -> Int] /\ cycle \in 0..2 /\ spent \in Nat
  /\ DOMAIN sighted \subseteq Keys /\ excused \subseteq Users /\ waited \in [Users -> Nat]

Active == {u \in Users : home[u] # Nowhere}
Region(h) == {<<u, h>> : u \in {v \in Users : home[v] = h}}
LiveKeys == {Region(h) : h \in Homes} \ {{}}
Members(k) == {p[1] : p \in k}
Idle == {{}}

Init ==
  /\ home \in [Users -> Homes] /\ paused = {}
  /\ snap = <<>> /\ since = [u \in Users |-> Never]
  /\ cycle = 0 /\ todo = Idle /\ spent = 0
  /\ sighted = <<>> /\ excused = {} /\ waited = [u \in Users |-> 0] /\ view = NoView

--------------------------------------------------------------------------------
\* Time passes for everything that has an age.

Older(age, d) == Min({age + d, AgeCap})
Cooler(hot, d) == Max({hot - d, 0})
Elapse(d, snaps, started, seen, evaluated) ==
  /\ snap' = [k \in DOMAIN snaps |->
       [snaps[k] EXCEPT !.age = Older(@, d), !.hot = Cooler(@, d)]]
  /\ since' = [u \in Users |->
       IF started[u] = Never THEN Never ELSE Min({started[u] + d, Bound(u) + 1})]
  /\ sighted' = [k \in DOMAIN seen |-> Older(seen[k], d)]
  /\ waited' = [u \in Users |-> Min({(IF u \in evaluated THEN 0 ELSE waited[u]) + d, Bound(u) + 1})]

Keep(f, keys) == [k \in DOMAIN f \cap keys |-> f[k]]
With(f, k, v) == [x \in DOMAIN f \cup {k} |-> IF x = k THEN v ELSE f[x]]

--------------------------------------------------------------------------------
\* One cycle

NextCycle == (cycle + 1) % 3

\* The cycle reads the active users and forgets users and regions that are gone.
Begin ==
  /\ todo = Idle /\ Active # {}
  /\ todo' = LiveKeys
  /\ snap' = Keep(snap, LiveKeys) /\ sighted' = Keep(sighted, LiveKeys)
  /\ since' = [u \in Users |-> IF u \in Active THEN since[u] ELSE Never]
  /\ excused' = (excused \cap Active) \cup paused
  /\ UNCHANGED <<home, paused, cycle, spent, waited, view>>

\* The monitor loop sleeps for what is left of the interval.
End ==
  /\ todo = {}
  /\ todo' = Idle /\ spent' = 0 /\ cycle' = NextCycle
  /\ Elapse(Max({CycleLength - spent, 0}), snap, since, sighted, {})
  /\ view' = NoView
  /\ UNCHANGED <<home, paused, excused>>

BeginEmpty ==
  /\ todo = Idle /\ Active = {}
  /\ cycle' = NextCycle
  /\ Elapse(CycleLength, snap, since, sighted, {})
  /\ UNCHANGED <<home, paused, todo, spent, excused, view>>

\* _is_due; the tolerance of a quarter of a second is less than a tick.
Due(k) == {u \in Members(k) \ paused : since[u] = Never \/ since[u] >= Delay[u]}
Preferred(k) == Due(k) \cap Priority # {}

\* _region_order: priority first, then the fastest user.
Before(k, l) ==
  LET urgent(x) == IF Members(x) \cap Priority # {} THEN 0 ELSE 1
      fastest(x) == Min({Delay[u] : u \in Members(x)})
  IN \/ urgent(k) < urgent(l)
     \/ urgent(k) = urgent(l) /\ fastest(k) < fastest(l)
Visits(k) == todo # Idle /\ k \in todo /\ \A l \in todo : ~Before(l, k)

Skip(k) ==
  /\ Visits(k) /\ Due(k) = {}
  /\ todo' = todo \ {k}
  /\ UNCHANGED <<home, paused, snap, since, cycle, spent, sighted, waited, excused, view>>

--------------------------------------------------------------------------------
\* One region: poll, then evaluate its due users

\* _promote_priority_region
Promoted(k, snaps) ==
  IF Preferred(k) /\ k \in DOMAIN snaps THEN [snaps EXCEPT ![k].hot = HotHold] ELSE snaps

Has(k) == k \in DOMAIN snap
CacheHit(k) ==
  LET s == Promoted(k, snap)[k]
  IN Has(k) /\ s.age < (IF s.hot > 0 THEN Hot ELSE Discovery)
Staggered(k) ==
  ~Has(k) /\ Cardinality(LiveKeys) > 1 /\ ~Preferred(k) /\ cycle # Slot[k]

\* A plausible bug: an old snapshot is as good as none, whatever its age.
ContinuesAlways(k, age) == Has(k) /\ snap[k].aircraft
\* A plausible bug: the interval of a hot region instead of the continuity.
ContinuesHot(k, age) == Has(k) /\ snap[k].aircraft /\ age <= Hot
Continues(k, age) == Has(k) /\ snap[k].aircraft /\ age <= Continuity

Unseen(k, d) == IF k \in DOMAIN sighted THEN Older(sighted[k], d) ELSE AgeCap

\* A plausible bug: the delay is counted from the end of the evaluation.
StartedAtEnd(k, d) == [u \in Users |-> IF u \in Due(k) THEN 0 - d ELSE since[u]]
Started(k, d) == [u \in Users |-> IF u \in Due(k) THEN 0 ELSE since[u]]

\* The due users are evaluated, or the evaluation raises: then they stay due.
\* d is the time since the region was visited.
Evaluate(k, d, snaps, seen, aircraft, stated) ==
  /\ todo' = todo \ {k} /\ spent' = spent + d
  /\ view' = [aircraft |-> aircraft, stated |-> stated, unseen |-> Unseen(k, d),
              true |-> IF aircraft THEN (IF k \in DOMAIN seen THEN Older(seen[k], d) ELSE AgeCap) ELSE 0]
  /\ \/ /\ excused' = excused \ Due(k)
        /\ Elapse(d, Promoted(k, snaps), Started(k, d), seen, Due(k))
     \/ /\ aircraft
        /\ excused' = excused \cup Due(k)
        /\ Elapse(d, snaps, since, seen, Due(k))
  /\ UNCHANGED <<home, paused, cycle>>

Reuse(k) ==
  /\ Visits(k) /\ Due(k) # {} /\ CacheHit(k)
  /\ Evaluate(k, 0, Promoted(k, snap), sighted, snap[k].aircraft, snap[k].age)

\* A new region waits for its slot; its users count as evaluated.
Stagger(k) ==
  /\ Visits(k) /\ Due(k) # {} /\ Staggered(k)
  /\ Evaluate(k, 0, snap, sighted, FALSE, 0)

Asks(k) == Visits(k) /\ Due(k) # {} /\ ~CacheHit(k) /\ ~Staggered(k)

\* Aircraft, some of them near a due user (warm) or not.
Fetch(k, d, warm) ==
  /\ Asks(k)
  /\ Evaluate(k, d, With(snap, k, [age |-> 0, hot |-> IF warm THEN HotHold ELSE 0, aircraft |-> TRUE]),
              With(sighted, k, 0), TRUE, 0)

\* No feed showed an aircraft: the last snapshot goes on, at its age when the poll began.
Blank(k, d) ==
  /\ Asks(k)
  /\ IF Continues(k, snap[k].age)
     THEN Evaluate(k, d, Promoted(k, snap), sighted, TRUE, snap[k].age)
     ELSE Evaluate(k, d, With(snap, k, [age |-> 0, hot |-> 0, aircraft |-> FALSE]), sighted, FALSE, 0)

\* The budget is exhausted; nothing is stored.
CutOff(k) ==
  /\ Asks(k)
  /\ IF Continues(k, Older(snap[k].age, Budget))
     THEN Evaluate(k, Budget, Promoted(k, snap), sighted, TRUE, Older(snap[k].age, Budget))
     ELSE Evaluate(k, Budget, Promoted(k, snap), sighted, FALSE, 0)

--------------------------------------------------------------------------------
\* Settings

Move(u) ==
  /\ todo = Idle
  /\ \E h \in (Homes \cup {Nowhere}) \ {home[u]} : home' = [home EXCEPT ![u] = h]
  /\ excused' = excused \cup {u}
  /\ UNCHANGED <<paused, snap, since, cycle, todo, spent, sighted, waited, view>>

Pause(u) ==
  /\ todo = Idle
  /\ paused' = IF u \in paused THEN paused \ {u} ELSE paused \cup {u}
  /\ UNCHANGED <<home, snap, since, cycle, todo, spent, sighted, waited, excused, view>>

Visit(k) ==
  \/ Skip(k) \/ Reuse(k) \/ Stagger(k) \/ CutOff(k)
  \/ \E d \in 0..Budget : Blank(k, d) \/ \E warm \in BOOLEAN : Fetch(k, d, warm)

Cycle == Begin \/ BeginEmpty \/ End \/ \E k \in LiveKeys : Visit(k)
Next == Cycle \/ \E u \in Restless : Move(u) \/ Pause(u)

Spec == Init /\ [][Next]_vars

--------------------------------------------------------------------------------
(* What users are evaluated with was in the sky at most Continuity and one   *)
(* poll ago, and is never presented more than one poll too young.  Code:     *)
(* v35.poll and _continuity_result_after_budget; the age is taken before the *)
(* feeds are awaited and used after.                                         *)
ViewHonest == view.true <= Continuity + Budget /\ view.true <= view.stated + Budget

(* Users are shown an empty sky only when the feeds showed no aircraft in    *)
(* their region for longer than Continuity: "Never turn one transient blank  *)
(* response into an empty sky" (app/worker/v35.py:296).                      *)
SkyNotBlanked == view.aircraft \/ view.unseen > Continuity

(* A user whose evaluations do not fail is evaluated at the delay plus what  *)
(* a cycle may take, however slow the feeds of other regions are.  Code:     *)
(* v36._collect_due_users with a time per region, _record_users_processed.   *)
EvaluatedInTime == \A u \in (Active \ paused) \ excused : waited[u] <= Bound(u)
================================================================================
