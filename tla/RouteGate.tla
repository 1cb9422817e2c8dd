------------------------------ MODULE RouteGate ------------------------------
(***************************************************************************)
(* The one authority on where a flight goes (app/intelligence/route_guard.py): *)
(* a resolver that looks callsigns up in the background, and the decision of *)
(* each monitor cycle, which waits for no lookup but holds the first alert   *)
(* of a flight while one is under way.  The hold must be short: an aircraft  *)
(* that is held is an aircraft the user is not told about.                   *)
(*                                                                          *)
(* Time is counted in monitor cycles.  Where a destination lies is          *)
(* abstracted to what the decision asks about it.                           *)
(***************************************************************************)
EXTENDS Naturals, Sequences, FiniteSets

CONSTANTS
  Flights,       \* callsigns of candidates
  MaxInflight,   \* lookups that exist at a time, waiting ones included
  MaxConcurrent, \* lookups that run at a time
  FetchCycles,   \* cycles a lookup runs at most: its requests have a timeout
  ResolvedTtl, ConflictTtl, NegativeTtl  \* cycles an answer is kept

\* Of the constants; an instance assumes it.
RouteAssumption ==
  /\ {MaxInflight, MaxConcurrent, FetchCycles} \subseteq Nat \ {0}
  /\ {ResolvedTtl, ConflictTtl, NegativeTtl} \subseteq Nat \ {0, 1}

VARIABLES
  cache,    \* what is known of each callsign, and for how long
  inflight, \* lookups, in the order they were made
  running,  \* how long each lookup has run, for those that do
  due,      \* flights the current cycle has still to decide
  held      \* cycles in a row a flight was held for its lookup

vars == <<cache, inflight, running, due, held>>

\* The destination an answer names, by what live movement says of it: an
\* airport the aircraft is about to land at, one that is far, another.
Airports == {"near", "other near", "far", "elsewhere"}
Nothing == "nothing"
Terminal == {"near", "other near"}
Unknown == [state |-> "unknown", destination |-> Nothing, left |-> 0]
Keep(state, destination, ttl) == [state |-> state, destination |-> destination, left |-> ttl]

Queued(f) == \E i \in DOMAIN inflight : inflight[i] = f

TypeOK ==
  /\ \A f \in Flights : cache[f].destination \in Airports \cup {Nothing}
  /\ inflight \in Seq(Flights) /\ DOMAIN running \subseteq Flights
  /\ due \subseteq Flights
  /\ held \in [Flights -> Nat]

Init ==
  /\ cache = [f \in Flights |-> Unknown] /\ inflight = <<>> /\ running = <<>>
  /\ due = Flights
  /\ held = [f \in Flights |-> 0]

\* choose: sources that disagree are ambiguous, unless exactly one names an
\* airport the aircraft is about to land at and the other one is far.
Choose(a, b) ==
  LET answers == {a, b} \ {Nothing}
      strong == answers \cap Terminal
  IN CASE answers = {} -> Keep("unavailable", Nothing, NegativeTtl)
       [] Cardinality(answers) = 1 -> Keep("resolved", CHOOSE x \in answers : TRUE, ResolvedTtl)
       [] Cardinality(strong) = 1 /\ "far" \in answers ->
            Keep("resolved", CHOOSE x \in strong : TRUE, ResolvedTtl)
       [] OTHER -> Keep("conflict", Nothing, ConflictTtl)

\* A plausible bug: a flight waits although its lookup was refused.
LookupPromised(f) ==
  IF cache[f].left > 0 THEN "known"
  ELSE IF Queued(f) THEN "pending" ELSE IF Len(inflight) >= MaxInflight THEN "pending" ELSE "starts"
\* lookup: what is known, a lookup that is under way or that starts, or none
\* because there are too many.
Lookup(f) ==
  IF cache[f].left > 0 THEN "known"
  ELSE IF Queued(f) THEN "pending" ELSE IF Len(inflight) >= MaxInflight THEN "none" ELSE "starts"

\* What may be decided once the destination is known: the aircraft diverges
\* from it, the airport is in the radius, it is no arrival there yet, or it
\* lands before it passes.
Decisions(destination) == IF destination \in Terminal THEN {"live", "suppressed"} ELSE {"live"}

\* evaluate_destination_path: presence in the radius overrides everything, and
\* a flight the user was told about is not held.
Decided(f, here, sent) ==
  CASE here -> {"live"}
    [] ~here /\ Lookup(f) \in {"pending", "starts"} -> {IF sent THEN "live" ELSE "held"}
    [] ~here /\ Lookup(f) = "known" -> Decisions(cache[f].destination)
    [] OTHER -> {"live"}

Evaluate(f, here, sent) ==
  /\ f \in due /\ due' = due \ {f}
  /\ inflight' = IF ~here /\ Lookup(f) = "starts" THEN Append(inflight, f) ELSE inflight
  /\ \E decision \in Decided(f, here, sent) :
       held' = [held EXCEPT ![f] = IF decision = "held" THEN @ + 1 ELSE 0]
  /\ UNCHANGED <<cache, running>>

Waiting == {i \in DOMAIN inflight : inflight[i] \notin DOMAIN running}
Slots == Cardinality(DOMAIN running) < MaxConcurrent

\* The semaphore serves the lookups in their order.
FetchStart ==
  /\ Slots /\ Waiting # {}
  /\ LET i == CHOOSE i \in Waiting : \A j \in Waiting : i <= j
     IN running' = [f \in DOMAIN running \cup {inflight[i]} |->
                      IF f = inflight[i] THEN 0 ELSE running[f]]
  /\ UNCHANGED <<cache, inflight, due, held>>

\* The lookups without that of f; those behind it move up.
Without(f) ==
  LET place == CHOOSE i \in DOMAIN inflight : inflight[i] = f
  IN [i \in 1..(Len(inflight) - 1) |-> inflight[IF i < place THEN i ELSE i + 1]]

\* Both sources answered, or failed, or timed out.
FetchEnd(f) ==
  /\ f \in DOMAIN running
  /\ \E a, b \in Airports \cup {Nothing} : cache' = [cache EXCEPT ![f] = Choose(a, b)]
  /\ running' = [g \in DOMAIN running \ {f} |-> running[g]]
  /\ inflight' = Without(f)
  /\ UNCHANGED <<due, held>>

\* The next cycle.  A lookup is over in time, and none waits for a free slot.
Tick ==
  /\ due = {} /\ due' = Flights
  /\ \A f \in DOMAIN running : running[f] < FetchCycles
  /\ Slots => Waiting = {}
  /\ running' = [f \in DOMAIN running |-> running[f] + 1]
  /\ cache' = [f \in Flights |-> IF cache[f].left <= 1 THEN Unknown
                                 ELSE [cache[f] EXCEPT !.left = @ - 1]]
  /\ UNCHANGED <<inflight, held>>

Next ==
  \/ \E f \in Flights : FetchEnd(f) \/ \E here, sent \in BOOLEAN : Evaluate(f, here, sent)
  \/ FetchStart \/ Tick

Spec == Init /\ [][Next]_vars

--------------------------------------------------------------------------------
(* A candidate is held for its lookup no longer than the lookups before it   *)
(* and its own can last: every refused or failed lookup lets it go.  Code:   *)
(* "initial alert held without blocking", the limits of the resolver.        *)
HoldBounded ==
  \A f \in Flights :
    held[f] <= FetchCycles * ((MaxInflight + MaxConcurrent - 1) \div MaxConcurrent) + 1
================================================================================
