--------------------------- MODULE ForecastLedger ---------------------------
(***************************************************************************)
(* What becomes of a /next60 forecast: bot/next60.py files an expectation,   *)
(* the sentinel loop scores it once its window is over                       *)
(* (next60_outcomes_v55.py) against the points of the flight that were       *)
(* heard (forecast_outcomes.py), and a checkpoint remembers what is scored.  *)
(* Missing coverage is no evidence: a miss must be proven from both sides    *)
(* of the window and between every two points.  /next60 files every          *)
(* expectation with a callsign and a window (bot/next60.py:206, 224), so that *)
(* none is passed over for the lack of one.                                  *)
(***************************************************************************)
EXTENDS Integers, FiniteSets, Sequences

CONSTANTS
  Cases,         \* the expectations, each named by its event id: ids are ordered
  Horizon,            \* bound: the last instant looked at
  Audible,       \* the instants at which a receiver may hear the flight
  MaxLead,       \* how far ahead a window begins at most
  Width,         \* length of a window
  Pad,           \* OUTCOME_MATCH_PADDING_S
  Distances,     \* the distances of the flight from the observer
  Speed,         \* the speed bound
  Radius,        \* the radius of the observer
  Margin,        \* _NEGATIVE_SAFETY_MARGIN_KM
  Grace,         \* RESOLVE_GRACE_S
  Inconclusive,  \* INCONCLUSIVE_AFTER_S
  MaxFiles,      \* MAX_EXPECTATION_FILES: of evidence of every kind
  MaxCases,      \* MAX_CASES_PER_RUN
  MaxResolved,   \* STATE_MAX_RESOLVED
  MaxFaults      \* bound: moves, failures, crashes, other evidence in one behaviour

ASSUME CasesAreOrdered == Cases \subseteq Nat /\ IsFiniteSet(Cases)
ASSUME SizesAreNatural ==
  /\ Distances \subseteq Nat /\ Radius \in Nat /\ Margin \in Nat /\ Speed \in Nat
  /\ Horizon \in Nat /\ MaxLead \in Nat /\ Width \in Nat \ {0} /\ Pad \in Nat
  /\ Grace \in Nat /\ Inconclusive \in Nat /\ Grace <= Inconclusive
  /\ MaxFiles \in Nat /\ MaxCases \in Nat /\ MaxResolved \in Nat /\ MaxFaults \in Nat

VARIABLES
  flight,    \* how far the flight is from the observer at each instant
  now, heard,  \* the time; the instants at which a point of the flight was recorded
  files,     \* the files in raw/, oldest first: expectations, outcomes and others
  begin,     \* where the window of each asked case begins
  outcomes,  \* the outcomes in the spool, for each case
  resolved,  \* the ids in the state file
  run,       \* the pass of the resolver, if one goes on
  place,     \* where the observer lives now, compared with when they asked
  cut,       \* history: a pass ended with outcomes that no checkpoint covers
  faults

vars == <<flight, now, heard, files, begin, outcomes, resolved, run, place, cut, faults>>

Instants == 0..Horizon
Smaller(a, b) == IF a <= b THEN a ELSE b

(* No aircraft is faster than the bound. *)
Bounded(d) == \A t \in Instants : t + 1 \in Instants => d[t + 1] - d[t] \in -Speed..Speed
Flights == {d \in [Instants -> Distances] : Bounded(d)}

NoRun == [on |-> FALSE, at |-> 0, place |-> "here", old |-> {}, todo |-> {}, done |-> {}]
Other == -1   \* a file that is no expectation: an outcome, or another kind of evidence
Filed == {files[i] : i \in 1..Len(files)} \cap Cases
(* The expectations among the files the resolver reads.                      *)
Newest == {files[i] : i \in {j \in 1..Len(files) : j > Len(files) - MaxFiles}} \cap Cases
Newer(a, b) == \E i, j \in 1..Len(files) : files[i] = a /\ files[j] = b /\ i > j
Asked == DOMAIN begin
End(c) == begin[c] + Width
Window(c) == begin[c]..End(c)
Near(c) == (begin[c] - Pad)..(End(c) + Pad)

Init ==
  /\ flight \in Flights
  /\ now = 0 /\ heard \in {{}, {0} \cap Audible}
  /\ files = <<>> /\ begin = <<>>
  /\ outcomes = [c \in Cases |-> <<>>] /\ resolved = {}
  /\ run = NoRun /\ place = "here" /\ cut = FALSE /\ faults = 0

Faulty == faults < MaxFaults /\ faults' = faults + 1

-----------------------------------------------------------------------------
(* Points between which nothing else was heard. *)
Adjacent(S, l, r) == l \in S /\ r \in S /\ l < r /\ \A s \in S : s <= l \/ r <= s

(* Mutant of CoveredNegative: what the flight may have done between two      *)
(* points is not asked.                                                      *)
CoveredAtPoints(d, S, b, e) ==
  /\ \E s \in S : s <= b
  /\ \E s \in S : e <= s
  /\ \A s \in S : b < s /\ s < e => d[s] > Radius + Margin

(* _covered_negative: points on both sides of the window, and between any    *)
(* two neighbours no room to come near and go away again.                    *)
CoveredNegative(d, S, b, e) ==
  /\ \E s \in S : s <= b
  /\ \E s \in S : e <= s
  /\ \A l, r \in S :
       Adjacent(S, l, r) /\ b < r /\ l < e =>
         2 * Smaller(d[l], d[r]) - Speed * (r - l) > 2 * (Radius + Margin)

(* observed_outcome. *)
Observed(c) ==
  IF ~ \E s \in heard : s \in Near(c) THEN "unscored"
  ELSE IF \E s \in heard : s \in Near(c) /\ flight[s] <= Radius THEN "pass"
  ELSE IF CoveredNegative(flight, heard, begin[c], End(c)) THEN "miss"
  ELSE "unscored"

(* The expectation holds no place: it is scored where the observer lives at  *)
(* the start of the pass, where the flight may have been anywhere.           *)
Evidence(c) ==
  CASE run.place = "here" -> {Observed(c)}
    [] run.place = "elsewhere" -> {"pass", "miss", "unscored"}
    [] OTHER -> {"unscored"}

-----------------------------------------------------------------------------
Others == UNCHANGED <<flight, now, heard, files, begin, outcomes, resolved, place>>

(* /next60: the forecast is filed. *)
Ask(c) ==
  /\ c \notin Asked /\ place = "here" /\ now < Horizon
  /\ \E s \in now..(now + MaxLead) :
       /\ s + Width + Inconclusive <= Horizon
       /\ begin' = [k \in Asked \cup {c} |-> IF k = c THEN s ELSE begin[k]]
  /\ files' = Append(files, c)
  /\ UNCHANGED <<flight, now, heard, outcomes, resolved, run, place, cut, faults>>

(* Time goes on, and the flight is heard or not. *)
Tick ==
  /\ now < Horizon /\ now' = now + 1
  /\ heard' \in {heard, heard \cup ({now + 1} \cap Audible)}
  /\ UNCHANGED <<flight, files, begin, outcomes, resolved, run, place, cut, faults>>

(* The observer moves or leaves. *)
Move ==
  /\ Faulty /\ place = "here" /\ place' \in {"elsewhere", "gone"}
  /\ UNCHANGED <<flight, now, heard, files, begin, outcomes, resolved, run, cut>>

(* Compaction takes a file out of raw/: an expectation, scored or not, or another. *)
Compacted ==
  /\ Faulty
  /\ \E i \in 1..Len(files) :
       files' = [j \in 1..(Len(files) - 1) |-> IF j < i THEN files[j] ELSE files[j + 1]]
  /\ UNCHANGED <<flight, now, heard, begin, outcomes, resolved, run, place, cut>>

(* Evidence of another kind is filed. *)
Recorded ==
  /\ Faulty /\ files' = Append(files, Other)
  /\ UNCHANGED <<flight, now, heard, begin, outcomes, resolved, run, place, cut>>

-----------------------------------------------------------------------------
(* _load_expectations: the newest unresolved ones whose window is long over. *)
Due(known) == {c \in Newest \ known : now - End(c) >= Grace}
Batch(known) == {c \in Due(known) : Cardinality({d \in Due(known) : Newer(d, c)}) < MaxCases}

Start(known) ==
  /\ ~run.on /\ Batch(known) # {}
  /\ run' = [on |-> TRUE, at |-> now, place |-> place, old |-> known, todo |-> Batch(known), done |-> {}]
  /\ Others

Begin == Start(resolved) /\ UNCHANGED <<cut, faults>>
(* A state file that cannot be read counts as empty. *)
BeginUnread == Faulty /\ Start({}) /\ cut' = TRUE

(* A pass that ends before its checkpoint. *)
Stop ==
  /\ run' = NoRun
  /\ cut' = (cut \/ run.done # {})

Score(c) ==
  /\ run.on /\ c \in run.todo
  /\ \A d \in run.todo : ~Newer(d, c)
  /\ UNCHANGED <<flight, now, heard, begin, resolved, place>>

Verdict(v) == IF v = "unscored" THEN "unknown" ELSE v
(* Mutant of Settles: a case without coverage stays open. *)
SettlesSeen(c, v) == v # "unscored"
Settles(c, v) == v # "unscored" \/ run.at - End(c) >= Inconclusive

(* One expectation is scored, and its outcome filed among the evidence. *)
Write(c) ==
  /\ Score(c)
  /\ \E v \in Evidence(c) :
       /\ Settles(c, v)
       /\ outcomes' = [outcomes EXCEPT ![c] = Append(@, [verdict |-> Verdict(v), place |-> run.place])]
  /\ files' = Append(files, Other)
  /\ run' = [run EXCEPT !.todo = @ \ {c}, !.done = @ \cup {c}]
  /\ UNCHANGED <<cut, faults>>

(* Nothing is known yet: a later pass may know. *)
Skip(c) ==
  /\ Score(c)
  /\ \E v \in Evidence(c) : ~Settles(c, v)
  /\ run' = [run EXCEPT !.todo = @ \ {c}]
  /\ UNCHANGED <<files, outcomes, cut, faults>>

(* Mutant of WriteRefused: the case is checkpointed although nothing was     *)
(* written.                                                                  *)
WriteRefusedCounts(c) ==
  /\ Faulty /\ Score(c)
  /\ \E v \in Evidence(c) : Settles(c, v)
  /\ run' = [run EXCEPT !.todo = @ \ {c}, !.done = @ \cup {c}]
  /\ UNCHANGED <<files, outcomes, cut>>

(* append_evidence returns nothing: the case stays open. *)
WriteRefused(c) ==
  /\ Faulty /\ Score(c)
  /\ \E v \in Evidence(c) : Settles(c, v)
  /\ run' = [run EXCEPT !.todo = @ \ {c}]
  /\ UNCHANGED <<files, outcomes, cut>>

(* The points of the flight cannot be read: the error ends the pass. *)
LookupFails(c) == Faulty /\ Score(c) /\ run.place # "gone" /\ Stop /\ UNCHANGED <<files, outcomes>>

(* Mutant of Kept: a pass replaces what the passes before it resolved. *)
KeptOfThisPass(old, new) == new

(* The state file is written with its keys sorted, so that the entries of    *)
(* earlier passes come back in the order of their ids: what is cut off are   *)
(* the smallest ids, not the oldest.                                         *)
Kept(old, new) ==
  {c \in old : Cardinality({d \in old : d > c}) + Cardinality(new) < MaxResolved} \cup new

Finish ==
  /\ run.on /\ run.todo = {}
  /\ resolved' = IF run.done = {} THEN resolved ELSE Kept(run.old, run.done)
  /\ run' = NoRun
  /\ UNCHANGED <<flight, now, heard, files, begin, outcomes, place, cut, faults>>

(* The process ends, or the state file cannot be written. *)
Crash == Faulty /\ run.on /\ Stop /\ Others

Next ==
  \/ Tick \/ Move \/ Compacted \/ Recorded \/ Begin \/ BeginUnread \/ Finish \/ Crash
  \/ \E c \in Cases : Ask(c) \/ Write(c) \/ Skip(c) \/ WriteRefused(c) \/ LookupFails(c)

Resolver == Begin \/ Finish \/ \E c \in Cases : Write(c) \/ Skip(c)
Spec == Init /\ [][Next]_vars /\ WF_vars(Tick) /\ WF_vars(Resolver)

-----------------------------------------------------------------------------
Outcome == [verdict : {"pass", "miss", "unknown"}, place : {"here", "elsewhere", "gone"}]

TypeOK ==
  /\ flight \in Flights /\ now \in Instants /\ heard \subseteq 0..now
  /\ files \in Seq(Cases \cup {Other}) /\ Filed \subseteq Asked
  /\ Asked \subseteq Cases /\ begin \in [Asked -> Instants]
  /\ \A c \in Asked : End(c) \in Instants
  /\ outcomes \in [Cases -> Seq(Outcome)]
  /\ resolved \subseteq Asked
  /\ run \in [on : BOOLEAN, at : 0..now, place : {"here", "elsewhere", "gone"},
              old : SUBSET Asked, todo : SUBSET Asked, done : SUBSET Asked]
  /\ place \in {"here", "elsewhere", "gone"}
  /\ cut \in BOOLEAN /\ faults \in 0..MaxFaults

(* What an outcome says of a case happened: a miss means that the flight was *)
(* never within the radius during the window, whoever heard it; a pass that  *)
(* it was, near the window.  An observer who has moved is the exception.     *)
True(c, o) ==
  o.place = "here" =>
    /\ o.verdict = "miss" => \A t \in Window(c) : flight[t] > Radius
    /\ o.verdict = "pass" => \E t \in Near(c) \cap Instants : flight[t] <= Radius
OutcomesAreTrue == \A c \in Cases : \A i \in 1..Len(outcomes[c]) : True(c, outcomes[c][i])

(* A case is only marked as resolved once its outcome is in the spool. *)
CheckpointHasEvidence == \A c \in resolved : outcomes[c] # <<>>

(* The two together. *)
LedgerHonest == OutcomesAreTrue /\ CheckpointHasEvidence

(* "safe to run repeatedly": a case whose pass was not cut short is scored   *)
(* once.                                                                     *)
ScoredOnce == cut \/ \A c \in Cases : Len(outcomes[c]) <= 1

(* Every forecast is settled, unless its file leaves the newest ones of the   *)
(* evidence first, pushed out by the outcomes of others or by other evidence. *)
Settled == \A c \in Cases : []<>(c \in Newest => outcomes[c] # <<>>)
=============================================================================
