----------------------------- MODULE SkyPartition -----------------------------
(***************************************************************************)
(* The aircraft of one shared snapshot, handed out to the users of the       *)
(* region (app/worker/scale_v53.py): a grid of cells finds the users who may *)
(* be near an aircraft, an exact distance decides, and a user who would get  *)
(* too many keeps the nearest.                                              *)
(*                                                                          *)
(* The earth is a ring of longitudes, at one latitude, in steps of which     *)
(* CellSize make a cell: longitude is where the grid can wrap.  A distance   *)
(* is the shorter way round the ring.                                       *)
(***************************************************************************)
EXTENDS Integers, Sequences, FiniteSets, FiniteSetsExt

CONSTANTS
  Users,
  Homes,      \* SUBSET of West..East: where users may be
  Radii,      \* tracking radii: radius_km + EXTRA_TRACKING_MARGIN_KM
  Around,     \* 360 degrees; longitude -180 is 0
  CellSize,   \* CELL_DEG
  MaxCells,   \* MAX_INDEX_CELLS_PER_USER
  MaxCandidates,  \* MAX_CANDIDATE_AIRCRAFT_PER_USER
  MaxAircraft     \* bound: length of the feed

West == 0
East == Around - 1
Ring == West..East

\* Of the constants; an instance assumes it.
PartitionAssumption ==
  /\ {Around, CellSize, MaxCells, MaxCandidates} \subseteq Nat \ {0} /\ MaxAircraft \in Nat
  /\ Around % CellSize = 0 /\ Homes \subseteq Ring /\ Radii \subseteq {r \in Nat : 2 * r < Around}

VARIABLES
  users,    \* place and tracking radius of each user
  feed,     \* the aircraft of the snapshot that were handed out, by place
  bucket    \* of each user, the aircraft kept: positions in the feed

vars == <<users, feed, bucket>>

TypeOK ==
  /\ users \in [Users -> [home : Homes, radius : Radii]]
  /\ feed \in Seq(Ring)
  /\ bucket \in [Users -> SUBSET DOMAIN feed]
  /\ \A u \in Users : Cardinality(bucket[u]) <= MaxCandidates

Init ==
  /\ users \in [Users -> [home : Homes, radius : Radii]]
  /\ feed = <<>> /\ bucket = [u \in Users |-> {}]

--------------------------------------------------------------------------------
\* The grid

Wrapped(x) == x % Around
Cell(x) == Wrapped(x) \div CellSize

\* Mutant of Ranges: an envelope over the date line ends there.
RangesClipped(u) == {<<Max({u.home - u.radius, West}), Min({u.home + u.radius, East})>>}
\* _user_envelope_cells: the ranges of longitude of the envelope, split at the
\* date line.  Going east it stops just before 180; going west it is one up to 180,
\* whose cell is the first one again.
Ranges(u) ==
  LET low == u.home - u.radius
      high == u.home + u.radius
  IN CASE low < West -> {<<low + Around, Around>>, <<West, high>>}
       [] low >= West /\ high >= Around -> {<<low, East>>, <<West, high - Around>>}
       [] OTHER -> {<<low, high>>}
Envelope(u) == UNION {Cell(r[1])..Cell(r[2]) : r \in Ranges(u)}
IsFallback(u) == Cardinality(Envelope(u)) > MaxCells

Candidates(x) == {u \in Users : IsFallback(users[u]) \/ Cell(x) \in Envelope(users[u])}

--------------------------------------------------------------------------------
\* One aircraft at a time

Apart(x, y) == Min({Wrapped(x - y), Wrapped(y - x)})
Distance(u, x) == Apart(users[u].home, x)
\* The root of the heap: the farthest, the earliest of these.
Farthest(u, kept) ==
  CHOOSE i \in kept : \A j \in kept \ {i} :
    \/ Distance(u, feed[i]) > Distance(u, feed[j])
    \/ Distance(u, feed[i]) = Distance(u, feed[j]) /\ i < j

\* Mutant of Keep: a full bucket takes no more.
KeepFirst(u, x) ==
  IF Cardinality(bucket[u]) < MaxCandidates THEN bucket[u] \cup {Len(feed) + 1} ELSE bucket[u]
Keep(u, x) ==
  LET kept == bucket[u]
      out == Farthest(u, kept)
      full == Cardinality(kept) >= MaxCandidates
  IN CASE ~full -> kept \cup {Len(feed) + 1}
       [] full /\ Distance(u, x) < Distance(u, feed[out]) -> (kept \ {out}) \cup {Len(feed) + 1}
       [] OTHER -> kept

HandOut(x) ==
  /\ Len(feed) < MaxAircraft
  /\ feed' = Append(feed, x)
  /\ bucket' = [u \in Users |->
       IF u \in Candidates(x) /\ Distance(u, x) <= users[u].radius THEN Keep(u, x) ELSE bucket[u]]
  /\ UNCHANGED users

Next == \E x \in Ring : HandOut(x)
Spec == Init /\ [][Next]_vars

--------------------------------------------------------------------------------
\* Properties

Within(u) == {i \in DOMAIN feed : Distance(u, feed[i]) <= users[u].radius}

\* tests/test_scale_v53.py, test_spatial_index_matches_bruteforce_candidate_truth:
\* until the cap is reached a user has exactly the aircraft in the tracking
\* radius, whatever cells they fall in, wherever the user lives.
ExactMembership ==
  \A u \in Users : Cardinality(Within(u)) <= MaxCandidates => bucket[u] = Within(u)

\* The same without the users who live just east of the date line, whose range
\* on the other side of it is empty: see the run AcrossTheLine.
ExactElsewhere ==
  \A u \in Users : users[u].home - users[u].radius >= West /\ Cardinality(Within(u)) <= MaxCandidates
                     => bucket[u] = Within(u)

\* A user over the cap keeps as many as the cap allows, and none that was left
\* out, in whatever order the feed names them, is nearer than one that was kept.
NearestAreKept ==
  \A u \in Users : users[u].home - users[u].radius >= West /\ Cardinality(Within(u)) > MaxCandidates =>
    /\ Cardinality(bucket[u]) = MaxCandidates
    /\ \A i \in bucket[u], j \in Within(u) \ bucket[u] :
         Distance(u, feed[i]) <= Distance(u, feed[j])
================================================================================
