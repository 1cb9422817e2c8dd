SPECIFICATION Spec
CONSTANTS
  Users = {1, 2}
  Homes = {0, 5, 14, 15}
  Radii = {3, 5}
  Around = 16
  CellSize = 2
  MaxCells = 5
  MaxCandidates = 2
  MaxAircraft = 4
INVARIANT ExactMembership
CHECK_DEADLOCK FALSE
