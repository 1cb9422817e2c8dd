SPECIFICATION UpkeepSpec
CONSTANTS
    None = None
    Cases = {1, 2}
    Horizon = 5
    MaxLead = 0
    Audible = {0, 1, 3, 4}
    Width = 1
    Pad = 1
    Distances = {0, 1, 2, 3}
    Speed = 1
    Radius = 1
    Margin = 0
    Grace = 1
    Inconclusive = 2
    MaxFiles = 3
    MaxCases = 1
    MaxResolved = 2
    MaxFaults = 1
INVARIANTS UpkeepTypeOK LedgerHonest ServerInOrder
PROPERTIES WorkIsSafe UpkeepEnds
CHECK_DEADLOCK FALSE
