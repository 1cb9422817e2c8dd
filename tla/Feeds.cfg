SPECIFICATION FeedsSpec
CONSTANTS
    Flights = {"f1", "f2", "f3"}
    Workers = {"w1", "w2"}
    Limit = 2
    MaxAge = 1
    Interval = 2
    MaxDeaths = 1
INVARIANTS FeedsTypeOK EvaluatedInTime HoldBounded KeyIsOnItsWay
PROPERTIES SkyIsHonest FeedsRecover
CHECK_DEADLOCK FALSE
