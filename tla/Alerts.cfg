SPECIFICATION ScenarioSpec
CONSTANTS
    Predictions <- FaultPredictions
    Radius = 10000
    MinConf = 36
    LiveStages = {"prepare"}
    StartStages = {"prepare"}
    GapMax = 1
    FreshFor = 1
    QuietFor = 2
    MaxAge = 2
    MaxClock = 4
    MaxMessages = 2
    MaxIdent = 1
    MaxRestarts = 1
    MaxFailures = 1
    NoRec = NoRec
    NoVal = NoVal
    NoCall = NoCall
INVARIANTS ScenarioTypeOK FirstMessageConfirmed NoDuplicate CancelConfirmed PassNotPredicted
PROPERTIES CancelledStays
CHECK_DEADLOCK FALSE
