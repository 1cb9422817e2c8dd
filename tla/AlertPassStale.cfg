SPECIFICATION Spec
CONSTANTS
    Predictions <- EndPredictions
    Radius = 10000
    MinConf = 36
    LiveStages = {"prepare"}
    StartStages = {"prepare"}
    GapMax = 1
    FreshFor = 1
    QuietFor = 2
    MaxAge = 3
    MaxClock = 6
    MaxMessages = 2
    MaxIdent = 1
    MaxRestarts = 0
    MaxFailures = 0
    NoRec = NoRec
    NoVal = NoVal
    NoCall = NoCall
INVARIANTS PassWasObserved
