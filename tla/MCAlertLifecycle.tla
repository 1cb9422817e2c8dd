-------------------------- MODULE MCAlertLifecycle --------------------------
(* Instances of AlertLifecycle for TLC.                                    *)
EXTENDS AlertLifecycle

Pred(state, cur, cpa, trend, enters) ==
    [state |-> state, cur |-> cur, cpa |-> cpa, eta |-> 100, trend |-> trend,
     conf |-> 60, enters |-> enters, stale |-> FALSE]

\* The radius is 10 km. An approach, the same with a CPA or a time that jumped, a
\* position inside, one receding from it, a clear miss, a near one, a pass just over, and
\* two that say nothing.
Approach == Pred("Approaching", 30000, 6000, -100, TRUE)
Sooner   == [Approach EXCEPT !.eta = 40]
Jumped   == Pred("Approaching", 30000, 9000, -100, TRUE)
Overhead == Pred("Passing_nearby", 8000, 6000, -100, TRUE)
Receding == Pred("Moving_away", 30000, 30000, 100, FALSE)
Miss     == Pred("Will_not_approach", 30000, 25000, 0, FALSE)
Unsure   == Pred("Prediction_uncertain", 30000, 30000, 0, FALSE)
Drifting == Pred("Will_not_approach", 30000, 11000, 0, FALSE)
Gone     == Pred("Passed", 8000, 8000, 100, TRUE)
Stale    == [Unsure EXCEPT !.stale = TRUE]

StartPredictions == {Approach, Sooner, Jumped, Overhead, Gone, Unsure, Stale}
EndPredictions   == {Approach, Overhead, Receding, Miss, Drifting, Unsure}
FaultPredictions == {Overhead, Receding}
=============================================================================
