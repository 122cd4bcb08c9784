\* The fans have one owner, end as the last settings say and follow the temperature, whatever fails.
SPECIFICATION Spec
CONSTANTS
    Caller = {c1}
    FanTask = {k1, k2}
    Curves <- MCCurves
    Fixed = {29}
    Temps <- MCTemps
    Critical = 90
    Threshold = 3
    LongDelay = FALSE
    Fans = 2
    Faults = {"apply", "write", "sensor"}
    None = None
INVARIANTS TypeOK OneTask SettledFan
PROPERTIES HotterIsFaster FansHaveOneOwner ApplyReturns FollowsTemperature
