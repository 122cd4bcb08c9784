SPECIFICATION Spec
CHECK_DEADLOCK FALSE
CONSTANTS
    ProcessNames = {"p"}
    Args = {"x"}
    Gpus = {1, 2}
    Initial <- MCInitial
    Current = {"A"}
    NewNames = {"C"}
    Bases = {"A"}
    Default = "default"
    None = "none"
    MaxClicks = 2
    MaxSwitches = 1
    MaxFaults = 1
    MaxEvents = 3
INVARIANTS  RuleIsKept
PROPERTIES SwitchesOnlyOnClick
