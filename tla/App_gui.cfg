SPECIFICATION Spec
CONSTANTS
    Value = {1, 2}
    DefaultValue = 1
    PowerState = {0, 1}
    Delay = 2
    Editable = {"cap", "level", "mode", "fan", "firmware", "core", "clocks"}
    MaxEdits = 2
    MaxApplies = 2
    MaxClicks = 1
    MaxFaults = 1
    MaxEvents = 5
    None = None
INVARIANTS ShownIsSaved AppliedIsSaved ChangesAreRevealed
PROPERTIES ClocksAreKeptByUser ComesToRest
CHECK_DEADLOCK FALSE
