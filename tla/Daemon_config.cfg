SPECIFICATION Spec
CONSTANTS
    Latest = 2
    Resets <- MCResets
    First <- MCFirst
    MaxEdits = 4
    MaxStops = 1
    MaxKills = 1
    MaxKernelEvents = 2
    MaxEvents = 2
INVARIANTS RestAgrees SavedStays
PROPERTIES StartsAgain DevicesAreSeen
CHECK_DEADLOCK FALSE
