SPECIFICATION Spec
CONSTANTS
    Configs <- MCConfigs
    NoSettings <- MCNone
    None = None
    MaxJobs = 4
    MaxFaults = 2
    BaseLevel = "auto"
    Offsets <- MCOffsets
    Drivers = {"amdgpu", "nvidia", "xe"}
INVARIANTS OkMeansApplied OffsetsAreShown CleanupResets
CHECK_DEADLOCK FALSE
