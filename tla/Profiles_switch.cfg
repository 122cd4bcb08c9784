SPECIFICATION Spec
CONSTANTS
    Client = {c1}
    Watcher = {w1, w2, w3}
    Capacity = 1
    Events = 2
    Pids = {1, 2}
    ShortLived = 9
    Names <- MCNames
    Args = {"v"}
    Infos <- MCInfos
    Running <- MCRunning
    Initial <- MCInitial
    NewNames = {"n"}
    Rules <- MCRules
    Files <- MCFiles
    Operations = {"set", "create", "delete", "move", "rule"}
    MaxRequests = 1
    MaxChanges = 1
    Default = "default"
    None = None
INVARIANTS ListAgrees OneWatcher RestFollowsRules SetIsApplied
PROPERTIES WatcherStarts DeletedIsLeft
CHECK_DEADLOCK FALSE
