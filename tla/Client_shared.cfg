SPECIFICATION Spec
CONSTANTS
    Task = {app, stats, page}
    Abortable = {stats}
    Embedded = FALSE
    MaxRequests = 5
    MaxStops = 1
    MaxAborts = 2
    None = None
INVARIANTS AtMostOnce AnswersOwn
PROPERTIES CallReturns DialogHides
CHECK_DEADLOCK FALSE
