\* A reload and a resume come while a change waits for its confirmation.
SPECIFICATION Spec
CONSTANTS
  Conn = {c1}
  Slot = {k1}
  Reloader = reloader
  Resumer = resumer
  FileWatcher = fileWatcher
  Gpu = {g1}
  Val = {std}
  Default = std
  Bad = {}
  Flaky = FALSE
  Suspends = TRUE
  Sequential = TRUE
  Ops <- DeadlockOps
  None = none
PROPERTIES EveryRequestAnswered
CHECK_DEADLOCK FALSE
