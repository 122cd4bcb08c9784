\* One client, GPUs with a fan task: every change is decided, every request answered.
SPECIFICATION Spec
CONSTANTS
  Conn = {c1}
  Slot = {k1, k2}
  Reloader = reloader
  Resumer = resumer
  FileWatcher = fileWatcher
  Gpu = {g1}
  Val = {std, bad}
  Default = std
  Bad = {bad}
  Flaky = FALSE
  Suspends = TRUE
  Sequential = TRUE
  Ops <- TimedOps
  None = none
PROPERTIES EveryRequestAnswered ChangesAreDecided
