\* Changes, resets, reloads of the GPUs and resumes, two GPUs, hardware and disk that
\* fail: the maps do not change under a task that uses them, and no settings the
\* hardware has refused are saved.
SPECIFICATION Spec
CONSTANTS
  Conn = {c1}
  Slot = {k1}
  Reloader = reloader
  Resumer = resumer
  FileWatcher = fileWatcher
  Gpu = {g1, g2}
  Val = {std, bad}
  Default = std
  Bad = {bad}
  Flaky = TRUE
  Suspends = FALSE
  Sequential = TRUE
  Ops <- ListenerOps
  None = none
INVARIANTS ControllersStay SavedIsAccepted
\* The daemon can really stop: see the run deadlock.
CHECK_DEADLOCK FALSE
