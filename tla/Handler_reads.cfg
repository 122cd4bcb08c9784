\* Two clients that read and clear, and edits of the file, but no reload of the
\* GPUs: the locks never block for good.
SPECIFICATION Spec
CONSTANTS
  Conn = {c1, c2}
  Slot = {k1}
  Reloader = reloader
  Resumer = resumer
  FileWatcher = fileWatcher
  Gpu = {g1}
  Val = {std}
  Default = std
  Bad = {}
  Flaky = FALSE
  Suspends = TRUE
  Sequential = FALSE
  Ops <- ReadOps
  None = none
PROPERTIES EveryRequestAnswered
