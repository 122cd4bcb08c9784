\* One client, GPUs whose settings are applied without a wait: the transactions
\* leave nothing inconsistent.
SPECIFICATION Spec
CONSTANTS
  Conn = {c1}
  Slot = {k1, k2}
  Reloader = reloader
  Resumer = resumer
  FileWatcher = fileWatcher
  Gpu = {g1}
  Val = {std, low, bad}
  Default = std
  Bad = {bad}
  Flaky = FALSE
  Suspends = FALSE
  Sequential = TRUE
  Ops <- EditOps
  None = none
INVARIANTS TypeOK SettledAgree RevertsToSaved
