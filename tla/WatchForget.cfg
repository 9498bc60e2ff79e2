\* Forgetting under a running watcher.
CONSTANTS
  Problem = {p1}
  Probe = {a}
  Check <- Checks
  Elsewhere = Elsewhere
  MaxSeverity = 1
  FlapLimit = 3
  Window = {w1}
  Once = {}
  Faults = {}
  None = None
SPECIFICATION Spec
PROPERTIES ForgetStartsOver
