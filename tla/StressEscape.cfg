\* The end of a stopped run meets the slot of the next.
CONSTANTS
  r1 = r1  r2 = r2
  Run = {r1, r2}
  Core = {c1}
  Memory = {}
  Asked <- BothThenCore
  Sensors = TRUE
  None = None
SPECIFICATION Spec
INVARIANT StopIsAvailable
