\* Two runs, one after the other or overlapping, each with a core and the memory.
CONSTANTS
  r1 = r1  r2 = r2
  Run = {r1, r2}
  Core = {c1}
  Memory = {m1}
  Asked <- BothThenCore
  Sensors = TRUE
  None = None
SPECIFICATION FairSpec
INVARIANTS HeatIsWatched FaultsReported CleanMeansWorked
PROPERTIES RunEnds HeatEndsLoad
