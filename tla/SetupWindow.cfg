\* One installation on Linux that goes through: is there an entry for the window?
SPECIFICATION SetupSpec
CONSTANTS
  Release = {v1, v2}
  Wishes <- AllOrLittle
  Systems = {FALSE}
  Mishaps = {}
  MaxRuns = 1
  Absent = Absent
  Torn = Torn
INVARIANTS
  WindowIsReachable
CHECK_DEADLOCK FALSE
