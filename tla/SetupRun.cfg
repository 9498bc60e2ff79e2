\* Two versions, three runs one after the other, on Windows and on Linux.
SPECIFICATION SetupSpec
CONSTANTS
  Release = {v1, v2}
  Wishes <- AllOrLittle
  Systems = {TRUE, FALSE}
  Mishaps = {"network", "disk", "denied", "cut"}
  MaxRuns = 3
  Absent = Absent
  Torn = Torn
INVARIANTS
  WholeProgram
  ReceiptIsTrue
SYMMETRY VersionsAreAlike
CHECK_DEADLOCK FALSE
