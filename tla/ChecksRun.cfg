SPECIFICATION ChecksSpec
CONSTANTS
  ZOMBIE_THRESHOLD = 1
  CLUSTER_THRESHOLD = 2
  CROWDED = 3
  MAX_ENTRIES = 30
  SETTLE = 2
  MaxTests = 2
  MaxStarts = 2
  MaxLooks = 2
  Unreplaced = {}
  Facts <- AllFacts
INVARIANTS
  FixedIsNotFound
  AlreadyRunningIsLeftAlone
PROPERTY WorseIsNoMilder
CHECK_DEADLOCK FALSE
