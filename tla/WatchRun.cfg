\* The watcher of the window and a scheduled task on one memory, with every fault;
\* Stop at any moment.
CONSTANTS
  Problem = {p1}
  Probe = {a}
  Check <- Checks
  Elsewhere = Elsewhere
  MaxSeverity = 1
  FlapLimit = 3
  Window = {w1}
  Once = {o1}
  Faults = {"quit", "save", "unreadable"}
  None = None
SPECIFICATION FairSpec
INVARIANTS ToldIsUpToDate
PROPERTIES GoneMeansGone TellsOneStory StoppedWatcherEnds StayingProblemIsTold
