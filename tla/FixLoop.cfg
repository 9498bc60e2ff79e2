\* One process at a time: every kind of candidate, a testable and an untestable problem.
CONSTANTS
  i1 = i1  i2 = i2  rmA = rmA  svc = svc  adv = adv  bad = bad
  pA = pA  f1 = f1  r1 = r1  r2 = r2
  Item = {i1, i2}
  Action = {rmA, svc, adv, bad}
  Path = {pA}
  Content = {"mine", "theirs"}
  Runner = {r1}
  Absent = Absent
  None = None
  KindOf <- MCKindOf
  TargetOf <- MCTargetOf
  Permitted = {rmA, svc, adv}
  Candidates <- LoopCandidates
  FindingOf <- MCFindingOf
  Severity <- MCSeverity
  Testable = {i1, i2}
  FrontEnd <- Window
  Faults = {"change", "capture"}
  Interfering = {}
SPECIFICATION FairSpec
INVARIANTS EveryChangeIsRecorded NothingLost
PROPERTIES RollbackIsExact StopEndsRun
