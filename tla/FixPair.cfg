\* The terminal and the window at once, either of them crashing.
CONSTANTS
  i1 = i1  i2 = i2  rmA = rmA  svc = svc  adv = adv  bad = bad
  pA = pA  f1 = f1  r1 = r1  r2 = r2
  Item = {i1, i2}
  Action = {rmA, svc, adv}
  Path = {pA}
  Content = {"mine"}
  Runner = {r1, r2}
  Absent = Absent
  None = None
  KindOf <- MCKindOf
  TargetOf <- MCTargetOf
  Permitted = {rmA, svc, adv}
  Candidates <- PairCandidates
  FindingOf <- MCFindingOf
  Severity <- MCSeverity
  Testable = {i1}
  FrontEnd <- Window
  Faults = {"crash", "restore"}
  Interfering = {}
SPECIFICATION Spec
INVARIANTS ResolvedMeansConfirmed PermissionBeforeChange
SYMMETRY RunnerSymmetry
