\* A dry run over one testable problem.
CONSTANTS
  i1 = i1  i2 = i2  rmA = rmA  svc = svc  adv = adv  bad = bad
  pA = pA  f1 = f1  r1 = r1  r2 = r2
  Item = {i1}
  Action = {rmA}
  Path = {pA}
  Content = {"mine", "theirs"}
  Runner = {r1}
  Absent = Absent
  None = None
  KindOf <- MCKindOf
  TargetOf <- MCTargetOf
  Permitted = {rmA}
  Candidates <- SharedFile
  FindingOf <- MCFindingOf
  Severity <- MCSeverity
  Testable = {i1}
  FrontEnd <- Terminal
  Faults = {}
  Interfering = {}
SPECIFICATION Spec
INVARIANT ExhaustedMeansTried
