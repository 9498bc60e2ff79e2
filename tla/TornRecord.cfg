\* By hand: a record that was written whole joins the half line before it (incident/mod.rs:185).
SPECIFICATION Spec
CONSTANTS
  terminal = terminal  window = window
  Proc = {terminal, window}
  KEEP = 1
  INCLUDED = 1
  Load = {l1}
  MaxLines = 2
  AtOnce = 2
  AfterRace = FALSE
  Faults = {"disk", "half"}
  None = None
  Typed <- OneOfEach
  Fragile = {"snapshots"}
  MaxTurns = 1
  Alongside = FALSE
INVARIANTS
  RecordedIsRead
CHECK_DEADLOCK FALSE
