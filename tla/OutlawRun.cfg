\* Two uses of the tool, side by side or one after the other, of every kind.
SPECIFICATION Spec
CONSTANTS
  terminal = terminal  window = window
  Proc = {terminal, window}
  KEEP = 1
  INCLUDED = 1
  Load = {l1}
  MaxLines = 2
  AtOnce = 2
  AfterRace = FALSE
  Faults = {"disk", "half"}
  None = None
  Typed <- OneOfEach
  Fragile = {"snapshots"}
  MaxTurns = 1
  Alongside = FALSE
INVARIANTS
  VouchedFor
  HistoryIsKept
  ExitSpeaks
PROPERTIES
  EditsAreKept
CHECK_DEADLOCK FALSE
