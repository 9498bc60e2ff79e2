\* Every script of up to five block lines, every expression of up to four
\* tokens, and every run of three blocks, read and run with small budgets.
SPECIFICATION CritterSpec
CONSTANTS
  MaxNest = 3
  MaxSteps = 60
  MaxOutput = 4
  MaxLoop = 3
  MaxCallDepth = 2
  Registry <- MCRegistry
  Scripts <- MCScripts
  Reader <- Parse
  Unchainer <- WrittenOut
  AnswerNames <- HeldNames
INVARIANTS
  TreeIsWhatWasWritten
  GuestOnlyLooks
  PipeIsItsSteps
CHECK_DEADLOCK FALSE
