\* A shell that runs the tool, a game of two processes, and one program that
\* starts meanwhile, under an identifier that was let go.
SPECIFICATION Spec
CONSTANTS
  shell = shell  outlaw = outlaw  game = game  editor = editor
  p1 = p1  p2 = p2  p3 = p3  p4 = p4
  Pid = {p1, p2, p3, p4}
  Program = {shell, outlaw, game, editor}
  Facts <- MCFacts
  Listed <- MCListed
  None = None
  Tool = p2
  Before <- Desk
  MaxStarts = 1
  Pinnable = {game}
  Faults = {"survey", "audit", "refused"}
INVARIANTS
  StopsAreWrittenDown
PROPERTIES
  OursIsSpared
  OnlyWhatWasAgreed
