\* Two machines, three requests, two sessions that may run at once, two codes
\* that may be shown, two wrong tries each; one command beside the sessions
\* at a time; saves fail or tear the file, replies are lost.
SPECIFICATION Spec
CONSTANTS
  Joiner = {laptop, desk}
  Code = {red, blue}
  Session = {first, second}
  Request = {r1, r2, r3}
  Errand = {command}
  MaxWrong = 2
  Faults = {"save", "slow"}
  None = None
SYMMETRY Interchangeable
INVARIANTS
  GuessesAreBounded
  LinkedIsHonoured
CHECK_DEADLOCK FALSE
