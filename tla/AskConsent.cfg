\* Two runs, late clicks, stops, screen changes, and nobody obliged to answer.
CONSTANTS
  Run = {r1, r2}
  MaxQuestions = 1
  Block = 1
  None = None
SPECIFICATION FairSpec
PROPERTIES KeepsConsent StoppedRunEnds
