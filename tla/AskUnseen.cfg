\* A question asked while another screen is up.
CONSTANTS
  Run = {r1, r2}
  MaxQuestions = 2
  Block = 2
  None = None
SPECIFICATION Spec
PROPERTY NoQuestionGetsLost
