\* Two programs that are asked whether they work, a check that needs rights, a
\* check that does not run here, and a check of the system files.
SPECIFICATION Spec
CONSTANTS
  Probes <- MCProbes
  Window = 2
  MaxUnseen = 2
  MaxScans = 1
  Says = {"fine", "altered", "unclear", "cut short"}
  SubjectNo <- MCSubjectNo
  Library <- MCLibrary
  Configs <- MCConfigs
  Replies <- MCReplies
  Faults = {"killed", "slow", "probe", "spawn"}
INVARIANTS
  OnlySilenceIsStuck
  GapsAreTold
  ActionsAreReviewed
  StaysHome
PROPERTIES
  StopIsHonoured
CHECK_DEADLOCK FALSE
