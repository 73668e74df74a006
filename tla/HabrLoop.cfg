SPECIFICATION Spec
CONSTANTS
  Repos = {a, b}
  a = a
  b = b
  s1 = s1
  Subjects = {s1}
  NameOrder <- MCNameOrder
  CAP = 2
  Configs <- MCComplete
  Modes = {"production", "calibration"}
  Briefs <- MCOneBrief
  Answers <- MCVerified
  FetchAnswers <- MCUsable
  Drafts <- MCAnyDraft
  NoDraft = NoDraft
  LIMIT = 7
  Estimates = {1, 2}
  Usages = {0, 1, 3}
  RunnerCrashes = TRUE
INVARIANTS
  SpendWithinLimit
  SecretDiscarded
  BestIsTheOutcome
PROPERTIES
  OutcomeSpec
  RunEnds
CHECK_DEADLOCK FALSE
