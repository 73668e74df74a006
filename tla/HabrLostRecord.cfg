SPECIFICATION Spec
CONSTANTS
  Repos = {a, b}
  a = a
  b = b
  s1 = s1
  Subjects = {s1}
  NameOrder <- MCNameOrder
  CAP = 2
  Configs <- MCComplete
  Modes = {"production"}
  Briefs <- MCOneBrief
  Answers <- MCVerified
  FetchAnswers <- MCUsable
  Drafts <- MCAnyDraft
  NoDraft = NoDraft
  LIMIT = 4
  Estimates = {1}
  Usages = {0, 1, 2}
  RunnerCrashes = FALSE
INVARIANTS
  EveryRunRecorded
CHECK_DEADLOCK FALSE
