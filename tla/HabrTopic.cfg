SPECIFICATION Spec
CONSTANTS
  Repos = {a, b}
  a = a
  b = b
  s1 = s1
  Subjects = {s1}
  NameOrder <- MCNameOrder
  CAP = 2
  Configs <- MCConfigs
  Modes = {"production", "calibration"}
  Briefs <- MCBriefs
  Answers <- MCAnswers
  FetchAnswers <- MCFetchAnswers
  Drafts <- MCOneDraft
  NoDraft = NoDraft
  LIMIT = 3
  Estimates = {1}
  Usages = {0, 1}
  RunnerCrashes = TRUE
INVARIANTS
  TypeOK
  NoTopicObserved
  MissingStopsFirst
CHECK_DEADLOCK FALSE
