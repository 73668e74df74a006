SPECIFICATION Spec
CONSTANTS
  Repos = {a, b}
  a = a
  b = b
  s1 = s1
  Subjects = {s1}
  NoCluster = NoCluster
  Runs = {r1, r2}
  NoRun = NoRun
  Dates = {d1}
  NoRepo = NoRepo
  Briefs <- MCBriefsWithEmpty
  Answers <- MCAnswers
  AdapterStatuses = {"not_applicable"}
  Responses <- MCResponses
  NoResponse = NoResponse
  LegacyFiles <- MCAbsent
  Faults = {}
  Serialized = TRUE
  PersistOnFailure = TRUE
  RECENT_POSTS_LIMIT = 1
INVARIANTS
  OneRecordPerPublication
CHECK_DEADLOCK FALSE
