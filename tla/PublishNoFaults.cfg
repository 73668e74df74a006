SPECIFICATION Spec
CONSTANTS
  Repos = {a, b}
  a = a
  b = b
  s1 = s1
  Subjects = {s1}
  NoCluster = NoCluster
  Runs = {r1, r2, r3}
  NoRun = NoRun
  Dates = {d1, d2}
  NoRepo = NoRepo
  Briefs <- MCBriefs
  Answers <- MCAnswers
  AdapterStatuses = {"not_applicable"}
  Responses <- MCResponses
  NoResponse = NoResponse
  LegacyFiles <- MCAbsent
  Faults = {}
  Serialized = TRUE
  PersistOnFailure = FALSE
  RECENT_POSTS_LIMIT = 2
INVARIANTS
  NoDuplicatePost
  OneRecordPerPublication
PROPERTIES
  CollectorNeverBlocks
CHECK_DEADLOCK FALSE
