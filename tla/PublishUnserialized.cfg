SPECIFICATION Spec
CONSTANTS
  Repos = {a, b}
  a = a
  b = b
  s1 = s1
  Subjects = {s1}
  NoCluster = NoCluster
  Runs = {r1, r2}
  NoRun = NoRun
  Dates = {d1, d2}
  NoRepo = NoRepo
  Briefs <- MCBusyBriefs
  Answers <- MCAnswers
  AdapterStatuses = {"not_applicable"}
  Responses <- MCTwoResponses
  NoResponse = NoResponse
  LegacyFiles <- MCAbsent
  Faults = {"crash", "io", "unconfirmed", "push"}
  Serialized = FALSE
  PersistOnFailure = TRUE
  RECENT_POSTS_LIMIT = 1
INVARIANTS
  RecordsTruthful
  RecentPostsGenuine
PROPERTIES
  RegistryImmutable
  RunsResolve
CHECK_DEADLOCK FALSE
