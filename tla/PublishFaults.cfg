SPECIFICATION Spec
CONSTANTS
  Repos = {a, b}
  a = a
  b = b
  s1 = s1
  Subjects = {s1}
  NoCluster = NoCluster
  Runs = {r1, r2}
  NoRun = NoRun
  Dates = {d1, d2}
  NoRepo = NoRepo
  Briefs <- MCBriefs
  Answers <- MCAnswers
  AdapterStatuses = {"not_applicable", "pending"}
  Responses <- MCResponses
  NoResponse = NoResponse
  LegacyFiles <- MCLegacyFiles
  Faults = {"crash", "io", "unconfirmed", "push"}
  Serialized = TRUE
  PersistOnFailure = TRUE
  RECENT_POSTS_LIMIT = 1
INVARIANTS
  TypeOK
  RecordsTruthful
  OutcomeTruthful
  PromptOnlyVerified
PROPERTIES
  RegistryImmutable
  NoPostOverRecord
  LedgerSpec
CHECK_DEADLOCK FALSE
