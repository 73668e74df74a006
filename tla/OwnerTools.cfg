SPECIFICATION Spec
CONSTANTS
  Cards = {c1, c2, c3}
  c1 = c1
  c2 = c2
  c3 = c3
  NoCard = NoCard
  NumClusters = 3
  MAX_ATTEMPTS_MULTIPLIER = 2
  Graphs <- MCGraphs
  MaxStamp = 2
  Extractions <- MCExtractions
  CLAIM_LIMIT = 2
  MAX_REQUESTS_PER_CLAIM = 2
  RunBudgets = {1, 2}
  Translated = {c1, c2}
  MaxRetries = 2
  Repos = {a, b}
  a = a
  b = b
  Subjects = {}
  NoCluster = NoCluster
  Manifests <- MCManifests
  ManifestAnswers <- MCManifestAnswers
  RussianRepos = {b}
  Contents = {p1, p2}
  VerdictIds = {1, 2, 3}
  Times = {1, 2}
  Sizes = {2}
  MaxStarts = 3
INVARIANTS
  TypeOK
  RotationBalanced
  LogMatchesRun
  RequestsAccounted
  VerdictStream
  DigestOfVerdict
PROPERTIES
  FilesWrittenOnce
  ToolsEnd
CHECK_DEADLOCK FALSE
