\* One request beside one page commit and one index run; every remote call may fail.
CONSTANTS
  pyTag = pyTag nodeTag = nodeTag pyDoc = pyDoc nodeDoc = nodeDoc
  python = python node = node
  None = None Invented = Invented
  Requests = {r1}
  Repos = {python, node}
  Images = {pyTag, nodeTag}
  Docs = {pyDoc, nodeDoc}
  RepoOf <- MCRepoOf
  Conditions = {"version"}
  ChunkK = 1
  ForcedK = 1
  Pool = 1
  MayFail = {"embedding", "plan", "advise", "db"}
  MaxCommits = 1
  MaxReindexes = 1
SPECIFICATION Spec
CHECK_DEADLOCK FALSE
INVARIANTS
  RecommendationIsCandidate
  CitationsAreCarried
  UndegradedKeepsPlan
PROPERTIES
  ImplementsAnswerService
