\* Nothing fails; one index run commits beside the request.
CONSTANTS
  pyTag = pyTag nodeTag = nodeTag pyDoc = pyDoc nodeDoc = nodeDoc
  python = python node = node
  None = None Invented = Invented
  Requests = {r1}
  Repos = {python}
  Images = {pyTag}
  Docs = {pyDoc}
  RepoOf <- MCRepoOf
  Conditions = {}
  ChunkK = 1
  ForcedK = 1
  Pool = 1
  MayFail = {}
  MaxCommits = 0
  MaxReindexes = 1
SPECIFICATION Spec
CHECK_DEADLOCK FALSE
INVARIANT AlwaysAnswers200
