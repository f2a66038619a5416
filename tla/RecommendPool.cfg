\* Two requests and one connection: sessions, waiting, the pool's timeout.
CONSTANTS
  pyTag = pyTag nodeTag = nodeTag pyDoc = pyDoc nodeDoc = nodeDoc
  python = python node = node
  None = None Invented = Invented
  Requests = {r1, r2}
  Repos = {python}
  Images = {pyTag}
  Docs = {pyDoc}
  RepoOf <- MCRepoOf
  Conditions = {}
  ChunkK = 1
  ForcedK = 1
  Pool = 1
  MayFail = {"plan", "db", "pool"}
  MaxCommits = 0
  MaxReindexes = 0
SPECIFICATION FairSpec
CHECK_DEADLOCK FALSE
PROPERTY WaitersAreServed
