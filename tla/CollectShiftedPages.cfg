\* A push during the scan: the tag moves to a page that was already read.
CONSTANTS
  alias = alias deb = deb alp = alp
  d1 = d1 a1 = a1
  debian = debian alpine = alpine
  None = None
  Tags = {alias, deb, alp}
  Images = {d1, a1}
  Undigested = {a1}
  Distros = {debian, alpine}
  NameDistro <- MCNameDistro
  TrueDistro <- MCTrueDistro
  InitialHub <- MCInitialHub
  PageSize = 2
  MaxPages <- MCUnlimited
  OffsetPages = 3
  Runs <- MCTwoRuns
  MaxConcurrent = 1
  Derivers = {}
  MaxPushes = 2
  MaxDeletes = 0
SPECIFICATION Spec
CHECK_DEADLOCK FALSE
INVARIANTS
  EndMeansAllReceived
