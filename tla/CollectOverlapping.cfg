\* Two overlapping runs and a derive command against a Hub that serves one page of one
\* tag; one push.
CONSTANTS
  alias = alias deb = deb alp = alp
  d1 = d1 a1 = a1
  debian = debian alpine = alpine
  None = None
  Tags = {alias, deb}
  Images = {d1}
  Undigested = {}
  Distros = {debian, alpine}
  NameDistro <- MCNameDistro
  TrueDistro <- MCTrueDistro
  InitialHub <- MCSmallHub
  PageSize = 1
  MaxPages <- MCUnlimited
  OffsetPages = 1
  Runs <- MCTwoRuns
  MaxConcurrent = 2
  Derivers = {derive}
  MaxPushes = 1
  MaxDeletes = 0
SPECIFICATION Spec
CHECK_DEADLOCK FALSE
INVARIANTS
  RecordsAreHonest
