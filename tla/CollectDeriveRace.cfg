\* A derive command beside a run: derived values outlive the image they came from.
CONSTANTS
  alias = alias deb = deb alp = alp
  d1 = d1 a1 = a1
  debian = debian alpine = alpine
  None = None
  Tags = {alias, deb, alp}
  Images = {d1, a1}
  Undigested = {a1}
  Distros = {debian, alpine}
  NameDistro <- MCNameDistro
  TrueDistro <- MCTrueDistro
  InitialHub <- MCInitialHub
  PageSize = 2
  MaxPages <- MCFirstLimited
  OffsetPages = 3
  Runs <- MCTwoRuns
  MaxConcurrent = 1
  Derivers = {derive}
  MaxPushes = 2
  MaxDeletes = 0
SPECIFICATION Spec
CHECK_DEADLOCK FALSE
INVARIANTS
  DerivedIsTrue
