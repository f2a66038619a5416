\* Two runs one after the other, the first limited to one page, three tags on two pages,
\* two pushes and a deletion between or during the runs.
CONSTANTS
  alias = alias deb = deb alp = alp
  d1 = d1 a1 = a1
  debian = debian alpine = alpine
  None = None
  Tags = {alias, deb, alp}
  Images = {d1, a1}
  Undigested = {a1}
  Distros = {debian, alpine}
  NameDistro <- MCNameDistro
  TrueDistro <- MCTrueDistro
  InitialHub <- MCInitialHub
  PageSize = 2
  MaxPages <- MCFirstLimited
  OffsetPages = 3
  Runs <- MCTwoRuns
  MaxConcurrent = 1
  Derivers = {}
  MaxPushes = 2
  MaxDeletes = 1
SPECIFICATION Spec
CHECK_DEADLOCK FALSE
INVARIANTS
  RecordsAreHonest
  ScanCoversSettled
  DerivedIsTrue
PROPERTIES
  FinishedIsDerived
  NeverRegresses
