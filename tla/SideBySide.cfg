\* Two index commands over three READMEs, one of them killed at any point;
\* reviews of two archives; studies of three settings; two calls of each
\* client, one after the other; evaluation runs of which the second takes
\* the plans of the first, while the golden set and the database change.
CONSTANTS
  p1 = p1
  p2 = p2
  Procs = {p1, p2}
  Command <- MCCommand
  Readmes <- MCReadmes
  Text <- MCTexts
  MayKill = {p2}
  Nothing = Nothing
  MaxChars = 3
  Overlap = 2
  Archives <- MCArchives
  PerArm = 4
  PerCase = 2
  Cells <- MCCells
  MaxRows = 3
  MaxEdits = 2
  Blank = Blank
  Studies = {"plan", "recommend"}
  Configs <- MCConfigs
  BASELINE = "kimi"
  Measurements <- MCMeasurements
  FLOOR = 35
  MARGIN = 2
  MAX_CONFIRMATIONS = 1
  RequestP95 = 100
  MaxChanges = 1
  MaxRounds = 4
  Unknown = Unknown
  None = None
  Clients = {"embed", "llm", "hub"}
  MaxAttempts <- MCMaxAttempts
  MaxWait = 10
  Announced <- MCAnnounced
  MaxCalls = 2
  slim = slim latest = latest
  Stock = {slim, latest}
  GoldenSets <- MCGoldenSets
  Collected = {"python", "node"}
  Meets <- MCMeets
  Digests = {"d1"}
  FirstDigest <- MCFirstDigest
  FirstIndexed = {"python"}
  Shelf <- MCShelf
  Plans <- MCPlans
  Citings <- MCCitings
  ChunkLimit = 5
  Wishes = {"size"}
  TagFilters = {Null}
  MaxCandidates = 2
  ModesOfRun <- MCModesOfRun
  MaxMoves = 2
  Parts = 2
  Absent = Absent
  Null = Null
SPECIFICATION MCSpec
CHECK_DEADLOCK FALSE
INVARIANTS
  IndexIsWhole
  ChunksAreOfContent
  ExitHonest
  FairSample
  VerdictNeedsReview
  AdviceCanBeFollowed
  ChoiceIsUndominated
  OneDatabase
  NoIdleBeforeFailure
  RecordsMatchWire
  AccuracyIsBounded
  WithheldIsMissOrLeftOut
  FixedRunsRepeat
PROPERTIES
  IndexEnds
