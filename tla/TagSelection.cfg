\* Repositories of four names, every condition, the versions that fit; and
\* searches over images that up to seven names share.
CONSTANTS
  None = None
  a = a
  SupportGap = 1
  MaxLineDepth = 3
  Queries <- MCQueries
  Limits = {2}
  Limit = 2
  OsRepositories = {"debian", "ubuntu", "alpine"}
  Branches <- MCBranches
  Searches <- MCSearches
SPECIFICATION MCSpec
CHECK_DEADLOCK FALSE
INVARIANTS
  IndependentChoice
  FairToLines
  EndedLinesAreNamed
  PairsAreStated
  AliasesAgree
  CandidatesFit
  RelaxedOnlyIfNeeded
