SPECIFICATION FairSpec
CONSTANTS
  NumPages = 6
  SectorPages = 2
  Versions = {1, 2}
INVARIANT TypeOK
INVARIANT Recoverable
INVARIANT VerdictTrue
PROPERTY SelfHeals
