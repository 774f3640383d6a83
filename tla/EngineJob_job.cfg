\* Two depths and two scales, three indexes of which one is out of range, one WCS estimate, a limit
\* on each pass, a solved file that may be misread.
SPECIFICATION JobSpec
CONSTANTS
  Fields <- OneField
  NumFields = 1
  Unreadable = {}
  NumObj = 2
  Limit <- OnlyCpu
  Parallel = FALSE
  UseSolved = TRUE
  ReadErrors = TRUE
  NSolves = 1
  BestHitOnly = TRUE
  QuadLimit = FALSE
  Runs <- NoRuns
  Depths <- ByOne
  Scales <- TwoScales
  Indexes <- Meeting
  InRange = {1, 2}
  Wcss = 1
INVARIANTS JobOutputKept JobComplete
PROPERTY JobEnds
