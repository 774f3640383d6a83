\* Fields one after the other, the last of them unreadable; two solving quads required of each,
\* under the four time limits and a limit on the quads.
SPECIFICATION FairSpec
CONSTANTS
  Fields <- BadNumbers
  NumFields = 3
  Unreadable = {3}
  NumObj = 2
  Limit <- AllFour
  Parallel = FALSE
  UseSolved = TRUE
  ReadErrors = FALSE
  NSolves = 2
  BestHitOnly = FALSE
  QuadLimit = TRUE
  Runs <- SomeRuns
INVARIANTS TypeInv RunComplete SearchLimitNotEarly SolvedHasSolution BestWritten SolvedNeedsNSolves
