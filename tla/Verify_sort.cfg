\* The result sorted by a column of the index.
SPECIFICATION Spec
CONSTANTS
  NRall = 4
  NTall = 6
  Sweep <- Sweeps
  Quad <- Triangle
  Insides <- SomeInside
  Keepers <- SomeKeepers
  NearRefs <- SomeRefs
  NearTests <- SomeTests
  LogFg <- Odds
  LogD <- DensityAt
  Bail <- BailOdds
  Accept = 1
  Stop = 5
INVARIANT ThetaIndexesArrays
