\* Quads of five stars, every kind of index.
SPECIFICATION Spec
CONSTANTS
  NStars = 3
  Half = 4
  Tol = 2
  Codes <- SomeCodes
INVARIANTS TypeInv TriedExactly MatchingOrderTried
