\* Any range of five objects, two indexes.
SPECIFICATION Spec
CONSTANTS
  NumObj = 5
  NIndex = 2
  Dim <- TwoDims
  ScaleOk <- SomePairs
  Fits <- SomeFit
  Circle <- Circles
INVARIANTS TypeInv TriedOnce TriedInRange TriedAll InboxCurrent
