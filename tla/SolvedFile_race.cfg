\* Two processes write a file that has to be extended.
SPECIFICATION Spec
CONSTANTS
  w1 = w1
  w2 = w2
  Writer <- TwoWriters
  InitSizes <- NoSize
  MaxField = 2
PROPERTIES SetArrayOnlySets
