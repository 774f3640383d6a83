\* One process writes the file.
SPECIFICATION Spec
CONSTANTS
  w1 = w1
  w2 = w2
  Writer <- OneWriter
  InitSizes <- AnySizes
  MaxField = 4
INVARIANTS TypeInv AckedMarked ListsSound ListsComplete
PROPERTIES OnlySets ImplementsSet
