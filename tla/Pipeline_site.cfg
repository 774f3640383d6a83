\* A file, one retry, a process that is killed once.
SPECIFICATION FairSpec
CONSTANTS
  s1 = s1
  s2 = s2
  s3 = s3
  f1 = f1
  Sub <- OneSub
  File <- OneFile
  Contents <- FileOnly
  Pools <- BothOrNone
  OldImages = {0, 2}
  max_sub_retries = 1
  DjangoBound = TRUE
  MaxStarts = 2
INVARIANTS TypeInv FinishedHasImages NothingStranded CopiesBounded
PROPERTY AllProcessed
