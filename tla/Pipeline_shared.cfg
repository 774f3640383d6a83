\* Three submissions of one file.
SPECIFICATION Spec
CONSTANTS
  s1 = s1
  s2 = s2
  s3 = s3
  f1 = f1
  Sub <- ThreeSubs
  File <- OneFile
  Contents <- Same
  Pools <- Both
  OldImages = {0}
  max_sub_retries = 0
  DjangoBound = TRUE
  MaxStarts = 1
INVARIANT FinishedHasImages
