CONSTANTS
  Threads = {t1, t2, t3}
  LocalRows <- MCLocalRows
  BuildKey <- MCBuildKey
  KeyPartition <- MCKeyPartition
  Bucket <- MCBucket
  NumPartitions = 2
  TuplesPerRound = 2
  VerifyParallelism = TRUE
SPECIFICATION Spec
INVARIANT ProbeSeesCompleteTable
PROPERTY PointerTableRefinement
PROPERTY EventuallyProbe
