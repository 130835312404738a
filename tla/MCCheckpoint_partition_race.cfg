CONSTANTS
  Workers = {w1, w2}
  ChunkKeys <- MCThreeChunks
  CanGoExternal = TRUE
  ForceExternal = TRUE
  SinkMemoryPerThread = 4
  GlobalSuspend = TRUE
  BuildColumns = 1
  ProjectionMap = TRUE
  IOFaults = FALSE
  BuildMin = 1
  BuildMax = 3
  IsBuildSmall = TRUE
  JunkRows <- MCJunkRows
  PipelineId = p1
  NULL = NULL
SPECIFICATION Spec
INVARIANT NoPartitionFileOverwritten
