CONSTANTS
  Workers = {w1, w2}
  ChunkKeys <- MCThreeChunks
  CanGoExternal = FALSE
  ForceExternal = FALSE
  SinkMemoryPerThread = 2
  GlobalSuspend = TRUE
  BuildColumns = 2
  ProjectionMap = TRUE
  IOFaults = FALSE
  BuildMin = 1
  BuildMax = 3
  IsBuildSmall = TRUE
  JunkRows <- MCJunkRows
  PipelineId = p1
  NULL = NULL
SPECIFICATION Spec
PROPERTY EventuallyFinalized
