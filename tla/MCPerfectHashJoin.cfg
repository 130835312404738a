CONSTANTS
  BuildMin = 1
  BuildMax = 3
  IsBuildSmall = TRUE
  MaxRows = 3
  NULL = NULL
  ProbeValues <- MCProbeValues
SPECIFICATION Spec
INVARIANT TypeOK
INVARIANT PerfectTableComplete
INVARIANT JoinMatchesReference
