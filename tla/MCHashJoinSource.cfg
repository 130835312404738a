\* Every join type, in memory and external, with three source workers: the
\* build stage of a spilled round is split between workers, and probe,
\* SCAN_HT and in-memory outer scans interleave.
CONSTANTS
  Workers = {w1, w2, w3}
  NULL = NULL
  BuildInputs <- MCBuildInputs
  ProbeKey <- MCProbeKey
  KeyPartition <- MCKeyPartition
  NumPartitions = 3
  TuplesPerRound = 2
  VectorSize = 1
SPECIFICATION Spec
INVARIANT TypeOK
PROPERTY JoinRefinement
