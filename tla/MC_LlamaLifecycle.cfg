CONSTANTS
  NumLayers = 3
  Ranks <- MCRanks
  SplitQKVs = {TRUE, FALSE}
  SplitGateUps = {TRUE, FALSE}
  KVQuants = {TRUE, FALSE}
  Ties = {TRUE, FALSE}
  TPSplits = {1, 2}
  SeqSplits = {1, 2, 4}
  OutputSlices = {TRUE, FALSE}
  OProjSplits = {TRUE, FALSE}
  Batches = {1, 2, 4}
  SeqLens = {2, 4}
  BlockSize = 2
  SplitThreshold = 4
  FixedLenFrom = 8
SPECIFICATION Spec
INVARIANT TypeOK
INVARIANT LoadedExactly
INVARIANT WholeModelOutputComplete
CHECK_DEADLOCK FALSE
