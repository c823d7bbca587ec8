CONSTANTS
  NumLayers = 3
  Ranks <- MCSingleRank
  TPSplits = {2}
  SeqSplits = {1}
  OutputSlices = {TRUE}
  OProjSplits = {TRUE}
  Batches = {3}
  SeqLens = {2}
  BlockSize = 2
  SplitThreshold = 4
  FixedLenFrom = 8
SPECIFICATION Spec
INVARIANT OutputComplete
CHECK_DEADLOCK FALSE
