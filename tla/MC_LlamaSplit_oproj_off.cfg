CONSTANTS
  NumLayers = 3
  Ranks <- MCSingleRank
  TPSplits = {1}
  SeqSplits = {2}
  OutputSlices = {TRUE}
  OProjSplits = {FALSE}
  Batches = {1, 2}
  SeqLens = {2, 4}
  BlockSize = 2
  SplitThreshold = 4
  FixedLenFrom = 8
SPECIFICATION Spec
INVARIANT CallReturns
CHECK_DEADLOCK FALSE
