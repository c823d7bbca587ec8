CONSTANTS
  NumLayers = 3
  Ranks <- MCRanks
  SplitQKVs = {FALSE}
  SplitGateUps = {FALSE}
  KVQuants = {FALSE}
  Ties = {FALSE}
  TPSplits = {1}
  SeqSplits = {1}
  OutputSlices = {FALSE}
  OProjSplits = {FALSE}
  Batches = {1}
  SeqLens = {2}
  BlockSize = 2
  SplitThreshold = 4
  FixedLenFrom = 8
SPECIFICATION Spec
INVARIANT ConstructReturns
CHECK_DEADLOCK FALSE
