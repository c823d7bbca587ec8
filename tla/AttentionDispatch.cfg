\* One HPUAttentionImpl constructed and called once; a call ends, so a
\* final state is not a deadlock.
SPECIFICATION Spec
CONSTANTS
  HeadCounts = {2, 3}
  KVHeadCounts = {1, 2}
  AttnTypes = {"decoder", "encoder_decoder", "encoder"}
  BatchSize = 2
  SeqLen = 3
  KVCaches = {"tuple", "none"}
INVARIANT TypeOK
INVARIANT PromptKernelSeparatesSequences
CHECK_DEADLOCK FALSE
