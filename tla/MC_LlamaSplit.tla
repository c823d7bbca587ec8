---------------------------- MODULE MC_LlamaSplit ----------------------------
(* Model-checking instance of LlamaSplit: three layers, batches of up to  *)
(* four prompts of one or two blocks of two tokens, and the split flags   *)
(* of a process.  SplitThreshold (1024 * 4 * 8192 elements in the code)   *)
(* is scaled to 4 tokens so that both the small-batch path and the split  *)
(* path are taken; FixedLenFrom (128) is scaled to 8, above every value  *)
(* of VLLM_TP_SPLIT_SIZE_BY_SEQ checked, so the flag counts slices as it *)
(* does for its usual values 2 .. 8.                                      *)
EXTENDS LlamaSplit

MCSingleRank == {<<0, 3>>}
=============================================================================
