-------------------------- MODULE MC_LlamaLifecycle --------------------------
(* Model-checking instance of LlamaLifecycle: three layers, one rank      *)
(* holding them all and the four ranks of two-stage pipelines, with the   *)
(* scaled split bounds of MC_LlamaSplit.                                   *)
EXTENDS LlamaLifecycle

MCRanks == {<<0, 3>>, <<0, 2>>, <<2, 3>>, <<0, 1>>, <<1, 3>>}
=============================================================================
