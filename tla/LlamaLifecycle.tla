---------------------------- MODULE LlamaLifecycle ----------------------------
(***************************************************************************)
(* One pipeline rank of a Llama model from construction to its first     *)
(* forward call: LlamaModel.__init__ builds the rank's modules,           *)
(* LlamaModel.load_weights (LlamaLoadWeights) fills the parameters        *)
(* the rank's modules created, and once it has returned LlamaModel.forward *)
(* (LlamaSplit) runs the rank's layers.  Both components are built from   *)
(* the same rank: make_layers gives the loader its PPMissingLayers and the *)
(* forward loop its [start_layer, end_layer).                             *)
(***************************************************************************)
EXTENDS Integers

CONSTANTS
  NumLayers, Ranks,
  SplitQKVs, SplitGateUps, KVQuants, Ties,
  TPSplits, SeqSplits, OutputSlices, OProjSplits, Batches, SeqLens,
  BlockSize, SplitThreshold, FixedLenFrom

VARIABLES
  built,                          \* LlamaModel.__init__: "new", "built" or "raised"
  cfg, idx, written, lp, stage,   \* the loader
  env, layer, hs, res, pc         \* the forward call; pc "idle" before it

Load  == INSTANCE LlamaLoadWeights
Split == INSTANCE LlamaSplit

loadVars  == <<cfg, idx, written, lp, stage>>
splitVars == <<env, layer, hs, res, pc>>
vars == <<built, loadVars, splitVars>>

Init ==
  /\ built = "new"
  /\ Load!Init
  /\ env = "unset" /\ layer = 0 /\ hs = Split!NoneV /\ res = Split!NoneV
  /\ pc = "idle"

(* LlamaModel.__init__ on the rank: make_layers returns the whole list of *)
(* num_hidden_layers entries, PPMissingLayer outside [start_layer,        *)
(* end_layer), and the loop calls set_total_num_layers on every entry.    *)
(* PPMissingLayer (an nn.Identity) has no such method, so the constructor *)
(* raises AttributeError on every rank that does not hold all layers.     *)
OwnsAllLayers(r) == r[1] = 0 /\ r[2] = NumLayers

Construct ==
  /\ built = "new"
  /\ built' = IF OwnsAllLayers(cfg.rank) THEN "built" ELSE "raised"
  /\ UNCHANGED <<loadVars, splitVars>>

(* A load step on the constructed model; the forward call waits. *)
LoadStep ==
  /\ built = "built"
  /\ Load!LoadNext
  /\ UNCHANGED <<built, splitVars>>

(* The runner's first forward call, on the rank the weights were loaded   *)
(* for, once load_weights has returned: LlamaSplit's Init on that rank.  *)
StartForward ==
  /\ stage = "loaded" /\ pc = "idle"
  /\ env' \in {e \in Split!Env : e.rank = cfg.rank}
  /\ layer' = env'.rank[1]
  /\ hs' = Split!Batch(env'.b, env'.s)
  /\ res' = IF env'.rank[1] = 0 THEN Split!NoneV ELSE Split!Batch(env'.b, env'.s)
  /\ pc' = "run"
  /\ UNCHANGED <<built, loadVars>>

ForwardStep ==
  /\ pc # "idle"
  /\ Split!Next
  /\ UNCHANGED <<built, loadVars>>

Next == Construct \/ LoadStep \/ StartForward \/ ForwardStep

Spec == Init /\ [][Next]_vars

(***************************************************************************)
(* Properties.                                                            *)
(***************************************************************************)
TypeOK ==
  /\ built \in {"new", "built", "raised"}
  /\ Load!LoadTypeOK
  /\ pc # "idle" => Split!TypeOK

(* The loader's contract, LlamaLoadWeights!LoadedExactly. *)
LoadedExactly == Load!LoadedExactly

(* LlamaSplit!OutputComplete of the forward call on the constructed      *)
(* model: every token is handed on once and in order.                     *)
WholeModelOutputComplete == Split!OutputComplete

(* LlamaModel.__init__ returns on every rank of a pipeline the model is   *)
(* split into, as the rest of the class presupposes: forward takes        *)
(* intermediate_tensors on ranks after the first, and load_weights skips  *)
(* is_pp_missing_parameter names.                                         *)
ConstructReturns == built # "raised"
=============================================================================
