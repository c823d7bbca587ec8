------------------------- MODULE LlamaLoadWeights --------------------------
(***************************************************************************)
(* LlamaModel.load_weights on one pipeline rank: the checkpoint's weights *)
(* are visited one by one and each is skipped, loaded into a parameter of *)
(* the rank (a shard of it for the stacked projections), or raises.  A    *)
(* weight name is abstracted to its layer and the module it names; the    *)
(* substring tests of the code match exactly one kind here, because every *)
(* mapping entry begins with '.' and no checkpoint module name contains   *)
(* another's.  Tensors are not modelled: a load is the (parameter, shard) *)
(* pair it writes.                                                        *)
(***************************************************************************)
EXTENDS Integers, SequencesExt

CONSTANTS
  NumLayers,     \* config.num_hidden_layers
  Ranks,         \* <<start_layer, end_layer>> of the pipeline ranks
  SplitQKVs,     \* values of cache_config.split_qk_v
  SplitGateUps,  \* values of cache_config.split_gate_up
  KVQuants,      \* whether the checkpoint carries compressed-tensors kv scales
  Ties           \* values of config.tie_word_embeddings

VARIABLES
  cfg,      \* the rank and flags the model was built with
  idx,      \* the next checkpoint weight the loop visits
  written,  \* the (parameter, shard) writes of weight_loader, in order
  lp,       \* loaded_params
  stage     \* "load", "loaded" (returned) or "raised"

loadVars == <<cfg, idx, written, lp, stage>>

Configs ==
  [rank : Ranks, splitQKV : SplitQKVs, splitGateUp : SplitGateUps, kvQuant : KVQuants,
   tie : Ties]

Name(m, l) == [mod |-> m, layer |-> l]   \* layer -1: outside model.layers

(* The checkpoint of a Llama model (HF layout, model. prefix stripped),   *)
(* in the order it is read.                                               *)
LayerWeights(kvq) ==
  <<"input_layernorm", "q_proj", "k_proj", "v_proj", "o_proj", "rotary_emb.inv_freq",
    "post_attention_layernorm", "gate_proj", "up_proj", "down_proj">>
  \o (IF kvq THEN <<"k_proj.output_scale", "v_proj.output_scale">> ELSE <<>>)

Checkpoint(c) ==
  <<Name("embed_tokens", -1)>>
  \o FlattenSeq([l \in 1 .. NumLayers |->
                   LET ws == LayerWeights(c.kvQuant)
                   IN  [i \in 1 .. Len(ws) |-> Name(ws[i], l - 1)]])
  \o <<Name("norm", -1)>>

(* The parameters the modules of a layer create: LlamaAttention.__init__  *)
(* (q/k/v or fused qkv, o_proj, and the attention's k/v scales under a    *)
(* kv-cache quantisation scheme), LlamaMLP.__init__, and the two norms of *)
(* LlamaDecoderLayer.__init__.                                            *)
AttnParams(c) ==
  (IF c.splitQKV THEN {"q_proj", "k_proj", "v_proj"} ELSE {"qkv_proj"})
  \cup {"o_proj"}
  \cup (IF c.kvQuant THEN {"attn.k_scale", "attn.v_scale"} ELSE {})

MLPParams(c) ==
  (IF c.splitGateUp THEN {"gate_proj", "up_proj"} ELSE {"gate_up_proj"}) \cup {"down_proj"}

LayerParams(c) ==
  AttnParams(c) \cup MLPParams(c) \cup {"input_layernorm", "post_attention_layernorm"}

(* LlamaModel.__init__: make_layers builds the layers of [start_layer,    *)
(* end_layer), embed_tokens lives on the first rank (and on the last when  *)
(* the embeddings are tied), norm on the last.                            *)
Params(c) ==
  { Name(m, l) : m \in LayerParams(c), l \in c.rank[1] .. c.rank[2] - 1 }
  \cup (IF c.rank[1] = 0 \/ (c.tie /\ c.rank[2] = NumLayers)
        THEN {Name("embed_tokens", -1)} ELSE {})
  \cup (IF c.rank[2] = NumLayers THEN {Name("norm", -1)} ELSE {})

Shards(p) ==
  CASE p.mod = "qkv_proj"     -> {"q", "k", "v"}
    [] p.mod = "gate_up_proj" -> {"0", "1"}
    [] OTHER                  -> {"all"}

AllShards(c) == UNION { {<<p, s>> : s \in Shards(p)} : p \in Params(c) }

(* stacked_params_mapping: (param_name, shard_name, shard_id). *)
StackedMapping(c) ==
  (IF c.splitQKV THEN <<>>
   ELSE <<<<"qkv_proj", "q_proj", "q">>, <<"qkv_proj", "k_proj", "k">>,
          <<"qkv_proj", "v_proj", "v">>>>)
  \o (IF c.splitGateUp THEN <<>>
      ELSE <<<<"gate_up_proj", "gate_proj", "0">>, <<"gate_up_proj", "up_proj", "1">>>>)

(* is_pp_missing_parameter: the name lies under a PPMissingLayer, which  *)
(* make_layers puts outside [start_layer, end_layer) and __init__ puts in *)
(* place of embed_tokens and norm on the ranks that do not own them.      *)
IsPPMissing(n) ==
  IF n.layer >= 0 THEN n.layer \notin cfg.rank[1] .. cfg.rank[2] - 1
  ELSE IF n.mod = "embed_tokens"
       THEN ~(cfg.rank[1] = 0 \/ (cfg.tie /\ cfg.rank[2] = NumLayers))
  ELSE cfg.rank[2] # NumLayers

(* get_compressed_tensors_cache_scale: k/v_proj.output_scale names the    *)
(* attention's k/v scale.                                                 *)
IsScale(w) == w.mod \in {"k_proj.output_scale", "v_proj.output_scale"}
ScaleParam(w) == Name(IF w.mod = "k_proj.output_scale" THEN "attn.k_scale" ELSE "attn.v_scale", w.layer)

IsRotary(w) == w.mod = "rotary_emb.inv_freq"

(* The first stacked entry whose shard name the weight names, if any.    *)
Entries(w) == { i \in 1 .. Len(StackedMapping(cfg)) : StackedMapping(cfg)[i][2] = w.mod }
(* Mutant: the `break` after weight_loader dropped, so the for-else      *)
(* branch loads the renamed weight once more as a whole parameter.        *)
TargetNoBreak(w) ==
  IF Entries(w) = {} THEN <<<<w, "all">>>>
  ELSE LET e == StackedMapping(cfg)[Min(Entries(w))] IN
       <<<<Name(e[1], w.layer), e[3]>>, <<Name(e[1], w.layer), "all">>>>

(* The (parameter, shard) writes the stacked loop or its for-else branch  *)
(* makes for w; the scale branch writes its scale parameter.              *)
Target(w) ==
  IF IsScale(w) THEN <<<<ScaleParam(w), "all">>>>
  ELSE IF Entries(w) = {} THEN <<<<w, "all">>>>
  ELSE LET e == StackedMapping(cfg)[Min(Entries(w))] IN <<<<Name(e[1], w.layer), e[3]>>>>

Lookup(w) == Target(w)[1][1]   \* the params_dict key

(* The pp check is made in the stacked and the plain branch, not in the   *)
(* scale branch.                                                          *)
Checked(w) == ~IsScale(w)

Current == Checkpoint(cfg)[idx]

Init ==
  /\ cfg \in Configs
  /\ idx = 1
  /\ written = <<>>
  /\ lp = {}
  /\ stage = "load"

(* rotary_emb.inv_freq (and cos/sin_cached): continue. *)
SkipRotary ==
  /\ stage = "load" /\ idx <= Len(Checkpoint(cfg))
  /\ IsRotary(Current)
  /\ idx' = idx + 1
  /\ UNCHANGED <<cfg, written, lp, stage>>

(* A weight of a layer or module held by another rank: continue. *)
SkipMissing ==
  /\ stage = "load" /\ idx <= Len(Checkpoint(cfg))
  /\ ~IsRotary(Current) /\ Checked(Current) /\ IsPPMissing(Lookup(Current))
  /\ idx' = idx + 1
  /\ UNCHANGED <<cfg, written, lp, stage>>

(* params_dict[name], weight_loader(...), loaded_params.add(name). *)
LoadWeight ==
  /\ stage = "load" /\ idx <= Len(Checkpoint(cfg))
  /\ ~IsRotary(Current) /\ (Checked(Current) => ~IsPPMissing(Lookup(Current)))
  /\ Lookup(Current) \in Params(cfg)
  /\ written' = written \o Target(Current)
  /\ lp' = lp \cup {Lookup(Current)}
  /\ idx' = idx + 1
  /\ UNCHANGED <<cfg, stage>>

(* params_dict[name] raises KeyError. *)
LoadKeyError ==
  /\ stage = "load" /\ idx <= Len(Checkpoint(cfg))
  /\ ~IsRotary(Current) /\ (Checked(Current) => ~IsPPMissing(Lookup(Current)))
  /\ Lookup(Current) \notin Params(cfg)
  /\ stage' = "raised"
  /\ UNCHANGED <<cfg, idx, written, lp>>

LoadReturn ==
  /\ stage = "load" /\ idx > Len(Checkpoint(cfg))
  /\ stage' = "loaded"
  /\ UNCHANGED <<cfg, idx, written, lp>>

LoadNext == SkipRotary \/ SkipMissing \/ LoadWeight \/ LoadKeyError \/ LoadReturn

(***************************************************************************)
(* Properties.                                                            *)
(***************************************************************************)
LoadTypeOK ==
  /\ cfg \in Configs
  /\ idx \in 1 .. Len(Checkpoint(cfg)) + 1
  /\ stage \in {"load", "loaded", "raised"}
  /\ lp \subseteq Params(cfg)

(* When load_weights returns, every shard of every parameter of the rank  *)
(* was written exactly once, by the stacked mapping or the plain branch,  *)
(* and loaded_params names exactly the rank's parameters.                 *)
LoadedExactly ==
  stage = "loaded" =>
    /\ IsInjective(written)
    /\ Range(written) = AllShards(cfg)
    /\ lp = Params(cfg)

=============================================================================
