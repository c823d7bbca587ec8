----------------------------- MODULE LlamaSplit -----------------------------
(***************************************************************************)
(* The prompt-splitting protocol of llama.py across the decoder-layer      *)
(* stack of one pipeline rank: LlamaModel.forward runs the rank's layers,  *)
(* LlamaDecoderLayer.forward either runs the layer on the whole batch      *)
(* (optionally in sequence slices, VLLM_TP_SPLIT_SIZE_BY_SEQ) or calls     *)
(* try_split_forward, which splits the batch into VLLM_TP_SPLIT_SIZE_BY_   *)
(* BATCH parts at layer 0, hands lists of parts from layer to layer and    *)
(* concatenates them at the last layer.                                    *)
(*                                                                         *)
(* Data abstraction: a tensor is its leading dimensions (the hidden       *)
(* dimension is left out) and the ids of the tokens it holds, in row-major *)
(* order; the linear layers, the norms and attention keep every token in   *)
(* its place, so only the reshapes, splits, concatenations and the pairing *)
(* of hidden states with residuals move or lose tokens.  A call that       *)
(* raises is the value Err.                                                *)
(***************************************************************************)
EXTENDS Naturals, SequencesExt

CONSTANTS
  NumLayers,       \* total_num_layers = len(self.layers)
  Ranks,           \* pipeline ranks: pairs <<start_layer, end_layer>>
  TPSplits,        \* values of VLLM_TP_SPLIT_SIZE_BY_BATCH (tp_parallel_size)
  SeqSplits,       \* values of VLLM_TP_SPLIT_SIZE_BY_SEQ
  OutputSlices,    \* values of OUTPUT_SLICE == 1
  OProjSplits,     \* values of VLLM_TP_O_PROJ_SPLIT_ENABLE == 1
  Batches,         \* batch sizes of a forward call
  SeqLens,         \* (padded) sequence lengths of a forward call
  BlockSize,       \* tokens per KV-cache block
  SplitThreshold,  \* 1024 * 4 * 8192, in tokens: skip_split below it
  FixedLenFrom     \* 128: get_split_size switches to fixed-length slices

ASSUME \A r \in Ranks : r[1] < r[2] /\ r[2] <= NumLayers
ASSUME \A s \in SeqLens : s % BlockSize = 0

VARIABLES
  env,     \* the environment flags of the process and the call's shape
  layer,   \* the next layer of the rank to run
  hs,      \* hidden_states passed between layers
  res,     \* residual passed between layers
  pc       \* "run", "done" (forward returned) or "raised"

vars == <<env, layer, hs, res, pc>>

(***************************************************************************)
(* Values: tensors, Python lists of tensors, None, and a raised error.    *)
(***************************************************************************)
Val(k, sh, tk, its) == [k |-> k, shape |-> sh, toks |-> tk, items |-> its]
Tensor(sh, tk) == Val("tensor", sh, tk, <<>>)
List(its)      == Val("list", <<>>, <<>>, its)
NoneV          == Val("none", <<>>, <<>>, <<>>)
Err            == Val("err", <<>>, <<>>, <<>>)

IsT(x) == x.k = "tensor"
Numel(sh) == FoldLeft(LAMBDA a, b : a * b, 1, sh)
Rows(t) == t.shape[1]
RowWidth(t) == Numel(Tail(t.shape))
Lo(a, b) == IF a <= b THEN a ELSE b

(* Tokens 1 .. n in order: what embed_tokens produces for the batch. *)
Batch(b, s) == Tensor(<<b, s>>, [i \in 1 .. b * s |-> i])

(* tensor.view(sh) *)
View(t, sh) == IF IsT(t) /\ Numel(sh) = Len(t.toks) THEN Tensor(sh, t.toks) ELSE Err

(* torch.split(t, n, dim=0): parts of n rows, the last one shorter. *)
SplitRows(t, n) ==
  IF ~IsT(t) \/ n = 0 THEN Err
  ELSE LET w == RowWidth(t)
           m == (Rows(t) + n - 1) \div n
       IN  List([j \in 1 .. m |->
             LET r == Lo(n, Rows(t) - (j - 1) * n) IN
             Tensor(<<r>> \o Tail(t.shape), SubSeq(t.toks, (j - 1) * n * w + 1, (j - 1) * n * w + r * w))])

(* t[i]: a tensor indexed like a list gives its i-th row. *)
Row(t, i) ==
  IF IsT(t) /\ i <= Rows(t)
  THEN Tensor(Tail(t.shape), SubSeq(t.toks, (i - 1) * RowWidth(t) + 1, i * RowWidth(t)))
  ELSE Err

(* torch.cat(ts, dim=0) *)
Cat(ts) ==
  IF ts = <<>> \/ \E i \in DOMAIN ts : ~IsT(ts[i]) \/ Tail(ts[i].shape) # Tail(ts[1].shape) THEN Err
  ELSE Tensor(<<FoldLeft(LAMBDA a, t : a + Rows(t), 0, ts)>> \o Tail(ts[1].shape),
              FlattenSeq([i \in DOMAIN ts |-> ts[i].toks]))

(* The i-th element of what the code indexes as a list. *)
Elem(x, i) ==
  CASE x.k = "list" -> IF i <= Len(x.items) THEN x.items[i] ELSE Err
    [] x.k = "tensor" -> Row(x, i)
    [] OTHER -> Err

(* input_layernorm(h, r) / post_attention_layernorm(h, r): RMSNorm with a *)
(* residual adds x.view(residual.shape) into the residual, so the element *)
(* counts must agree; element j of h meets element j of r, and a token    *)
(* added to another token's residual is lost (id 0).  Returns             *)
(* <<normed in the shape of h, new residual in the shape of r>>.           *)
AddNorm(h, r) ==
  IF IsT(h) /\ IsT(r) /\ Len(h.toks) = Len(r.toks)
  THEN LET tk == [j \in DOMAIN r.toks |-> IF h.toks[j] = r.toks[j] THEN r.toks[j] ELSE 0]
       IN  <<Tensor(h.shape, tk), Tensor(r.shape, tk)>>
  ELSE <<Err, Err>>

(* input_layernorm(h) without residual, and the MLP: token-wise on a tensor. *)
TokenWise(h) == IF IsT(h) THEN h ELSE Err

(* A value or a list of values one of which raised. *)
Raised(x) == x.k = "err" \/ \E i \in DOMAIN x.items : x.items[i].k = "err"

(***************************************************************************)
(* The layers.                                                            *)
(***************************************************************************)
(* get_split_size: below FixedLenFrom the flag is a number of slices,     *)
(* from it on a slice length.                                             *)
GetSplitSize(seq_len, batch_size, orig_split_size) ==
  IF orig_split_size < FixedLenFrom
  THEN Max({(seq_len * batch_size) \div orig_split_size, 1})
  ELSE orig_split_size

(* Entries of attn_metadata.block_indices of a whole prompt batch. *)
PromptBlocks == env.b * (env.s \div BlockSize)

(* LlamaAttention.forward on hidden states h, with nblocks block indices  *)
(* for the new keys.  HPUAttentionImpl.forward unpacks a 3-D query and,   *)
(* on a prompt, unflattens the keys into block_indices.size(0) blocks and *)
(* writes them, which fails unless they fill the blocks exactly.  With    *)
(* do_split the output goes through o_proj in slices of split_size tokens *)
(* and is returned as the list of slices when OUTPUT_SLICE is set.        *)
AttentionForward(h, nblocks) ==
  IF ~IsT(h) \/ Len(h.shape) # 2 \/ (env.prompt /\ nblocks * BlockSize # Len(h.toks))
  THEN Err
  ELSE LET b        == h.shape[1]
           s        == h.shape[2]
           ss       == GetSplitSize(s, b, env.seqSplit)
           do_split == env.seqSplit > 1 /\ env.oproj /\ env.prompt
           slices   == SplitRows(View(h, <<(s * b) \div ss, ss>>), 1)
       IN  IF (s * b) % ss = 0 /\ do_split
           THEN IF env.oslice THEN slices ELSE View(Cat(slices.items), <<b, s>>)
           ELSE h

(* The sliced post-attention part of LlamaDecoderLayer.forward: the       *)
(* residual cut into slices of split_size tokens and zipped with the      *)
(* attention output taken as a list (zip stops at the shorter one), each  *)
(* pair through post_attention_layernorm and the MLP, and both lists      *)
(* concatenated and viewed back (the residual first).                     *)
SlicedPost(a, r0, b, s, ss) ==
  LET rl  == SplitRows(View(r0, <<(s * b) \div ss, ss>>), 1)
      na  == CASE a.k = "list" -> Len(a.items) [] IsT(a) -> Rows(a) [] OTHER -> 0
      m   == IF rl.k = "list" THEN Lo(na, Len(rl.items)) ELSE 0
      pr  == [j \in 1 .. m |-> AddNorm(Elem(a, j), rl.items[j])]
      nr  == View(Cat([j \in 1 .. m |-> pr[j][2]]), r0.shape)
      nh  == View(Cat([j \in 1 .. m |-> TokenWise(pr[j][1])]), <<b, s>>)
  IN  IF Raised(nr) THEN <<Err, Err>> ELSE <<nh, nr>>

(* LlamaDecoderLayer.forward on the whole batch: input_layernorm, self    *)
(* attention, then post_attention_layernorm and the MLP, in slices when   *)
(* do_split, the token count divides and output_slice.                    *)
NormalPath(h, r) ==
  LET n0       == IF r.k = "none" THEN <<TokenWise(h), h>> ELSE AddNorm(h, r)
      h0       == n0[1]
      r0       == n0[2]
      b        == h0.shape[1]
      s        == h0.shape[2]
      ss       == GetSplitSize(s, b, env.seqSplit)
      do_split == env.seqSplit > 1 /\ env.prompt
      a        == AttentionForward(h0, PromptBlocks)
  IN  IF ~IsT(h0) \/ Len(h0.shape) # 2 THEN <<Err, Err>>
      ELSE IF do_split /\ (s * b) % ss = 0 /\ env.oslice
      THEN SlicedPost(a, r0, b, s, ss)
      ELSE LET p == AddNorm(a, r0) IN <<TokenWise(p[1]), p[2]>>

(* The layers where try_split_forward splits and where it concatenates. *)
IsFirstLayer(i) == i = 0
IsLastLayer(i) == i = NumLayers - 1

(* split_tensor: parts of size // num_partitions rows (torch.split). *)
SplitTensor(t, num_partitions) ==
  IF IsT(t) THEN SplitRows(t, Rows(t) \div num_partitions) ELSE Err

(* The parts the loops of try_split_forward visit: range(split).  *)
(* (Variant: the last part left out.)                               *)
SplitIndicesShort(split) == 1 .. split - 1
SplitIndices(split) == 1 .. split

(* try_split_forward: split_tensor cuts a tensor into parts of            *)
(* size // split rows and the loops take the first split parts; at layer  *)
(* 0 hidden states and residual are split, at later layers they are       *)
(* indexed as the lists the previous layer returned.  block_indices is    *)
(* split the same way by its own length.                                  *)
SplitForward(i, h, r) ==
  LET split  == env.tp
      hl     == IF IsFirstLayer(i) THEN SplitTensor(h, split) ELSE h
      rl     == IF IsFirstLayer(i)
                THEN IF r.k = "none" THEN List([j \in 1 .. split |-> NoneV]) ELSE SplitTensor(r, split)
                ELSE r
      pos    == SplitTensor(Tensor(<<env.b, env.s>>, [t \in 1 .. env.b * env.s |-> t]), split)
      bi     == SplitTensor(Tensor(<<PromptBlocks>>, [t \in 1 .. PromptBlocks |-> t]), split)
      n1     == [j \in SplitIndices(split) |->
                  IF r.k = "none" THEN <<TokenWise(Elem(hl, j)), Elem(hl, j)>>
                  ELSE AddNorm(Elem(hl, j), Elem(rl, j))]
      a      == [j \in SplitIndices(split) |-> AttentionForward(n1[j][1], Len(Elem(bi, j).toks))]
      n2     == [j \in SplitIndices(split) |-> AddNorm(a[j], n1[j][2])]
      hs2    == [j \in SplitIndices(split) |-> TokenWise(n2[j][1])]
      rs2    == [j \in SplitIndices(split) |-> n2[j][2]]
  IN  IF Raised(pos) \/ Raised(bi) \/ Raised(hl) \/ Raised(rl) \/ Raised(List(hs2))
      THEN <<Err, Err>>
      ELSE IF IsLastLayer(i) THEN <<Cat(hs2), Cat(rs2)>> ELSE <<List(hs2), List(rs2)>>

(* LlamaDecoderLayer.forward: the whole-batch path unless this is a       *)
(* prompt, VLLM_TP_SPLIT_SIZE_BY_BATCH > 1 and the hidden states are a    *)
(* tensor of more than one row and at least SplitThreshold tokens (or a   *)
(* list already).                                                         *)
DecoderLayerForward(i, h, r) ==
  LET skip_split == IF IsT(h) THEN h.shape[1] = 1 \/ Numel(h.shape) < SplitThreshold
                    ELSE FALSE
  IN  IF ~env.prompt \/ env.tp = 1 \/ skip_split THEN NormalPath(h, r) ELSE SplitForward(i, h, r)

(***************************************************************************)
(* LlamaModel.forward on one pipeline rank.  Ranks are those a model can *)
(* be constructed for: LlamaModel.__init__ raises on any rank not holding *)
(* every layer (LlamaLifecycle.Construct), so the runs give the           *)
(* whole-model rank only; the rank-dependent branches are kept as coded.  *)
(***************************************************************************)
Env ==
  [tp : TPSplits, seqSplit : SeqSplits, oslice : OutputSlices, oproj : OProjSplits,
   b : Batches, s : SeqLens, prompt : BOOLEAN, rank : Ranks]

IsLastRank == env.rank[2] = NumLayers

(* The first rank embeds the batch and has no residual; a later rank     *)
(* receives hidden states and residual of the batch from the previous one *)
(* as IntermediateTensors.                                                *)
Init ==
  /\ env \in Env
  /\ layer = env.rank[1]
  /\ hs = Batch(env.b, env.s)
  /\ res = IF env.rank[1] = 0 THEN NoneV ELSE Batch(env.b, env.s)
  /\ pc = "run"

(* Variant: the loop bound inclusive, one layer past the rank's range. *)
RunLayerPastEnd ==
  /\ pc = "run"
  /\ layer <= env.rank[2]
  /\ LET o == DecoderLayerForward(layer, hs, res) IN
       /\ ~Raised(o[1]) /\ ~Raised(o[2])
       /\ hs' = o[1]
       /\ res' = o[2]
  /\ layer' = layer + 1
  /\ UNCHANGED <<env, pc>>

(* One iteration of the layer loop: layer(positions, hidden_states, ...), *)
(* returning or raising.                                                  *)
RunLayer ==
  /\ pc = "run"
  /\ layer < env.rank[2]
  /\ LET o == DecoderLayerForward(layer, hs, res) IN
       /\ ~Raised(o[1]) /\ ~Raised(o[2])
       /\ hs' = o[1]
       /\ res' = o[2]
  /\ layer' = layer + 1
  /\ UNCHANGED <<env, pc>>

LayerRaises ==
  /\ pc = "run"
  /\ layer < env.rank[2]
  /\ LET o == DecoderLayerForward(layer, hs, res) IN Raised(o[1]) \/ Raised(o[2])
  /\ pc' = "raised"
  /\ UNCHANGED <<env, layer, hs, res>>

(* After the loop (617-624): a rank that is not the last returns         *)
(* IntermediateTensors of hidden states and residual, the last rank       *)
(* returns self.norm(hidden_states, residual).                            *)
Return ==
  /\ pc = "run"
  /\ layer = env.rank[2]
  /\ LET out == IF IsLastRank THEN AddNorm(hs, res)[1] ELSE hs IN
       /\ hs' = out
       /\ pc' = IF Raised(out) THEN "raised" ELSE "done"
  /\ UNCHANGED <<env, layer, res>>

Next == RunLayer \/ LayerRaises \/ Return

Spec == Init /\ [][Next]_vars

(***************************************************************************)
(* Properties.                                                            *)
(***************************************************************************)
TypeOK ==
  /\ env \in Env
  /\ layer \in env.rank[1] .. env.rank[2]
  /\ hs.k \in {"tensor", "list", "none", "err"} /\ res.k \in {"tensor", "list", "none"}
  /\ pc \in {"run", "done", "raised"}

(* A forward call that returns hands on every token of the batch once and  *)
(* in order, as one [batch, seq] tensor (with its residual on a rank that *)
(* is not the last): try_split_forward's split at layer 0 and             *)
(* concatenation at the last layer, and the sequence slices of the        *)
(* decoder layer, lose, repeat or reorder no token and pair every hidden  *)
(* state with its own residual.                                           *)
OutputComplete ==
  pc = "done" =>
    /\ hs = Batch(env.b, env.s)
    /\ ~IsLastRank => res = Batch(env.b, env.s)

(* A forward call with a configuration the process accepted returns      *)
(* instead of raising.                                                    *)
CallReturns == pc # "raised"
=============================================================================
