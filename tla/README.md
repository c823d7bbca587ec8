# TLA+ models of the HPU paged-attention backend

This directory holds TLA+ models of `src/vllm/attention/backends/hpu_attn.py`
(the HPU attention backend of vLLM) and of the sequence/batch split protocol
and the weight loading of `src/vllm/model_executor/models/llama.py`, the TLC configurations that
check them, and `PROJECT.json`, which maps every modelled definition to the
source lines it translates.

## 1. The system

A decoder layer calls `HPUAttentionImpl.forward(query, key, value, kv_cache,
attn_metadata)` once per engine step. The call does three things:

1. It writes the step's new keys and values into the paged KV cache
   (`self.k_cache(...)` and `self.v_cache(...)`, lines 343-353).
   - On a prompt step the keys are unflattened into whole blocks and written
     with `block_indices`. The slots past the prompt's end in its last block
     get the padding token.
   - On a decode step each sequence writes one token at
     `(block_indices, block_offsets)`.
2. It dispatches on `attn_metadata.is_prompt`.
   - A prompt step goes to the dense path, `ops.prompt_attention` or
     `prompt_fsdpa`. Both are external kernels.
   - A decode step goes to `flat_pa` (lines 113-151).
3. `flat_pa` does the decode attention:
   - it broadcasts each sequence's query to its blocks (`batch2block`);
   - it fetches the keys and values of `block_list`, scores them, and adds
     `block_bias`, which is -inf on slots past a sequence's end;
   - it normalises with one of three policies, chosen by environment flags
     (lines 60-63):
     - `pipelined_const_pa` when `VLLM_SOFTMAX_CONST_PA` is set;
     - `pa` when `VLLM_SOFTMAX_CONST_NORM` is set;
     - otherwise the extension's running-max `ops.pipelined_pa`;
   - it collapses the blocks back to sequences (`block2batch`).

The scheduler and block manager, which are not in `src/`, build the block
tables. They fork sequences, which then share blocks. They copy a shared
block before a sequence writes into it (`HPUAttentionBackend.copy_blocks`),
and they free the blocks of finished sequences without clearing them.

In `llama.py` the decoder layer wraps the attention call. With
`VLLM_TP_SPLIT_SIZE_BY_BATCH > 1` it splits a large prompt batch into slices
at layer 0. It passes lists of slices between layers and concatenates them at
the last layer. With `VLLM_TP_SPLIT_SIZE_BY_SEQ > 1`, attention and MLP run
slice by slice inside one layer.

Before the first forward call, `LlamaModel.load_weights` (626-695) reads
the checkpoint weight by weight into the parameters the rank's modules
created in `__init__`. Under pipeline parallelism each rank holds the layers
`[start_layer, end_layer)` of `make_layers`; the other layers, and
`embed_tokens` and `norm` where the rank does not own them, are
`PPMissingLayer`s, and the loader skips their weights. As written,
though, `__init__` calls `set_total_num_layers` on every entry of the
layer list (569-571), which a `PPMissingLayer` does not have: only the
rank holding the whole model can be constructed (the `construct_pipeline`
finding).

## 2. Inventory

### Parts, their state and operations

| part | state | operations | modules |
|---|---|---|---|
| numeric environment | flags `const_norm`, `const_pa`, `const_val`, `eps_value` | none (read-only) | `SoftmaxArith` |
| AttentionCore (`flat_pa`, `pa`, `pipelined_const_pa`) | none (pure function of the cache and the metadata) | one decode computation | `AttentionCore` |
| BatchNormalizer (not in `src/`, from spec.md 3 and 4.2) | none | `block_list`, `block_mapping`, `block_bias`, `block2batch`, `batch2block` | `BatchNormalizer` |
| PagedCacheStore | `key_cache`, `value_cache` (blocks x slots) | prompt block write, decode slot write, `copy_blocks`, `swap_blocks` (not modelled) | `PagedCacheStore` |
| AttentionLayer facade (`forward`) | the cache, plus what the engine holds across calls: block tables, sequence lengths | prompt step, decode step; fork, copy-on-write and finish between steps | `HPUAttention`, `AttentionDispatch` |
| abstract attention | contiguous token list per sequence | admit, decode, fork, finish | `LogicalAttention` |
| encoder-decoder cross attention | the cross block tables | prompt write and prompt output, cross decode, finish | `EncDecAttention`, `LogicalCrossAttention` |
| `HPUAttentionImpl.__init__` and the dispatch of one `forward` call | the configuration | construction checks; prompt, prefix, decode and cross paths, with or without `kv_cache` | `AttentionDispatch` |
| ALiBi bias | the slopes | bias construction per prompt call, by its shape | `AttentionDispatch` |
| Llama split protocol | hidden states as a tensor or a list of slices, the residual, layer index | `LlamaDecoderLayer.forward`, `try_split_forward`, `LlamaAttention.forward`, the layer loop of `LlamaModel.forward` | `LlamaSplit` |
| weight loading (`LlamaModel.load_weights`) | the rank's parameters, `loaded_params` | skip, load a shard or a whole parameter, skip a pipeline-missing weight, raise `KeyError` | `LlamaLoadWeights` |
| one rank from construction to forward | both of the above, and whether `__init__` returned | construct (or raise `AttributeError`), load, then the first forward call | `LlamaLifecycle` |
| `LlamaForCausalLM` plumbing | none | `compute_logits`, `sample`, name remapping | not modelled (section 6) |

### Interactions

- **Construct, load, then run.** `__init__` builds the rank's modules
  with `make_layers`; the loader fills the parameters they created, and
  the forward loop runs the layers of the same range.
- **Write, then read.** A decode call writes the new token into the cache
  before `flat_pa` reads the cache, so the token attends to itself.
- **Engine and cache.** The engine's block tables decide which slots a write
  hits and which blocks `flat_pa` reads.
  - A fork shares blocks between sequences.
  - Copy-on-write must come before a write into a shared block.
  - A freed block keeps its old contents. When it is reused, only
    `block_bias` hides those contents.
- **One batch, one computation.** All sequences of a decode batch are
  normalised in one matrix computation. A non-finite value in one sequence
  can therefore reach the others.

### Hard behaviours (the hazards of `PROJECT.json`)

- **Stale or padding slot contents.** Unmasked stale or padding contents in
  reused or partly filled blocks would enter the softmax.
- **Copy-on-write order.** The copy must come before the write into a
  shared block.
- **Block-sum aggregation.** Each block's denominator must come from the
  aggregated sum of its sequence, protected by the max guard and the eps
  floor.
- **Constant-shift overflow.** An overflow under the constant shift yields
  NaN, and the one-hot matrix products spread it across the whole batch.
- **Constant-shift underflow.** An underflow gives a zero output, while the
  running-max policy does not.
- **ALiBi with grouped-query heads.** The bias has the wrong rank.
- **Merged prefill.** The FusedSDPA path has no valid lengths.
- **Weight loading.** A stacked shard written twice or not at all (the
  `break` and the for-else of the mapping loop).
- **Construction on a pipeline rank.** `set_total_num_layers` called on a
  `PPMissingLayer`.
- **Llama split protocol.**
  - Rows are dropped when the batch is not a multiple of the split.
  - The attention layer and the decoder layer disagree on when a list is
    returned.

### Properties per part

- **AttentionLayer (with the cache, AttentionCore and BatchNormalizer).** The
  paged implementation refines `LogicalAttention`
  (`RefinesLogicalAttention`). Two things follow:
  - no step disturbs a token another sequence can read;
  - every decode output equals the dense softmax over the sequence's own
    tokens.
- **The block tables.** `TypeOK` includes the structural invariant that each
  block table has exactly `ceil(len / block_size)` blocks.
- **Llama split protocol.**
  - A forward call that returns hands on every token of the batch exactly
    once, in order, as one tensor, each hidden state paired with its own
    residual (`OutputComplete`).
  - A configuration the process accepts does not raise at the first prompt
    (`CallReturns`, checked only in a violation run).
  - Metadata alignment per slice is not checked (see section 6).
- **One call's dispatch (`AttentionDispatch`).**
  - A decoder prompt reaching a dense kernel hands it a bias or the valid
    lengths (`PromptKernelSeparatesSequences`); `TypeOK` adds that a call
    that raises does so before any kernel runs.
  - An accepted layer does not raise on any call the runner builds, the
    profiling prompt without a cache included (`AcceptedLayerCallsReturn`,
    checked only in a violation run). The runner's calls (`Calls`) pass
    `kv_cache` None only on that prompt, which has no cached prefix.
- **Weight loading and the rank's lifecycle (`LlamaLifecycle`).**
  - When `load_weights` returns, every shard of every parameter of the
    rank was written exactly once and `loaded_params` names exactly the
    rank's parameters (`LoadedExactly`).
  - `OutputComplete` of the forward call that follows
    (`WholeModelOutputComplete`).
  - `__init__` returns on every rank of a pipeline (`ConstructReturns`,
    a violation run).
- **Cross prefill output.** Each sequence's prefill output attends over its
  own encoder tokens (`PrefillAttendsOwnEncoder`, a violation run).

## 3. Modules

| module | models | source |
|---|---|---|
| `SoftmaxArith` | the flags and an abstraction of bf16 arithmetic | `hpu_attn.py` 60-63, 79-110 |
| `BatchNormalizer` | block-batch metadata, `block2batch`, `batch2block` | spec.md 3, 4.2 (not in `src/`) |
| `AttentionCore` | `flat_pa`, `pa`, `pipelined_const_pa`, `ops.pipelined_pa` | `hpu_attn.py` 77-151 |
| `PagedCacheStore` | the two cache buffers, slot and block writes, block copy | `hpu_attn.py` 190-195, 340-353 |
| `HPUAttention` | `forward` over a run of steps, with the engine's block tables | `hpu_attn.py` 297-430 |
| `LogicalAttention` | the abstract specification: contiguous tokens, dense softmax | spec.md 4.3, 5 |
| `MC_HPUAttention` | the model values and bounds for TLC | |
| `EncDecAttention` | `forward_encoder_decoder`: cross-slot writes at prefill, the paged decode over the cross block tables | `hpu_attn.py` 453-541 |
| `LogicalCrossAttention` | the abstract cross layer: encoder tokens fixed at prefill, dense softmax at decode | spec.md 4.4 |
| `MC_EncDecAttention` | the model values and bounds for TLC | |
| `LlamaSplit` | `LlamaModel.forward` on one pipeline rank over the decoder layers, with `try_split_forward`, the sliced post-attention path and `LlamaAttention`'s o_proj slicing | `llama.py` 66-71, 129-145, 278-316, 389-528, 597-624 |
| `MC_LlamaSplit` | the whole-model rank and scaled thresholds for TLC | |
| `LlamaLoadWeights` | `LlamaModel.load_weights` over the parameters `LlamaAttention`, `LlamaMLP`, `LlamaDecoderLayer` and `LlamaModel.__init__` create on a rank | `llama.py` 87-122, 192-277, 353-384, 551-583, 626-695 |
| `LlamaLifecycle` | one rank: `LlamaLoadWeights` then `LlamaSplit`, composed by named `INSTANCE`s | `llama.py` 597-606 |
| `MC_LlamaLifecycle` | the ranks of a three-layer model for TLC | |
| `AttentionDispatch` | `HPUAttentionImpl.__init__`'s checks and the path of one `forward` call: which kernel it reaches, with which bias and valid lengths, and where it raises | `hpu_attn.py` 36-58, 241-430, 488-541, 545-574 |

### Data abstraction (SoftmaxArith)

- **Heads and values.** One head with head size 1.
- **Keys.** A key is a model value, and `Score[q][k]` is the integer
  `scale * q.k`, read as an exponent of 2.
  - `Exp(e)` is `2^e`, counted in units of `2^ExpLo`, the smallest normal
    number. `eps_value`, which is bf16 `tiny`, is one unit.
  - Below `ExpLo`, exp flushes to zero. Above `ExpHi`, it is +inf.
- **Finite numbers.** They are exact non-negative rationals. Rounding is not
  modelled, so "agree within tolerance" becomes equality.
- **Non-finite numbers.** Sums saturate to +inf, `0 * inf` and `inf / inf`
  are NaN, and NaN propagates, including through `torch.maximum`.
- **Masked slots.** `-inf` (the bias of a masked slot) is the model value
  `NegInf`, and its exp is 0.

### HPUAttention: state and actions

**State.**

- `kcache`, `vcache`: the cache buffers.
- `table`, `len`: the engine's block table and `seq_lens` per sequence.
- `out`: the last decode output per sequence.
- `query`: the query of the last decode step per sequence.

**Actions.**

- **`Prompt(s, toks)`.** Allocates blocks and writes the prompt as whole
  blocks, with the padding token after its end (lines 340-353).
- **`Decode(batch)`.**
  - It opens a new block for every sequence whose last block is full.
  - It writes one token per sequence at its slot.
  - It runs `flat_pa` on the written cache (lines 343-353, 411-430).
  - Its guard requires that a sequence appending into its last block owns
    that block. This is the scheduler's copy-on-write obligation.
- **`Fork(s, t)`.** Shares all blocks of `s` with a new sequence `t`.
- **`CopyOnWrite(s)`.** `copy_blocks` of the shared, partly filled last
  block into a free block, and the table updated (lines 190-195).
- **`Finish(s)`.** Releases the blocks without clearing them.

The prompt's own attention output comes from the external dense kernel. It
is not part of the model, and a prompt step sets `out` to "no output".

### Refinement

`HPUAttention` implements `LogicalAttention` under the mapping `AbsKV`.
- Token `i` of `s` is read from slot `table[s][(i-1) div B + 1]`, offset
  `(i-1) mod B`.
- `out` and `query` map to themselves.

`LogicalAttention!Spec` is checked as the property `RefinesLogicalAttention`.
- It fails if a write reaches a slot another live sequence reads.
- It also fails if a decode output differs from the dense computation over
  the sequence's own contiguous tokens with the same query.

The dense computation uses the same policy: the same shift and the same
order of division. The promise is that paging is invisible, not that the
policies agree. That second promise is `PoliciesAgree`: every decode
output is `Close` to `LogicalAttention!DenseAttentionUnder("pipelined",
...)`, the running-max computation over the sequence's own tokens, where
`Close(a, b)` means both are finite and `4 * |a - b| <= b`. The tolerance
is loose enough for the eps floor on in-range scores and tight enough that
a flushed-to-zero sequence (output 0 against a positive reference) or a
per-block normalisation (a sequence spanning two blocks weighted twice)
fails it. The running-max policy itself (`ops.pipelined_pa`, outside
`src/`) serves as the reference; its own refinement run was dropped for
this one, since it checked only the external kernel's modelled form.

### EncDecAttention: state, actions and refinement

The cross-attention layer has its own cache buffers (`kcache`, `vcache`)
and per sequence a cross block table `ctable` and encoder length `elen`;
`out` and `query` are as in HPUAttention, and `kvin` records the encoder
key/value each prefill was called with (an input, kept so that the
refinement can say the cache holds exactly it).
- `CrossPrefill(batch, enc)`: the asserts of lines 459-461 as guards
  (a nonempty batch, the key tokens dividing evenly among the prefills);
  fresh cross blocks for every sequence; every encoder token written at
  its slot with `cross_block_offsets` (lines 472-486). The prefill output
  (488-512) is `ops.prompt_attention` over `key.view(num_prefills, -1)`
  with an all-zero bias: `PrefillRows` concatenates the batch's encoder
  tokens in the runner's order (any order, chosen by `\E`) and cuts them
  into equal rows; `pattn[s]` records the row the output of `s` attends
  over (the arithmetic is the dense softmax and is not repeated).
- `CrossDecode(batch, q)`: key and value are `None`, nothing is written,
  and the paged kernel runs over the cross block list, mapping and bias
  (lines 514-541). `forward_decode` is the extension's `flat_pa`; the model
  uses `AttentionCore!FlatPA`.
- `Finish(s)`: the cross blocks are released, their contents stay.

`RefinesLogicalCrossAttention` checks the layer against
`LogicalCrossAttention`: the cache read through the cross table is the
prefill's input, and every decode output is the dense softmax over it,
with stale tails of reused blocks present.

### AttentionDispatch: one layer, one call

`HPUAttentionImpl`'s control, with tensors reduced to whether they are
given and, for the ALiBi bias, to their shapes.

**State.** `cfg`, the constructor's arguments (head counts, ALiBi slopes
given, the `fsdpa` flag, head size supported, attention type); `call`, the
metadata of the call (`is_prompt`, `kv_cache` a tuple or `None`,
`block_list` set, merged prefill, `attn_bias` set), restricted to what the
runner builds (a decode always has a block list; a prompt's `attn_bias` is
set, as the assert at 361 demands); `pc`; `kernel`, the kernel the call
ended in with the bias and valid lengths it was handed.

**Actions.** `Construct` and `ConstructRaises` (the checks of 276-295).
`PromptCall` (356-393): without FusedSDPA the bias is asserted and, with
ALiBi, tiled to `[b, kv, s, s]` and `add_`-ed with the shape
`_make_alibi_bias` returns (545-574), `[1, h, s, s]`, or
`[1, kv, h/kv, s, s]` under grouped-query heads, which does not broadcast
and raises; with FusedSDPA the bias is kept only for a merged prefill; a
merged FusedSDPA prefill goes to `prompt_fsdpa`, which drops the valid
lengths (36-58). `PrefixCall` (394-409), `DecodeCall` (410-430) and
`CrossDecodeCall` (514-541) read `key_cache`, which is bound only when
`kv_cache` is a tuple (343-353); the runner gives them one, so the
`UnboundLocalError` they would raise without it is never reached. `CrossPromptCall` (488-512) never reads the cache.

### LlamaSplit: data abstraction, state and actions

**Data.** A tensor is its leading dimensions (`[batch, seq]`, or `[rows]`
for a slice) and the row-major sequence of the ids of the tokens it holds;
the hidden dimension is dropped. Python lists, `None` and a raised
exception (`Err`) are values too. `Batch(b, s)` is the embedded batch,
tokens `1 .. b*s`.
- `view`, `torch.split`, `torch.cat` and indexing are modelled by what
  they do to shapes and token order, and raise where torch raises.
- RMSNorm with a residual (`AddNorm`) adds `x.view(residual.shape)` into the
  residual: the element counts must agree, and a position where the hidden
  state and the residual hold different tokens is marked lost (id 0).
- The MLP and the norms are token-wise; the attention is token-wise too,
  apart from its block-count check: on a prompt `HPUAttentionImpl.forward`
  unflattens the keys into `block_indices.size(0)` blocks.
- The flags read in `LlamaDecoderLayer.__init__`
  (`VLLM_TP_SPLIT_SIZE_BY_BATCH`, `VLLM_TP_SPLIT_SIZE_BY_SEQ`, `OUTPUT_SLICE`,
  `VLLM_TP_O_PROJ_SPLIT_ENABLE`), the batch shape, `is_prompt` and the
  rank's layer range form the record `env`, chosen in `Init`.

**State.** `env`; `layer`, the loop index of `LlamaModel.forward`; `hs` and
`res`, the hidden states and residual between layers; `pc`, whether the
call runs, returned or raised.

**Actions.**
- `Init`: the first rank embeds the batch with residual `None`; a later
  rank receives both from `IntermediateTensors` (597-606).
- `RunLayer`: one iteration of the layer loop, `DecoderLayerForward` on
  the current values (612-616). `LayerRaises` is the same iteration when
  the layer raises.
- `Return`: a rank that is not the last returns hidden states and
  residual, the last applies the final norm (617-624).

**The layer.** `DecoderLayerForward` takes the whole-batch path
(`NormalPath`, with `SlicedPost` when the attention output is a list of
slices) unless the call is a prompt, `VLLM_TP_SPLIT_SIZE_BY_BATCH > 1` and
the hidden states are a list or a tensor of more than one row above the
size threshold; then `SplitForward` (`try_split_forward`) splits at layer 0,
runs the slices, and concatenates at layer `total_num_layers - 1`.

### LlamaLoadWeights and LlamaLifecycle

**Data.** A weight or parameter name is the record of its module and layer
(-1 outside `model.layers`); the checkpoint is the Hugging Face Llama
layout, embedding, then per layer the norms, q/k/v/o, `rotary_emb.inv_freq`,
gate/up/down, and with a kv-cache scheme the `k_proj`/`v_proj` output
scales, then the final norm. The substring tests of the loop (`weight_name
in name`) are equality of the module here: every mapping entry starts with
a dot and no module name of the checkpoint contains another. A load is the
`(parameter, shard)` pair `weight_loader` writes, appended to `written`.

**State.** `cfg` (the rank, `split_qk_v`, `split_gate_up`, a kv-cache
scheme, `tie_word_embeddings`), `idx` (the loop position), `written`, `lp`
(`loaded_params`), `stage`.

**Actions.** `SkipRotary` (645-651); `SkipMissing`, the `continue` after
`is_pp_missing_parameter` in the stacked loop and in its else (669, 685);
`LoadWeight`, the kv-scale branch (652-660), the stacked branch writing one
shard and breaking (661-675) or the else writing the whole parameter
(676-692); `LoadKeyError`, a `params_dict` lookup that fails; `LoadReturn`.
`Params` is the parameter set `__init__` creates: `q_proj`/`k_proj`/
`v_proj` or `qkv_proj` (192-232), `gate_proj`/`up_proj` or `gate_up_proj`
(87-122), the norms (381-384), the attention's k/v scales under a kv-cache
scheme, for the layers of the rank, `embed_tokens` on the first rank (or the
last, when tied) and `norm` on the last (551-575).

**Composition.** `LlamaLifecycle` instantiates both modules with shared
`NumLayers` and `Ranks`. `Construct` (569-571) runs first and raises
unless the rank holds every layer (`OwnsAllLayers`); load steps follow; `StartForward` is
`LlamaSplit`'s `Init` on the rank `cfg` names, enabled once `load_weights`
has returned; forward steps follow. Each step leaves the other
component's variables unchanged.

## 4. Runs

| run | cfg | expect | shows |
|---|---|---|---|
| `const_pa` | `MC_HPUAttention_const_pa.cfg` | pass | the refinement under `VLLM_SOFTMAX_CONST_PA`, and `PoliciesAgree`: on in-range scores every decode output is within a quarter of the running-max output over the same tokens |
| `const_pa_underflow` | `MC_HPUAttention_underflow.cfg` | violation | a sequence whose scores all lie below `const_val` by more than the exp range gets output 0 under `VLLM_SOFTMAX_CONST_PA`, where the running-max policy gives the average of its values |
| `const_pa_overflow` | `MC_HPUAttention_overflow.cfg` | violation | one overflowing sequence makes the other sequences of the batch NaN |
| `encdec_const_norm` | `MC_EncDecAttention_const_norm.cfg` | pass | under `VLLM_SOFTMAX_CONST_NORM` (the `pa` normalisation), the cross layer keeps each sequence's encoder tokens and attends over exactly them |
| `lifecycle` | `MC_LlamaLifecycle.cfg` | pass | on the rank holding the whole three-layer model, under every flag combination, every shard is loaded exactly once and the forward call on evenly divisible batches returns every token once and in order; the pipeline ranks stop at construction |
| `construct_pipeline` | `MC_LlamaLifecycle_pipeline.cfg` | violation | `LlamaModel.__init__` raises `AttributeError` on every rank of a two-stage pipeline |
| `split_ragged_batch` | `MC_LlamaSplit_ragged.cfg` | violation | 3 prompts with a batch split of 2: the call returns with the third prompt dropped |
| `split_oproj_off` | `MC_LlamaSplit_oproj_off.cfg` | violation | sequence split with `VLLM_TP_O_PROJ_SPLIT_ENABLE=0`: the first prompt raises |
| `encdec_prefill_view` | `MC_EncDecAttention_prefill_view.cfg` | violation | encoder inputs of 1 and 3 tokens become two rows of 2: the first prefill attends over its token and the second sequence's first, the second over its own tokens without the first |
| `dispatch` | `AttentionDispatch.cfg` | pass | every decoder prompt reaching a dense kernel gets a bias or the valid lengths; a raising call raises before its kernel |
| `dispatch_calls_return` | `AttentionDispatch_calls_return.cfg` | violation | an accepted layer raises on a call the runner builds: with ALiBi and 2 heads over 1 KV head every prompt fails in `add_` |

**Bounds.**

- **Sizes.** 2 sequences, 3 blocks of 2 slots. Sequences are at most 3
  tokens long and prompts at most 2.
- **Keys and values.**
  - The token key is `k1`, and a value is 0 or 1.
  - The padding token has key `k2`.
  - Never-written slots hold the zero key `k0`.
  - So stale, padding and zero contents all score differently from real
    tokens.
- **Queries.** There are 2 queries, so two sequences of one batch can
  disagree in their outputs.
- **Why these bounds reach the interesting cases.**
  - Three blocks let a sequence span two blocks while another holds a
    third, so each block's denominator must aggregate over several blocks.
  - Reused blocks carry stale contents.
  - A fork followed by a decode forces a copy-on-write.
- **Symmetry.** It is sound for blocks and sequences, which are
  interchangeable model values.

**The overflow run.**
- `q2 . k1 = 4` exceeds `ExpHi - const_val = 3`.
- TLC finds a batch `{s1, s2}` in which `s2`'s exp overflows, and `s1`,
  whose scores are all finite, gets NaN. See the finding in `PROJECT.json`:
  spec.md 9 calls the matrix-product form only a hardware stand-in for a
  segmented reduction, under which `s1` would be unaffected.

**The underflow run.**
- `q2 . k1 = -4` lies below `ExpLo - const_val = -3`.
- TLC finds a one-token prompt of `k1` followed by a decode with `q2`: both
  weights flush to zero, the output is 0, and the running-max reference
  (which shifts by the sequence's own maximum) is the token values'
  average, positive. The same cfg on the in-range `MCScore` passes.

**EncDecAttention bounds.** Two sequences, three blocks of two slots,
encoder inputs of up to 3 tokens (so a sequence spans two blocks and a
reused block has a stale tail), the token key `k1` against the zero key
`k0` of never-written slots, two queries; symmetry over blocks and
sequences. The batch order of the prefill is any order (sound under the
symmetry). It reaches 27741 distinct states in about 70 seconds. Inputs of
1 and 3 tokens in one batch are the smallest that pass the divisibility
assert with different lengths.

**AttentionDispatch bounds.** Head counts 2 and 3 over 1 and 2 KV heads
(so grouped-query heads, equal heads and a count the assert rejects all
occur), both values of every flag, the three attention types, batch 2 and
prompt length 3 for the bias shapes: every combination of the
constructor's checks and of the call's metadata, 1152 initial states. One
layer is constructed and called once, so a final state has no successor
and the cfgs say `CHECK_DEADLOCK FALSE`.

**LlamaSplit bounds.** Three layers (so that layer 0, a middle layer and
the last layer all occur), batches of 1, 2 or 4 prompts of 1 or 2 blocks of
2 tokens, batch splits 1 and 2, sequence splits 1, 2 and 4, and both values
of the two boolean flags. The size threshold of the split path (4*1024*8192
elements) is scaled to 4 tokens, so that both the single-row and the split
path occur; the point where `VLLM_TP_SPLIT_SIZE_BY_SEQ` switches from a
slice count to a slice length (128) is scaled to 8, above every value
checked. The violation runs narrow the flags to the configuration that
shows the disagreement. A forward call ends by returning or raising, so the
LlamaSplit cfgs say `CHECK_DEADLOCK FALSE`: a finished call is a state with
no successor.

**LlamaLifecycle bounds.** The three-layer model of the LlamaSplit bounds,
on the whole-model rank `<<0, 3>>` and the four ranks of two-stage
pipelines, with both values of `split_qk_v`, `split_gate_up`, the
kv-cache scheme and tied embeddings: 80 initial states, 22816 distinct
states in about 50 seconds. The pipeline ranks stop at `Construct`, as the
code does; every load and forward step runs on the whole-model rank. So
`SkipMissing` and `LoadKeyError`, which only a pipeline rank can take, are
kept in `LlamaLoadWeights` as the code has them but no run reaches them.
`construct_pipeline` checks `ConstructReturns` on the same ranks with the
flags narrowed to one value each.

**Mutants.** Every property of a passing run is shown to catch a plausible
slip in the code:
- the prompt's partly filled last block not allocated;
- `block_bias` not added;
- the block sums not aggregated over the sequence (`block2batch`/`batch2block` dropped), caught by `PoliciesAgree`;
- the layer loop bound inclusive (one layer past the rank's range);
- the loops of `try_split_forward` skipping the last part;
- the cross bias masking whole blocks only;
- the cross block table kept at finish;
- the merged-prefill branch that keeps the bias under FusedSDPA dropped;
- the prompt's bias assert and ALiBi add done after the kernel call;
- the `break` after a stacked shard's load dropped, so the for-else loads
  the fused parameter again as a whole;

**Fairness.** There is none, and there are no liveness properties. Every
call is synchronous and bounded (spec.md 5), and the engine may stop
issuing calls at any time. Inside a call nothing waits: the layer loop of
`LlamaModel.forward` and the loops of `try_split_forward` are `for` loops
over finite ranges, so "the call eventually returns or raises" holds of
the code by construction and would only test the model's own program
counter; no run states it. Deadlock is still checked, because `Finish` and
`Prompt` are always possible in some form.

## 5. Plan

The modules are built in this order:

1. The arithmetic, the metadata, the kernel and the cache. Done.
2. The facade over a run of steps and its refinement. Done.
3. `LlamaSplit`: the layer-stack split protocol of `llama.py`. Done for
   row preservation and the tensor-or-list agreement; the pipeline ranks
   cannot be constructed (`construct_pipeline`), so the module's
   rank-dependent paths are run on the whole-model rank only.
   Still to do: the per-slice alignment of `block_offsets`, `seq_lens` and
   `attn_bias` with the hidden-state slices.
4. The facade's remaining paths. Done in `AttentionDispatch` for the
   `kv_cache` None prompt, the prefix prompt's dispatch and the ALiBi bias
   shape, and in `EncDecAttention` for the `(num_prefills, -1)` view of the
   cross prefill. `swap_blocks` is left out (section 6).
5. Grouped-query head mapping inside the kernels (one head is modelled).
6. Cross-policy agreement (`PoliciesAgree`). Done: the constant-shift
   output agrees with the running-max output within a quarter on in-range
   scores (`const_pa`) and is 0 where exp underflows
   (`const_pa_underflow`).
7. Weight loading and its composition with the forward call
   (`LlamaLoadWeights`, `LlamaLifecycle`). Done.

## 6. Not modelled, and why

- **External kernels.** The prompt kernels (`ops.prompt_attention`, FusedSDPA,
  `forward_prefix`) are outside `src/`. `AttentionDispatch` models which
  of them a call reaches and what it hands them; `EncDecAttention` records
  which rows the cross prefill attends over. Their arithmetic is not
  modelled. That FusedSDPA gets no valid lengths in a merged prefill
  (spec.md 4.3 asks for them) is harmless while the caller's block-diagonal
  `attn_bias` separates the segments, which `PromptKernelSeparatesSequences`
  checks is handed over.
- **Liveness.** See Fairness in section 4: a call contains no waiting,
  and its loops are over finite ranges.
- **Tensor parallelism, rotary embeddings and projections.** These are
  linear algebra with no protocol state. The tensor contents of weight
  loading (sharding along the tensor-parallel dimension inside
  `weight_loader`) are outside `src/`; the model records which shard is
  written.
- **Load paths the modelled checkpoint does not take.** The GPTQ extra-bias
  skips (665-667, 677-679) and the FP8 kv-scale remap
  (`maybe_remap_kv_scale_name`, outside `src/`): the modelled checkpoint has
  no biases and no FP8 scales. `load_kv_cache_scales` (700-719), which
  reads a separate scale file, is not modelled: `LlamaAttention` has no
  `kv_scale` attribute, so the `hasattr` test at 716 fails on the first
  layer and the function always raises `RuntimeError`, with no state to
  explore.
- **`swap_blocks`.** A one-line delegation (182-188) that copies whole
  blocks between the device cache and a host cache at preemption. A host
  cache and preempted sequences would multiply the state space of the
  HPUAttention runs; the whole-block copy itself is the one `copy_blocks`
  performs, which the runs check.
- **Per-slice metadata alignment on its own** (`llama.py` 484-494). With
  the runner's padded prompt batch the count-based chunks of
  `block_indices`, `seq_lens_tensor` and `attn_bias` line up with the
  hidden-state chunks exactly when the batch divides by the split; when it
  does not, rows are dropped, which `split_ragged_batch` shows. Only
  `block_indices` is split in the model, because its length is what
  `HPUAttentionImpl.forward` checks.
- **`wsum_head_amax`.** It is dead code.
- **bf16 rounding of finite values.** It is abstracted to exact rationals.
  The properties compare results computed in the same order.
- **`LlamaForCausalLM`.** Logits and sampling delegate to external
  modules; its `load_weights` only drops `lm_head` when tied and renames
  Mistral checkpoint names by string replacement before
  `LlamaModel.load_weights`; none of it has protocol state.

## 7. Findings

- **`const_pa_overflow`** (`hpu_attn.py:104`): one sequence whose exp
  overflows turns every sequence of the decode batch into NaN, through the
  0 entries of the one-hot `block2batch` product.
- **`const_pa_underflow`** (`hpu_attn.py:99`): `pipelined_const_pa`
  subtracts the fixed `const_val`, so a sequence whose scores all lie more
  than the exp range below it has every weight flushed to zero; the eps
  floor keeps the denominator positive and the output is 0, where the
  running-max policy gives the average of the sequence's values (spec.md
  4.3: the policies agree within a small tolerance). On in-range scores the
  `const_pa` run shows they do agree.
- **`split_ragged_batch`** (`llama.py:467`): `split_tensor` cuts chunks of
  `size // split` rows and the loops take only `split` of them, so a batch
  that is not a multiple of `VLLM_TP_SPLIT_SIZE_BY_BATCH` loses its trailing
  prompts without an error.
- **`split_oproj_off`** (`llama.py:427`): the decoder layer expects a list
  of slices whenever a sequence split and `OUTPUT_SLICE` are on, but
  `LlamaAttention` returns one only when `VLLM_TP_O_PROJ_SPLIT_ENABLE` is on
  too; the configuration is accepted at construction and raises at the
  first prompt (spec.md 7 asks for construction-time errors).
- **`encdec_prefill_view`** (`hpu_attn.py:462`): the cross prefill asserts
  only that the encoder key tokens divide evenly among the prefills and
  views them as `(num_prefills, -1)`; inputs of 1 and 3 tokens become two
  rows of 2, so the first prefill's output attends over its own token and
  the second sequence's first token, and the second prefill's over the
  second sequence without its first token. In the trace every token has
  the same key, so only the rows' membership shows it.
- **`dispatch_calls_return`** (`hpu_attn.py:371`): ALiBi with fewer KV heads
  than heads passes the constructor and every prompt call raises in
  `add_`, because `_make_alibi_bias` returns a 5-D bias (spec.md 7 asks for
  construction-time errors).
- **`construct_pipeline`** (`llama.py:571`): `LlamaModel.__init__` calls
  `set_total_num_layers` on every entry of the list `make_layers` returns,
  and the entries outside the rank's range are `PPMissingLayer`s without
  that method, so no rank of a pipeline can be constructed, although
  `forward` and `load_weights` are written for pipeline ranks. Two defects
  stay masked behind it until it is fixed: `try_split_forward` splits at
  layer 0 and concatenates at `total_num_layers - 1` (521), not at the
  rank's bounds, so a rank ending before the last layer would hand on
  lists of slices; and the kv-scale branch (654) indexes `params_dict`
  without the pipeline check, so a scale of a layer held elsewhere would
  raise `KeyError`.
