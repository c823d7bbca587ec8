---------------------------- MODULE AttentionCore ----------------------------
(***************************************************************************)
(* The paged (decode) attention kernel of hpu_attn.py: flat_pa and the     *)
(* normalisations it dispatches to, pa (const_norm) and                    *)
(* pipelined_const_pa (const_pa), plus the extension's default             *)
(* pipelined_pa, modelled from spec.md 4.3 (running-max policy).           *)
(*                                                                         *)
(* Data abstraction: head_size 1 and one head (grouped-query heads are a   *)
(* separate module); a key is a model value and Score[q][k] is the scaled *)
(* product scale * q.k; a value is a small natural number.  The kernel is  *)
(* a pure function of the query of each sequence, the cache contents and   *)
(* the block-batch metadata.                                               *)
(***************************************************************************)
EXTENDS SoftmaxArith, Sequences

CONSTANTS Keys, Queries, Vals, Score, BlockSize

LOCAL FS == INSTANCE FiniteSetsExt
LOCAL BN == INSTANCE BatchNormalizer

Offsets == BN!Offsets

(* query = batch2block(scale * query); key = fetch(key_cache, block_list);*)
(* attn = matmul_qk(query, key) + block_bias.  The query of a position is *)
(* the query of its owning sequence.  (Variant: block_bias not added.)   *)
BlockScoresUnmasked(q, krow, brow) ==
  [o \in Offsets |-> Score[q][krow[o]]]

BlockScores(q, krow, brow) ==
  [o \in Offsets |-> IF brow[o] = NegInf THEN NegInf ELSE Score[q][krow[o]]]

(* attn.exp() after subtracting a shift per position. *)
Weights(attn, shift) ==
  [p \in DOMAIN attn |-> [o \in Offsets |-> Exp(Shift(attn[p][o], shift[p]))]]

(* sums = attn.sum(-1); group_sums = batch2block(block2batch(sums));     *)
(* group_sums.add_(eps_value); group_sums = maximum(block_sums, group).   *)

(* Mutant: the block2batch/batch2block aggregation dropped, so each block *)
(* is normalised by its own sum.                                          *)
GroupSumsPerBlock(w, own, batch) ==
  LET sums == [p \in DOMAIN w |-> FSum(w[p])]
  IN  [p \in DOMAIN w |-> FMax(sums[p], FAdd(sums[p], Eps))]

GroupSums(w, own, batch) ==
  LET sums  == [p \in DOMAIN w |-> FSum(w[p])]
      group == BN!Batch2Block(BN!Block2Batch(sums, own, batch), own)
  IN  [p \in DOMAIN w |-> FMax(sums[p], FAdd(group[p], Eps))]

ConstShift(attn) == [p \in DOMAIN attn |-> ConstVal]

(* pa: attn.div_(group_sums) and then matmul_av_op(attn, value). *)
PA(attn, value, own, batch) ==
  LET w == Weights(attn, ConstShift(attn))
      g == GroupSums(w, own, batch)
  IN  [p \in DOMAIN w |->
         FSum([o \in Offsets |-> FMul(FDiv(w[p][o], g[p]), FromNat(value[p][o]))])]

(* pipelined_const_pa: matmul_av_op(attn, value) and then div_(group_sums). *)
PipelinedConstPA(attn, value, own, batch) ==
  LET w == Weights(attn, ConstShift(attn))
      g == GroupSums(w, own, batch)
  IN  [p \in DOMAIN w |->
         FDiv(FSum([o \in Offsets |-> FMul(w[p][o], FromNat(value[p][o]))]), g[p])]

(* The running maximum of a sequence's unmasked scores (spec.md 4.3). *)
SeqMax(attn, own, s) ==
  FS!Max({ attn[p][o] : p \in { x \in DOMAIN attn : own[x] = s }, o \in Offsets }
            \ {NegInf})

(* ops.pipelined_pa, the default: subtract the per-sequence maximum, then *)
(* the same eps-guarded group sums and divide after the value product.   *)
PipelinedPA(attn, value, own, batch) ==
  LET w == Weights(attn, [p \in DOMAIN attn |-> SeqMax(attn, own, own[p])])
      g == GroupSums(w, own, batch)
  IN  [p \in DOMAIN w |->
         FDiv(FSum([o \in Offsets |-> FMul(w[p][o], FromNat(value[p][o]))]), g[p])]

(* flat_pa: scores per position, the selected normalisation, and          *)
(* block2batch of the per-position outputs into one output per sequence.  *)
FlatPA(q, kcache, vcache, blist, own, bias, batch) ==
  LET attn  == [p \in DOMAIN blist |-> BlockScores(q[own[p]], kcache[blist[p]], bias[p])]
      value == [p \in DOMAIN blist |-> vcache[blist[p]]]
      out   == CASE Policy = "const_pa"   -> PipelinedConstPA(attn, value, own, batch)
                 [] Policy = "const_norm" -> PA(attn, value, own, batch)
                 [] OTHER                 -> PipelinedPA(attn, value, own, batch)
  IN  BN!Block2Batch(out, own, batch)
=============================================================================
