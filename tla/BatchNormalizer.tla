--------------------------- MODULE BatchNormalizer ---------------------------
(***************************************************************************)
(* The block-batch metadata of a decode step (block_list, block_mapping,   *)
(* block_bias) built from the ragged per-sequence block tables, and the    *)
(* block2batch / batch2block operators of vllm_hpu_extension.ops that      *)
(* flat_pa calls.  Neither is under src/: both are modelled from spec.md   *)
(* sections 3 and 4.2.                                                     *)
(*                                                                         *)
(* A position of block_list is a pair <<s, j>>: the j-th block of the      *)
(* block table of sequence s.  block_mapping is the one-hot matrix whose   *)
(* row for position p has its 1 in the column of the owning sequence, and  *)
(* block2batch / batch2block are the two matrix products with it.  As     *)
(* matrix products they multiply every entry by 0 or 1, and 0 * inf and   *)
(* 0 * NaN are NaN.                                                        *)
(***************************************************************************)
EXTENDS SoftmaxArith, Sequences

CONSTANT BlockSize

Offsets == 0 .. BlockSize - 1

(* The positions of block_list for the sequences of a batch. *)
Positions(batch, table) ==
  UNION { { <<s, j>> : j \in 1 .. Len(table[s]) } : s \in batch }

(* block_list: the physical block at each position. *)
BlockList(batch, table) ==
  [p \in Positions(batch, table) |-> table[p[1]][p[2]]]

(* block_mapping, in index form: the sequence owning each position. *)
BlockMapping(batch, table) ==
  [p \in Positions(batch, table) |-> p[1]]

(* block_bias: 0 on the slots holding one of the sequence's len[s]       *)
(* tokens, -inf on the slots past the end of the sequence.               *)
BlockBias(batch, table, len) ==
  [p \in Positions(batch, table) |->
     [o \in Offsets |-> IF (p[2] - 1) * BlockSize + o < len[p[1]] THEN 0 ELSE NegInf]]

(* Entry (p, s) of the one-hot block_mapping matrix. *)
OneHot(own, p, s) == IF own[p] = s THEN FromNat(1) ELSE Zero

(* ops.block2batch: block_mapping^T @ x, one value per sequence. *)
Block2Batch(x, own, batch) ==
  [s \in batch |-> FSum([p \in DOMAIN own |-> FMul(OneHot(own, p, s), x[p])])]

(* ops.batch2block: block_mapping @ y, one value per position. *)
Batch2Block(y, own) ==
  [p \in DOMAIN own |-> FSum([s \in DOMAIN y |-> FMul(OneHot(own, p, s), y[s])])]
=============================================================================
