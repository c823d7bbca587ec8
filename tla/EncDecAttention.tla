--------------------------- MODULE EncDecAttention ---------------------------
(***************************************************************************)
(* HPUAttentionImpl.forward_encoder_decoder: the cross-attention layer of *)
(* an encoder-decoder model, over a run of forward calls.  The prefill    *)
(* call of a batch writes the encoder key/value of every sequence into    *)
(* the layer's cache at (cross_block_indices, cross_block_offsets); a     *)
(* decode call gets key and value None, writes nothing, and attends over  *)
(* the cache through the cross block tables (cross_block_list, _mapping,  *)
(* cross_attn_bias).  The cross tables are fixed at prefill and released  *)
(* when the sequence finishes; released blocks keep their contents.       *)
(***************************************************************************)
EXTENDS PagedCacheStore, SoftmaxArith, SequencesExt, FiniteSets

CONSTANTS
  Seqs,       \* sequence ids
  Queries,    \* query vectors (model values)
  Score,      \* Score[q][k] = scale * q.k, an integer exponent
  TokenKeys,  \* keys an encoder token can have
  NoOut,      \* no decode output yet
  MaxPrompt   \* longest encoder input (bounds the model)

VARIABLES
  ctable,  \* ctable[s]: cross block table of s
  elen,    \* elen[s]: encoder tokens of s in the cache; 0 = no cross state
  out,     \* out[s]: the output of the last decode step that included s
  query,   \* query[s]: the query row of s in that step (NoOut before one)
  kvin,    \* kvin[s]: the encoder key/value the prefill of s was called with
  pattn    \* pattn[s]: the encoder key/value rows the prefill output of s
           \* attended over

vars == <<kcache, vcache, ctable, elen, out, query, kvin, pattn>>

Core == INSTANCE AttentionCore
BN   == INSTANCE BatchNormalizer

Tokens == TokenKeys \X Vals

(***************************************************************************)
(* Engine state outside src/: cross block allocation and slot numbering.  *)
(***************************************************************************)
Live == { s \in Seqs : elen[s] > 0 }

NumBlocks(n) == (n + BlockSize - 1) \div BlockSize

FreeBlocks == Blocks \ UNION { Range(ctable[s]) : s \in Seqs }

(* Position of encoder token t (1-based) in a block table: the index of  *)
(* its block in the table and its offset in the block, as the runner     *)
(* computes cross_block_indices and cross_block_offsets.                 *)
SlotOf(t) == <<(t - 1) \div BlockSize + 1, (t - 1) % BlockSize>>

TypeOK ==
  /\ CacheTypeOK
  /\ ctable \in [Seqs -> Seq(Blocks)]
  /\ elen \in [Seqs -> 0 .. MaxPrompt]
  /\ \A s \in Seqs : Len(ctable[s]) = NumBlocks(elen[s])
  /\ out \in [Seqs -> Number \cup {NoOut}]
  /\ query \in [Seqs -> Queries \cup {NoOut}]
  /\ kvin \in [Seqs -> Seq(Tokens)]
  /\ pattn \in [Seqs -> Seq(Tokens)]

Init ==
  /\ CacheInit
  /\ ctable = [s \in Seqs |-> <<>>]
  /\ elen   = [s \in Seqs |-> 0]
  /\ out    = [s \in Seqs |-> NoOut]
  /\ query  = [s \in Seqs |-> NoOut]
  /\ kvin   = [s \in Seqs |-> <<>>]
  /\ pattn  = [s \in Seqs |-> <<>>]

(***************************************************************************)
(* forward_encoder_decoder, prompt run (453-486): num_prefills > 0 and    *)
(* the key tokens divide evenly among the prefills (the asserts at        *)
(* 459-461); with kv_cache given and key not None every encoder token is  *)
(* written at its slot.  The prompt output (488-512) is ops.prompt_attention *)
(* over key.view(num_prefills, -1, ...): the encoder tokens of the batch,  *)
(* concatenated in the runner's batch order, cut into num_prefills equal   *)
(* rows, with an all-zero bias that masks nothing.  Its arithmetic is the  *)
(* dense softmax; what is recorded is the rows each sequence attends over. *)
(***************************************************************************)
(* kv_shape = (batch_size, -1, ...): row i of the view of the key tokens *)
(* concatenated in the order ord.                                        *)
PrefillRows(enc, ord) ==
  LET cat == FlattenSeq([i \in 1 .. Len(ord) |-> enc[ord[i]]])
      w   == Len(cat) \div Len(ord)
  IN  [i \in 1 .. Len(ord) |-> SubSeq(cat, (i - 1) * w + 1, i * w)]

CrossPrefill(batch, enc) ==
  LET blocks == UNION { {s} \X (1 .. NumBlocks(Len(enc[s]))) : s \in batch }
      toks   == UNION { {s} \X (1 .. Len(enc[s])) : s \in batch }
  IN
  /\ batch # {}
  /\ \A s \in batch : elen[s] = 0
  /\ MapThenSumSet(LAMBDA s : Len(enc[s]), batch) % Cardinality(batch) = 0
  /\ \E f \in [blocks -> FreeBlocks] :
       /\ IsInjective(f)
       /\ LET idx == [p \in toks |-> f[<<p[1], SlotOf(p[2])[1]>>]]
              off == [p \in toks |-> SlotOf(p[2])[2]]
          IN  /\ kcache' = WriteSlots(kcache, idx, off, [p \in toks |-> enc[p[1]][p[2]][1]])
              /\ vcache' = WriteSlots(vcache, idx, off, [p \in toks |-> enc[p[1]][p[2]][2]])
       /\ ctable' = [s \in Seqs |->
                      IF s \in batch THEN [j \in 1 .. NumBlocks(Len(enc[s])) |-> f[<<s, j>>]]
                      ELSE ctable[s]]
  /\ elen'  = [s \in Seqs |-> IF s \in batch THEN Len(enc[s]) ELSE elen[s]]
  /\ out'   = [s \in Seqs |-> IF s \in batch THEN NoOut ELSE out[s]]
  /\ query' = [s \in Seqs |-> IF s \in batch THEN NoOut ELSE query[s]]
  /\ kvin'  = [s \in Seqs |-> IF s \in batch THEN enc[s] ELSE kvin[s]]
  /\ \E ord \in SetToSeqs(batch) :
       LET rows == PrefillRows(enc, ord) IN
       pattn' = [s \in Seqs |->
                  IF s \in batch THEN rows[CHOOSE i \in 1 .. Len(ord) : ord[i] = s]
                  ELSE pattn[s]]

(***************************************************************************)
(* forward_encoder_decoder, decode run (514-539): key and value are None, *)
(* nothing is written, and forward_decode runs the paged kernel over the  *)
(* cross block list, mapping and bias.                                    *)
(***************************************************************************)
(* Variant: cross_attn_bias masking whole blocks only, not the unused    *)
(* tail of a sequence's last block.                                      *)
CrossDecodeUnmaskedTail(batch, q) ==
  /\ batch # {}
  /\ batch \subseteq Live
  /\ LET full == [s \in Seqs |-> NumBlocks(elen[s]) * BlockSize]
         res  == Core!FlatPA(q, kcache, vcache, BN!BlockList(batch, ctable),
                             BN!BlockMapping(batch, ctable),
                             BN!BlockBias(batch, ctable, full), batch)
     IN  out' = [s \in Seqs |-> IF s \in batch THEN res[s] ELSE out[s]]
  /\ query' = [s \in Seqs |-> IF s \in batch THEN q[s] ELSE query[s]]
  /\ UNCHANGED <<kcache, vcache, ctable, elen, kvin, pattn>>

CrossDecode(batch, q) ==
  /\ batch # {}
  /\ batch \subseteq Live
  /\ LET res == Core!FlatPA(q, kcache, vcache, BN!BlockList(batch, ctable),
                            BN!BlockMapping(batch, ctable),
                            BN!BlockBias(batch, ctable, elen), batch)
     IN  out' = [s \in Seqs |-> IF s \in batch THEN res[s] ELSE out[s]]
  /\ query' = [s \in Seqs |-> IF s \in batch THEN q[s] ELSE query[s]]
  /\ UNCHANGED <<kcache, vcache, ctable, elen, kvin, pattn>>

(* Variant: the cross block table is not released at finish. *)
FinishKeepTable(s) ==
  /\ elen[s] > 0
  /\ elen'  = [elen EXCEPT ![s] = 0]
  /\ out'   = [out EXCEPT ![s] = NoOut]
  /\ query' = [query EXCEPT ![s] = NoOut]
  /\ kvin'  = [kvin EXCEPT ![s] = <<>>]
  /\ pattn' = [pattn EXCEPT ![s] = <<>>]
  /\ UNCHANGED <<kcache, vcache, ctable>>

(* A finished sequence releases its cross blocks; their contents stay. *)
Finish(s) ==
  /\ elen[s] > 0
  /\ ctable' = [ctable EXCEPT ![s] = <<>>]
  /\ elen'   = [elen EXCEPT ![s] = 0]
  /\ out'    = [out EXCEPT ![s] = NoOut]
  /\ query'  = [query EXCEPT ![s] = NoOut]
  /\ kvin'   = [kvin EXCEPT ![s] = <<>>]
  /\ pattn'  = [pattn EXCEPT ![s] = <<>>]
  /\ UNCHANGED <<kcache, vcache>>

Next ==
  \/ \E batch \in SUBSET Seqs :
       \E enc \in [batch -> UNION { [1 .. n -> Tokens] : n \in 1 .. MaxPrompt }] :
         CrossPrefill(batch, enc)
  \/ \E batch \in SUBSET Seqs : \E q \in [batch -> Queries] : CrossDecode(batch, q)
  \/ \E s \in Seqs : Finish(s)

Spec == Init /\ [][Next]_vars

(***************************************************************************)
(* Refinement: encoder token i of s is read through the cross block table *)
(* in the layout flat_pa reads a block list in.                           *)
(***************************************************************************)
CachedToken(s, i) ==
  LET b == ctable[s][(i - 1) \div BlockSize + 1]
      o == (i - 1) % BlockSize
  IN  <<kcache[b][o], vcache[b][o]>>

AbsCKV == [s \in Seqs |-> [i \in 1 .. elen[s] |-> CachedToken(s, i)]]

LogicalCross == INSTANCE LogicalCrossAttention WITH ckv <- AbsCKV, out <- out, query <- query,
                                                 kvin <- kvin

(* The paged cross-attention layer keeps every sequence's encoder key/value *)
(* as the prefill wrote it, across later prefills into reused blocks and   *)
(* finishes, and every decode output equals the dense softmax over the     *)
(* sequence's own encoder tokens, whatever stale contents the unused tail  *)
(* of its last cross block holds.                                          *)
RefinesLogicalCrossAttention == LogicalCross!Spec

(* The prefill output of every live sequence attends over exactly the    *)
(* encoder key/value that sequence was called with (spec.md 4.3, dense   *)
(* path: softmax over each sequence's own keys), which the (num_prefills, *)
(* -1) view of forward_encoder_decoder gives only for inputs of one length. *)
PrefillAttendsOwnEncoder == \A s \in Live : pattn[s] = kvin[s]
=============================================================================
