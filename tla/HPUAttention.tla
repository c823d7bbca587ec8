---------------------------- MODULE HPUAttention ----------------------------
(***************************************************************************)
(* HPUAttentionImpl.forward (decoder self-attention) driven over the       *)
(* lifetime of a paged KV cache.  One forward call is one step:            *)
(*   - a prompt step writes the prompt's keys and values into whole blocks *)
(*     (the prompt attention itself reads only the new key/value tensors,  *)
(*     never the cache, and is not modelled here);                         *)
(*   - a decode step writes one key/value per sequence of the batch into   *)
(*     its slot and then runs flat_pa over the sequences' block tables.    *)
(* Between steps the engine forks sequences (blocks shared copy-on-write), *)
(* copies a shared block before a sequence writes into it                 *)
(* (HPUAttentionBackend.copy_blocks) and finishes sequences.  Block        *)
(* allocation, scheduling and the block-batch metadata are outside src/;   *)
(* they are modelled from spec.md (sections 3, 4.2 and 5).                 *)
(*                                                                         *)
(* The cache, read through the block tables, implements the contiguous    *)
(* token lists of LogicalAttention, and every decode output equals the     *)
(* dense computation over them.                                            *)
(***************************************************************************)
EXTENDS PagedCacheStore, SoftmaxArith, SequencesExt, FiniteSets, TLC

CONSTANTS
  Seqs,       \* sequence ids
  Queries,    \* query vectors (model values)
  Score,      \* Score[q][k] = scale * q.k, an integer exponent
  TokenKeys,  \* keys a generated or prompt token can have
  PadTok,     \* key/value pair of the padding token of a prompt's last block
  NoOut,      \* no decode output yet
  MaxLen,     \* longest sequence (bounds the model)
  MaxPrompt   \* longest prompt (bounds the model)

ASSUME TokenKeys \subseteq Keys /\ PadTok \in Keys \X Vals
ASSUME MaxPrompt \in 1 .. MaxLen

VARIABLES
  table,   \* table[s]: block table of sequence s (block of token i at i \div BlockSize + 1)
  len,     \* len[s]: tokens of sequence s in the cache (seq_lens); 0 = free
  out,     \* out[s]: the output of the last decode step that included s
  query    \* query[s]: the query row of s in that step (NoOut before one)

vars == <<kcache, vcache, table, len, out, query>>

Core == INSTANCE AttentionCore
BN   == INSTANCE BatchNormalizer

Tokens == TokenKeys \X Vals

(***************************************************************************)
(* Engine state outside src/ (spec.md 3, 5): block tables and allocation. *)
(***************************************************************************)
Live == { s \in Seqs : len[s] > 0 }

NumBlocks(n) == (n + BlockSize - 1) \div BlockSize

FreeBlocks == Blocks \ UNION { Range(table[s]) : s \in Seqs }

Owners(b) == { s \in Seqs : b \in Range(table[s]) }

(* Injective choices of free blocks for the elements of D. *)
Allocations(D) == { f \in [D -> FreeBlocks] : IsInjective(f) }

(* The slot of the next token of s lies in its last, partly filled block. *)
AppendsInPlace(s) == len[s] % BlockSize # 0

TypeOK ==
  /\ CacheTypeOK
  /\ table \in [Seqs -> Seq(Blocks)]
  /\ len \in [Seqs -> 0 .. MaxLen]
  /\ \A s \in Seqs : Len(table[s]) = NumBlocks(len[s])
  /\ out \in [Seqs -> Number \cup {NoOut}]
  /\ query \in [Seqs -> Queries \cup {NoOut}]

Init ==
  /\ CacheInit
  /\ table = [s \in Seqs |-> <<>>]
  /\ len   = [s \in Seqs |-> 0]
  /\ out   = [s \in Seqs |-> NoOut]
  /\ query = [s \in Seqs |-> NoOut]

(***************************************************************************)
(* forward, prompt run: key/value are unflattened to whole blocks and     *)
(* written with block_indices (no offsets); the slots of the last block   *)
(* past the prompt hold the padding token.                                *)
(***************************************************************************)
PromptRows(toks, nb) ==
  [j \in 1 .. nb |-> [o \in Offsets |->
     IF (j - 1) * BlockSize + o < Len(toks) THEN toks[(j - 1) * BlockSize + o + 1]
     ELSE PadTok]]

(* Variant: block_indices sized by a floor division, the prompt's last,  *)
(* partly filled block not allocated.                                     *)
PromptFloorBlocks(s, toks) ==
  /\ len[s] = 0
  /\ \E idx \in Allocations(1 .. Len(toks) \div BlockSize) :
       LET rows == PromptRows(toks, Len(toks) \div BlockSize) IN
       /\ kcache' = WriteBlocks(kcache, idx, [j \in DOMAIN rows |-> [o \in Offsets |-> rows[j][o][1]]])
       /\ vcache' = WriteBlocks(vcache, idx, [j \in DOMAIN rows |-> [o \in Offsets |-> rows[j][o][2]]])
       /\ table'  = [table EXCEPT ![s] = idx]
  /\ len' = [len EXCEPT ![s] = Len(toks)]
  /\ out' = [out EXCEPT ![s] = NoOut]
  /\ query' = [query EXCEPT ![s] = NoOut]

Prompt(s, toks) ==
  /\ len[s] = 0
  /\ \E idx \in Allocations(1 .. NumBlocks(Len(toks))) :
       LET rows == PromptRows(toks, NumBlocks(Len(toks))) IN
       /\ kcache' = WriteBlocks(kcache, idx, [j \in DOMAIN rows |-> [o \in Offsets |-> rows[j][o][1]]])
       /\ vcache' = WriteBlocks(vcache, idx, [j \in DOMAIN rows |-> [o \in Offsets |-> rows[j][o][2]]])
       /\ table'  = [table EXCEPT ![s] = idx]
  /\ len' = [len EXCEPT ![s] = Len(toks)]
  /\ out' = [out EXCEPT ![s] = NoOut]
  /\ query' = [query EXCEPT ![s] = NoOut]

(***************************************************************************)
(* forward, decode run: a new block for every sequence whose last block   *)
(* is full, the new key/value of each sequence written at                 *)
(* (block_indices, block_offsets), then flat_pa over the block tables.    *)
(* The scheduler copies a shared last block before the step (CopyOnWrite) *)
(* so that no sequence writes into a block another sequence reads.        *)
(***************************************************************************)
DecodeStep(batch, tok, q, nb) ==
  LET need   == DOMAIN nb
      table2 == [s \in Seqs |-> IF s \in need THEN Append(table[s], nb[s]) ELSE table[s]]
      len2   == [s \in Seqs |-> IF s \in batch THEN len[s] + 1 ELSE len[s]]
      idx    == [s \in batch |-> table2[s][len[s] \div BlockSize + 1]]
      off    == [s \in batch |-> len[s] % BlockSize]
      kc     == WriteSlots(kcache, idx, off, [s \in batch |-> tok[s][1]])
      vc     == WriteSlots(vcache, idx, off, [s \in batch |-> tok[s][2]])
      res    == Core!FlatPA(q, kc, vc, BN!BlockList(batch, table2),
                            BN!BlockMapping(batch, table2),
                            BN!BlockBias(batch, table2, len2), batch)
  IN  /\ kcache' = kc
      /\ vcache' = vc
      /\ table'  = table2
      /\ len'    = len2
      /\ out'    = [s \in Seqs |-> IF s \in batch THEN res[s] ELSE out[s]]
      /\ query'  = [s \in Seqs |-> IF s \in batch THEN q[s] ELSE query[s]]

Decode(batch) ==
  /\ batch # {}
  /\ batch \subseteq Live
  /\ \A s \in batch : len[s] < MaxLen
  /\ \A s \in batch : AppendsInPlace(s) => Owners(Last(table[s])) = {s}
  /\ \E nb \in Allocations({ s \in batch : ~AppendsInPlace(s) }) :
     \E tok \in [batch -> Tokens], q \in [batch -> Queries] :
       DecodeStep(batch, tok, q, nb)

(***************************************************************************)
(* Engine steps between forward calls.                                    *)
(***************************************************************************)
(* A new sequence sharing all blocks of s (parallel sampling). *)
Fork(s, t) ==
  /\ len[s] > 0
  /\ len[t] = 0
  /\ table' = [table EXCEPT ![t] = table[s]]
  /\ len'   = [len EXCEPT ![t] = len[s]]
  /\ out'   = [out EXCEPT ![t] = NoOut]
  /\ query' = [query EXCEPT ![t] = NoOut]
  /\ UNCHANGED <<kcache, vcache>>

(* copy_blocks(kv_caches, {last -> fresh}) for a shared, partly filled    *)
(* last block, and the block table of s moved to the copy.               *)
CopyOnWrite(s) ==
  /\ AppendsInPlace(s)
  /\ Owners(Last(table[s])) # {s}
  /\ \E nb \in FreeBlocks :
       /\ kcache' = CopyBlocks(kcache, Last(table[s]) :> nb)
       /\ vcache' = CopyBlocks(vcache, Last(table[s]) :> nb)
       /\ table'  = [table EXCEPT ![s][Len(table[s])] = nb]
  /\ UNCHANGED <<len, out, query>>

(* A finished sequence releases its blocks; their contents stay. *)
Finish(s) ==
  /\ len[s] > 0
  /\ table' = [table EXCEPT ![s] = <<>>]
  /\ len'   = [len EXCEPT ![s] = 0]
  /\ out'   = [out EXCEPT ![s] = NoOut]
  /\ query' = [query EXCEPT ![s] = NoOut]
  /\ UNCHANGED <<kcache, vcache>>

Next ==
  \/ \E s \in Seqs : \E n \in 1 .. MaxPrompt : \E toks \in [1 .. n -> Tokens] : Prompt(s, toks)
  \/ \E batch \in SUBSET Seqs : Decode(batch)
  \/ \E s, t \in Seqs : Fork(s, t)
  \/ \E s \in Seqs : CopyOnWrite(s)
  \/ \E s \in Seqs : Finish(s)

Spec == Init /\ [][Next]_vars

(***************************************************************************)
(* Refinement: the token list of s is read from the cache through its     *)
(* block table, token i (1-based) at slot (table[s][(i-1) \div BlockSize  *)
(* + 1], (i-1) % BlockSize).                                              *)
(***************************************************************************)
CachedToken(s, i) ==
  LET b == table[s][(i - 1) \div BlockSize + 1]
      o == (i - 1) % BlockSize
  IN  <<kcache[b][o], vcache[b][o]>>

AbsKV == [s \in Seqs |-> [i \in 1 .. len[s] |-> CachedToken(s, i)]]

Logical == INSTANCE LogicalAttention WITH kv <- AbsKV, out <- out, query <- query

(* Every step of the paged implementation (prompt writes, decode writes  *)
(* followed by flat_pa, fork, copy-on-write, finish) is a step of the     *)
(* contiguous LogicalAttention: no write disturbs a token another         *)
(* sequence can read, and every decode output equals the dense softmax    *)
(* over the sequence's own tokens, whatever stale or padding contents     *)
(* the blocks hold past the sequence's end.                              *)
RefinesLogicalAttention == Logical!Spec

(* spec.md 4.3: for all normalisation policies the outputs agree within a *)
(* small tolerance.  Every decode output of the selected policy (flat_pa   *)
(* with pipelined_const_pa or pa, 96-111 and 77-94) lies within a quarter  *)
(* of what the running-max policy gives for the same tokens and query:   *)
(* the constant shift must neither flush a sequence's weights to zero nor *)
(* leave them so small that the eps floor dominates.                      *)
AgreeTolerance == 4

Close(a, b) ==
  /\ a.k = "fin" /\ b.k = "fin"
  /\ LET diff == a.n * b.d - b.n * a.d
     IN  AgreeTolerance * (IF diff < 0 THEN -diff ELSE diff) <= b.n * a.d

PoliciesAgree ==
  \A s \in Seqs : out[s] # NoOut =>
    Close(out[s], Logical!DenseAttentionUnder("pipelined", AbsKV[s], query[s]))
=============================================================================
