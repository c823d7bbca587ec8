--------------------------- MODULE LogicalAttention ---------------------------
(***************************************************************************)
(* What the attention layer promises, without blocks: every sequence has a *)
(* contiguous list of key/value tokens; a prompt sets it, a decode step    *)
(* appends one token to each sequence of the batch and yields, for each,   *)
(* the softmax-weighted sum of the values of all of its tokens computed    *)
(* directly over the contiguous list (spec.md 4.3 and the end-to-end       *)
(* scenarios of section 8); a fork gives a new sequence the same tokens    *)
(* (copy-on-write sharing); a finished sequence is emptied.                *)
(*                                                                         *)
(* The dense computation uses the same arithmetic and the same shift and  *)
(* division order as the selected policy: the promise is that paging the   *)
(* cache into blocks is invisible in the result.                           *)
(***************************************************************************)
EXTENDS SoftmaxArith, Sequences, Functions

CONSTANTS Seqs, Keys, Vals, Queries, Score, NoOut,
          MaxPrompt   \* longest prompt

LOCAL FS == INSTANCE FiniteSetsExt
LOCAL SX == INSTANCE SequencesExt

VARIABLES kv, out,
          query  \* query[s]: the query of the last decode step of s (NoOut before one)

vars == <<kv, out, query>>

Tokens == Keys \X Vals

(* softmax(scale * q.K + bias) . V over the contiguous tokens, with the   *)
(* eps-guarded denominator of spec.md 4.3, under normalisation policy pol. *)
DenseAttentionUnder(pol, toks, q) ==
  LET a     == [t \in DOMAIN toks |-> Score[q][toks[t][1]]]
      shift == IF pol = "pipelined" THEN FS!Max(Range(a)) ELSE ConstVal
      w     == [t \in DOMAIN toks |-> Exp(a[t] - shift)]
      v     == [t \in DOMAIN toks |-> FromNat(toks[t][2])]
      g     == FAdd(FSum(w), Eps)
  IN  IF pol = "const_norm"
      THEN FSum([t \in DOMAIN toks |-> FMul(FDiv(w[t], g), v[t])])
      ELSE FDiv(FSum([t \in DOMAIN toks |-> FMul(w[t], v[t])]), g)

DenseAttention(toks, q) == DenseAttentionUnder(Policy, toks, q)

Init ==
  /\ kv    = [s \in Seqs |-> <<>>]
  /\ out   = [s \in Seqs |-> NoOut]
  /\ query = [s \in Seqs |-> NoOut]

Admit(s, toks) ==
  /\ kv[s] = <<>>
  /\ toks # <<>>
  /\ kv'  = [kv EXCEPT ![s] = toks]
  /\ out' = [out EXCEPT ![s] = NoOut]
  /\ query' = [query EXCEPT ![s] = NoOut]

Decode(batch, tok, q) ==
  /\ batch # {}
  /\ \A s \in batch : kv[s] # <<>>
  /\ kv'  = [s \in Seqs |-> IF s \in batch THEN Append(kv[s], tok[s]) ELSE kv[s]]
  /\ out' = [s \in Seqs |-> IF s \in batch THEN DenseAttention(kv'[s], q[s]) ELSE out[s]]
  /\ query' = [s \in Seqs |-> IF s \in batch THEN q[s] ELSE query[s]]

Fork(s, t) ==
  /\ kv[s] # <<>>
  /\ kv[t] = <<>>
  /\ kv'  = [kv EXCEPT ![t] = kv[s]]
  /\ out' = [out EXCEPT ![t] = NoOut]
  /\ query' = [query EXCEPT ![t] = NoOut]

Finish(s) ==
  /\ kv[s] # <<>>
  /\ kv'  = [kv EXCEPT ![s] = <<>>]
  /\ out' = [out EXCEPT ![s] = NoOut]
  /\ query' = [query EXCEPT ![s] = NoOut]

Next ==
  \/ \E s \in Seqs : Finish(s)
  \/ \E s, t \in Seqs : Fork(s, t)
  \/ \E s \in Seqs : \E toks \in SX!BoundedSeq(Tokens, MaxPrompt) : Admit(s, toks)
  \/ \E batch \in SUBSET Seqs :
       \E tok \in [batch -> Tokens], q \in [batch -> Queries] : Decode(batch, tok, q)

Spec == Init /\ [][Next]_vars
=============================================================================
