------------------------- MODULE LogicalCrossAttention -------------------------
(***************************************************************************)
(* What the cross-attention layer of an encoder-decoder model promises,   *)
(* without blocks: the prefill of a sequence fixes its list of encoder    *)
(* key/value tokens; every later decode step of the sequence attends to   *)
(* exactly that list (the cross key/value are not appended to), with the  *)
(* dense softmax of LogicalAttention; a finished sequence is emptied.     *)
(* The cross block tables are a separate numbering (spec.md 4.4).         *)
(***************************************************************************)
EXTENDS SoftmaxArith, Sequences

CONSTANTS Seqs, Keys, Vals, Queries, Score, NoOut,
          MaxPrompt   \* longest encoder input

VARIABLES ckv, out, query,
          kvin   \* kvin[s]: the encoder key/value the prefill of s was called with

LA == INSTANCE LogicalAttention WITH kv <- ckv, out <- out, query <- query

Init ==
  /\ ckv   = [s \in Seqs |-> <<>>]
  /\ kvin  = [s \in Seqs |-> <<>>]
  /\ out   = [s \in Seqs |-> NoOut]
  /\ query = [s \in Seqs |-> NoOut]

(* The sequences of batch, without cross state, take the nonempty        *)
(* encoder key/value they are called with as their token lists.          *)
Prefill(batch) ==
  /\ batch # {}
  /\ \A s \in batch : ckv[s] = <<>>
  /\ kvin' \in [Seqs -> Seq(Keys \X Vals)]
  /\ \A s \in batch : kvin'[s] # <<>> /\ Len(kvin'[s]) <= MaxPrompt
  /\ \A s \in Seqs \ batch : kvin'[s] = kvin[s]
  /\ ckv'   = [s \in Seqs |-> IF s \in batch THEN kvin'[s] ELSE ckv[s]]
  /\ out'   = [s \in Seqs |-> IF s \in batch THEN NoOut ELSE out[s]]
  /\ query' = [s \in Seqs |-> IF s \in batch THEN NoOut ELSE query[s]]

Decode(batch, q) ==
  /\ batch # {}
  /\ \A s \in batch : ckv[s] # <<>>
  /\ out'   = [s \in Seqs |-> IF s \in batch THEN LA!DenseAttention(ckv[s], q[s]) ELSE out[s]]
  /\ query' = [s \in Seqs |-> IF s \in batch THEN q[s] ELSE query[s]]
  /\ UNCHANGED <<ckv, kvin>>

Finish(s) ==
  /\ ckv[s] # <<>>
  /\ ckv'   = [ckv EXCEPT ![s] = <<>>]
  /\ kvin'  = [kvin EXCEPT ![s] = <<>>]
  /\ out'   = [out EXCEPT ![s] = NoOut]
  /\ query' = [query EXCEPT ![s] = NoOut]

Next ==
  \/ \E batch \in SUBSET Seqs : Prefill(batch)
  \/ \E batch \in SUBSET Seqs : \E q \in [batch -> Queries] : Decode(batch, q)
  \/ \E s \in Seqs : Finish(s)

Spec == Init /\ [][Next]_<<ckv, kvin, out, query>>
=============================================================================
