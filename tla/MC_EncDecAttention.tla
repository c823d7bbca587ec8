--------------------------- MODULE MC_EncDecAttention ---------------------------
(* Model-checking instance of EncDecAttention: two sequences, three      *)
(* blocks of two slots, the zero key k0 of never-written slots, the       *)
(* encoder token key k1, two queries.  Scores are exponents: with         *)
(* ExpLo = -3 a weight 2^e is 2^(e+3) units of the smallest normal number. *)
EXTENDS EncDecAttention

CONSTANTS k0, k1, q1, q2, s1, s2, b1, b2, b3

MCSeqs    == {s1, s2}
MCBlocks  == {b1, b2, b3}
MCKeys    == {k0, k1}
MCQueries == {q1, q2}

(* In-range scores: no exp overflows and no sum exceeds MaxFinite; the  *)
(* never-written key k0 scores differently from k1 under both queries. *)
MCScore ==
  [q \in MCQueries |-> [k \in MCKeys |->
     CASE k = k0 -> 0
       [] k = k1 -> IF q = q1 THEN 1 ELSE -1]]

MCTokenKeys == {k1}
MCExpLo == -3

MCSymmetry == Permutations(MCBlocks) \cup Permutations(MCSeqs)
=============================================================================
