--------------------------- MODULE MC_HPUAttention ---------------------------
(* Model-checking instance of HPUAttention: two sequences, three blocks  *)
(* of two slots, the zero key k0 of never-written slots, the token key k1, *)
(* the key k2 of the padding token, two queries.  Scores are exponents: with ExpLo = -3 a weight 2^e is     *)
(* 2^(e+3) units of the smallest normal number.                           *)
EXTENDS HPUAttention

CONSTANTS k0, k1, k2, q1, q2, s1, s2, b1, b2, b3

MCSeqs    == {s1, s2}
MCBlocks  == {b1, b2, b3}
MCKeys    == {k0, k1, k2}
MCQueries == {q1, q2}

(* In-range scores: no exp overflows and no sum exceeds MaxFinite; the    *)
(* score -4 of q2 against k2 flushes to zero under the constant shift.   *)
MCScore ==
  [q \in MCQueries |-> [k \in MCKeys |->
     CASE k = k0 -> 0
       [] k = k1 -> IF q = q1 THEN 1 ELSE -1
       [] k = k2 -> IF q = q1 THEN -1 ELSE -4]]

(* A score above ExpHi - ConstVal: under the constant shift,            *)
(* exp(q2.k1 - const_val) overflows to inf for a generated token.        *)
MCScoreOverflow ==
  [q \in MCQueries |-> [k \in MCKeys |->
     CASE k = k0 -> 0
       [] k = k1 -> IF q = q1 THEN 1 ELSE 4
       [] k = k2 -> IF q = q1 THEN -1 ELSE -4]]

(* A generated token scoring below ExpLo against q2: under the constant  *)
(* shift its exp flushes to zero.                                          *)
MCScoreUnderflow ==
  [q \in MCQueries |-> [k \in MCKeys |->
     CASE k = k0 -> 0
       [] k = k1 -> IF q = q1 THEN 1 ELSE -4
       [] k = k2 -> IF q = q1 THEN -1 ELSE -4]]

MCPadTok == <<k2, 1>>
MCTokenKeys == {k1}
MCExpLo == -3

MCSymmetry == Permutations(MCBlocks) \cup Permutations(MCSeqs)
=============================================================================
