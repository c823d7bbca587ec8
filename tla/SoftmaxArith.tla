---------------------------- MODULE SoftmaxArith ----------------------------
(***************************************************************************)
(* The numeric environment of the decode softmax in hpu_attn.py: the       *)
(* module-level flags read from the environment (VLLM_SOFTMAX_CONST_PA,    *)
(* VLLM_SOFTMAX_CONST_NORM, VLLM_SOFTMAX_CONST_VAL, VLLM_SOFTMAX_EPS_VALUE) *)
(* and an abstraction of bf16 arithmetic that keeps what the kernel's      *)
(* correctness depends on: exp flushes to zero below the smallest normal   *)
(* number and overflows to +inf above the largest, sums overflow to +inf,  *)
(* 0 * inf = NaN, inf / inf = NaN, NaN propagates (also through            *)
(* torch.maximum).  Rounding of finite values is abstracted away: finite   *)
(* numbers are exact non-negative rationals.                               *)
(*                                                                         *)
(* Scores are integers read as base-2 exponents: Exp(e) = 2^e.  A weight   *)
(* is counted in units of 2^ExpLo, the smallest normal number, which is    *)
(* also the default eps_value (torch.finfo(torch.bfloat16).tiny).          *)
(***************************************************************************)
EXTENDS Integers

CONSTANTS
  ExpLo,      \* smallest exponent whose exp is a normal number
  ExpHi,      \* largest exponent whose exp is finite
  EpsUnits,   \* eps_value, in units of 2^ExpLo
  ConstVal,   \* const_val: the fixed shift subtracted before exp
  ConstPA,    \* const_pa flag  (VLLM_SOFTMAX_CONST_PA == 'true')
  ConstNorm,  \* const_norm flag (VLLM_SOFTMAX_CONST_NORM == 'true')
  NegInf      \* -inf, the additive bias of a masked cache slot (a model value)

ASSUME ExpLo < 0 /\ 0 < ExpHi /\ EpsUnits \in Nat /\ ConstVal \in Int
ASSUME ConstPA \in BOOLEAN /\ ConstNorm \in BOOLEAN /\ NegInf \notin Int

(* The normalisation flat_pa selects: const_pa is tested first, then      *)
(* const_norm; with neither flag the extension's pipelined_pa runs.       *)
Policy ==
  IF ConstPA THEN "const_pa" ELSE IF ConstNorm THEN "const_norm" ELSE "pipelined"

(* Largest finite magnitude, in units of 2^ExpLo. *)
MaxFinite == 2^(ExpHi - ExpLo + 1) - 1

RECURSIVE GCD(_, _)
GCD(a, b) == IF b = 0 THEN a ELSE GCD(b, a % b)

(* A finite non-negative number n/d in lowest terms, +inf and NaN. *)
Num(n, d) == LET g == GCD(n, d) IN [k |-> "fin", n |-> n \div g, d |-> d \div g]
PosInf == [k |-> "inf", n |-> 0, d |-> 1]
NaN    == [k |-> "nan", n |-> 0, d |-> 1]
Zero   == Num(0, 1)
FromNat(n) == Num(n, 1)
Eps    == FromNat(EpsUnits)

Number == [k : {"fin"}, n : Nat, d : Nat \ {0}] \cup {PosInf, NaN}

IsZero(x) == x.k = "fin" /\ x.n = 0

(* Overflow of a finite result to +inf. *)
Saturate(x) == IF x.k = "fin" /\ x.n > MaxFinite * x.d THEN PosInf ELSE x

FAdd(a, b) ==
  CASE a.k = "nan" \/ b.k = "nan" -> NaN
    [] a.k = "inf" \/ b.k = "inf" -> PosInf
    [] OTHER -> Saturate(Num(a.n * b.d + b.n * a.d, a.d * b.d))

FMul(a, b) ==
  CASE a.k = "nan" \/ b.k = "nan"                     -> NaN
    [] (a.k = "inf" \/ b.k = "inf") /\ (IsZero(a) \/ IsZero(b)) -> NaN
    [] a.k = "inf" \/ b.k = "inf"                     -> PosInf
    [] OTHER -> Saturate(Num(a.n * b.n, a.d * b.d))

(* Division by a denominator that the eps floor keeps positive. *)
FDiv(a, b) ==
  CASE a.k = "nan" \/ b.k = "nan" \/ (a.k = "inf" /\ b.k = "inf") -> NaN
    [] a.k = "inf" -> PosInf
    [] b.k = "inf" -> Zero
    [] OTHER -> Saturate(Num(a.n * b.d, a.d * b.n))

(* torch.maximum: NaN in either argument gives NaN. *)
FMax(a, b) ==
  CASE a.k = "nan" \/ b.k = "nan" -> NaN
    [] a.k = "inf" \/ b.k = "inf" -> PosInf
    [] OTHER -> IF a.n * b.d >= b.n * a.d THEN a ELSE b

(* exp of a score exponent e (an integer or NegInf), with flush-to-zero   *)
(* below the smallest normal number and overflow above the largest.      *)
Exp(e) ==
  CASE e = NegInf  -> Zero
    [] e < ExpLo   -> Zero
    [] e > ExpHi   -> PosInf
    [] OTHER       -> FromNat(2^(e - ExpLo))

(* attn.sub_(shift): -inf stays -inf. *)
Shift(a, s) == IF a = NegInf THEN NegInf ELSE a - s

(* Sum of the numbers f[i], i \in DOMAIN f; FAdd is associative and      *)
(* commutative on non-negative numbers, so the order does not matter.     *)
(* (A direct recursion: FoldFunction enumerates SUBSET DOMAIN f.)         *)
RECURSIVE SumOver(_, _)
SumOver(f, D) ==
  IF D = {} THEN Zero
  ELSE LET i == CHOOSE x \in D : TRUE IN FAdd(f[i], SumOver(f, D \ {i}))

FSum(f) == SumOver(f, DOMAIN f)
=============================================================================
