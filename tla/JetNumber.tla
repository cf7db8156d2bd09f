----------------------------- MODULE JetNumber -----------------------------
(***************************************************************************)
(* The fixed-point `Number` of the jet_math crate, as far as the program   *)
(* uses it.  jet_math is not in the repository: these definitions follow   *)
(* from the way src/programs/jet calls it.  A Number is kept as the        *)
(* integer count of its smallest units, ONE of which make 1.0 (10^15 in    *)
(* the crate, a small constant here).  Multiplication and division         *)
(* truncate, and subtraction below zero panics, so every user of an        *)
(* unchecked subtraction carries the comparison as a guard.                *)
(***************************************************************************)
EXTENDS Integers

CONSTANT ONE

ASSUME ONEAssumption == ONE \in Nat \ {0}

(* Number::from(u64): the integer n as a Number. *)
FromU64(n) == n * ONE

(* The products and quotients of two Numbers, truncated. *)
Mul(a, b) == (a * b) \div ONE
Div(a, b) == (a * ONE) \div b

(* as_u64, as_u64_ceil and as_u64_rounded (to the nearest) at exponent 0,  *)
(* and the choice Rounding makes.                                          *)
AsU64(a) == a \div ONE
AsU64Ceil(a) == (a + ONE - 1) \div ONE
AsU64Rounded(a) == (a + ONE \div 2) \div ONE
Rounded(a, rounding) == IF rounding = "Up" THEN AsU64Ceil(a) ELSE AsU64(a)

(* std::cmp::min and max, and Number::saturating_sub. *)
Least(a, b) == IF a <= b THEN a ELSE b
Greatest(a, b) == IF a <= b THEN b ELSE a
SaturatingSub(a, b) == IF a <= b THEN 0 ELSE a - b

(* The value with which an exchange rate replaces an empty supply. *)
OneIfZero(a) == IF a = 0 THEN ONE ELSE a
=============================================================================
