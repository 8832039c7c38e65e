------------------------------ MODULE CpAmmMath ------------------------------
(***************************************************************************)
(* The arithmetic that every part of cp-amm uses, on unbounded integers.   *)
(***************************************************************************)
EXTENDS Integers, Functions

Least(x, y) == IF x < y THEN x ELSE y

CeilDiv(x, y) == (x + y - 1) \div y

\* mul_div_u256 and safe_mul_div_cast
MulDiv(x, y, d, round) == IF round = "Up" THEN CeilDiv(x * y, d) ELSE (x * y) \div d

\* x to the n
Power(x, n) ==
    LET power[k \in 0 .. n] == IF k = 0 THEN 1 ELSE x * power[k - 1]
    IN power[n]

\* The sum of f over a finite set, in which properties are stated
Total(f, S) == SumFunctionOnSet(f, S)
=============================================================================
