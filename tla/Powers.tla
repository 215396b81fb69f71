------------------------------- MODULE Powers -------------------------------
(* The powers of two, as a recursive function: what a shift by n places    *)
(* multiplies or divides by.                                               *)
EXTENDS Integers

Pow2[n \in Nat] == IF n = 0 THEN 1 ELSE 2 * Pow2[n - 1]
=============================================================================
