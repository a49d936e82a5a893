------------------------------- MODULE MinMax -------------------------------
(* std::min and std::max of two numbers. *)
EXTENDS Integers

Min2(a, b) == IF a <= b THEN a ELSE b
Max2(a, b) == IF a >= b THEN a ELSE b
=============================================================================
