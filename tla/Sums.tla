-------------------------------- MODULE Sums --------------------------------
(* The sum of the first n terms of a sequence or function f of numbers. *)
EXTENDS Integers

SumUpTo(f, n) ==
  LET s[i \in 0 .. n] == IF i = 0 THEN 0 ELSE s[i - 1] + f[i]
  IN  s[n]
============================================================================
