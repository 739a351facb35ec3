-------------------------------- MODULE Sums --------------------------------
(* The sum of the first n terms of f, as the code's loops over fills and   *)
(* orders add them up.                                                     *)
EXTENDS Integers

Running(f) ==
  LET s[n \in Nat] == IF n = 0 THEN 0 ELSE s[n - 1] + f[n] IN s

SumTo(f, n) == Running(f)[n]
=============================================================================
