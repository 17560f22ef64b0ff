-------------------------------- MODULE Sums --------------------------------
(* SQL's SUM over the rows of a set, of a column that is never NULL. *)
EXTENDS Integers, FiniteSetsExt

Total(f, S) == MapThenSumSet(LAMBDA i : f[i], S)
=============================================================================
