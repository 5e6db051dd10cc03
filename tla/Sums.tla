-------------------------------- MODULE Sums --------------------------------
(***************************************************************************)
(* The sum of the values of a function on a finite set.                    *)
(***************************************************************************)
EXTENDS Naturals, FiniteSets, FiniteSetsExt

SumOver(f, S) == MapThenSumSet(LAMBDA x : f[x], S)
=============================================================================
