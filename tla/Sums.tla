--------------------------------- MODULE Sums --------------------------------
(***************************************************************************)
(* The sum of a function over a finite part of its domain: what the loops  *)
(* over votes, rewards and collections add up.                             *)
(***************************************************************************)
EXTENDS Integers, FiniteSetsExt

Sum(f, S) == MapThenSumSet(LAMBDA x : f[x], S)
==============================================================================
