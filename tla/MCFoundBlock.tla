----------------------------- MODULE MCFoundBlock ----------------------------
(* A small instance of FoundBlock for TLC: three nodes, of which the first  *)
(* is never asked; signatures of the regular length and a longer one; what  *)
(* is left in block_height is a block's height or no block's.               *)
EXTENDS FoundBlock

CONSTANTS Mine, Theirs

MCLeftovers == {1, 9}

MCLists ==
    {[i \in 0 .. 2 |-> NoAddress],
     [i \in 0 .. 2 |-> IF i = 1 THEN NoAddress ELSE Theirs],
     [i \in 0 .. 2 |-> IF i = 1 THEN Mine ELSE Theirs]}
==============================================================================
