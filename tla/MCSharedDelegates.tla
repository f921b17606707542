--------------------------- MODULE MCSharedDelegates -------------------------
(* A small instance of SharedDelegates for TLC: blocks of this delegate     *)
(* only, and one of the addresses has all the votes.                        *)
EXTENDS SharedDelegates

CONSTANT Only

MCDocuments == {[current |-> 3, total |-> 0, inactive |-> 0]}
MCPlace == [a \in Address |-> 1]
MCZero == {0}
MCBlocks == {[ours |-> TRUE, reward |-> 6]}
MCVotes == {[a \in Address |-> IF a = Only THEN 4 ELSE 0]}
==============================================================================
