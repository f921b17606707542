---------------------------- MODULE MCBlockTimer -----------------------------
(* Small instances of BlockTimer for TLC. *)
EXTENDS BlockTimer

MCBlocks == {[ours |-> TRUE, reward |-> 6], [ours |-> FALSE, reward |-> 9]}
MCDocuments == {[current |-> 2, total |-> 0, inactive |-> 0]}
MCLeftovers == {1}

(* One proof in the first collection, the others in the second. *)
MCPlace == [a \in Address |-> IF a = (CHOOSE b \in Address : TRUE) THEN 1 ELSE 2]

(* Everybody votes for the delegate, or one address does. *)
MCVotes == {[a \in Address |-> 4],
            [a \in Address |-> IF a = (CHOOSE b \in Address : TRUE) THEN 4 ELSE 0]}
MCBothVote == {[a \in Address |-> 4]}
==============================================================================
