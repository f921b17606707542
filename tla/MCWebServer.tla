----------------------------- MODULE MCWebServer -----------------------------
(* A small instance of WebServer for TLC. *)
EXTENDS WebServer

Get(u) == [method |-> "GET", url |-> u, parts |-> << >>]
Post(p) == [method |-> "POST", url |-> "form", parts |-> p]

(* Each page, and bodies that fill the slots, break off or do not fit. *)
MCRequests ==
    {Get(u) : u \in Url \ {"form"}} \cup
    {Post(p) : p \in {<< >>, <<"known", "unknown", "known">>,
                      <<"known", "known", "known">>, <<"empty", "known">>,
                      <<"full">>}} \cup
    {[method |-> "PUT", url |-> "form", parts |-> << >>]}
MCFailing == {"start", "write", "count", "cursor", "memory"}
MCRewards == {3}
MCTestVotes == <<2>>

(* A new delegate, one with a block and a vote, and one with more votes. *)
MCContents ==
    {[statistics |-> 0, blocks |-> << >>, listed |-> FALSE, payments |-> 0,
      proofs |-> [i \in 1 .. 2 |-> 0]],
     [statistics |-> 1, blocks |-> << 3 >>, listed |-> TRUE, payments |-> 1,
      proofs |-> [i \in 1 .. 2 |-> i - 1]],
     [statistics |-> 1, blocks |-> << >>, listed |-> TRUE, payments |-> 2,
      proofs |-> [i \in 1 .. 2 |-> 1]]}
==============================================================================
