------------------------------ MODULE Numerals -------------------------------
(***************************************************************************)
(* Decimal texts in C buffers.  payment_timer_thread copies each field of  *)
(* a document with memcpy to the START of a buffer that is never cleared,  *)
(* so a shorter number keeps the last digits of a longer one copied there  *)
(* before.  A text is its number of characters and its number.             *)
(***************************************************************************)
EXTENDS Integers, FiniteSets

CONSTANT MaxDigits        \* characters of the longest number in a buffer

ASSUME MaxDigitsAssumption == MaxDigits \in Nat \ {0}

(* An arithmetic fact on the bases used below. *)
ASSUME PowersOfTenAssumption ==
    \A k \in 0 .. MaxDigits : 10 ^ k \in Nat /\ 10 ^ k >= 1

(* sprintf("%lld"): no leading zeros, "0" for zero.  Numbers longer than   *)
(* MaxDigits are outside of the model's range.                             *)
Printed(n) ==
    [len |-> 1 + Cardinality({k \in 1 .. MaxDigits - 1 : n >= 10 ^ k}),
     val |-> n]

Blank   == [len |-> 1, val |-> -1]      \* one blank, not a number
Nothing == [len |-> 0, val |-> -1]      \* a buffer full of zeros

Text == [len : 0 .. MaxDigits, val : Nat \cup {-1}]

(* memcpy of the characters of `new` over a buffer that holds `old`. *)
Overlay(new, old) ==
    IF new.len >= old.len THEN new
    ELSE LET kept == old.len - new.len
         IN  [len |-> old.len,
              val |-> (new.val * 10 ^ kept) + (old.val % 10 ^ kept)]

(* sscanf(text, "%lld", &n): a text that is no number leaves n alone. *)
Scan(text, n) == IF text.val >= 0 THEN text.val ELSE n
==============================================================================
