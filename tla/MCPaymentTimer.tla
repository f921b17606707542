---------------------------- MODULE MCPaymentTimer ---------------------------
(* Small instances of PaymentTimer for TLC. *)
EXTENDS PaymentTimer

Doc(c, t, i) == [current |-> c, total |-> t, inactive |-> i]

(* Nothing to receive after 30 days without; a short due amount; a longer  *)
(* one whose second digit can stay behind in the buffers.                  *)
MCDocuments == {Doc(0, 7, 30), Doc(3, 0, 0), Doc(12, 40, 9)}
MCNumbers == {0}
MCLeftovers == {0, 9}
==============================================================================
