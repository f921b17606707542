---------------------------- MODULE PaymentPromise ---------------------------
(***************************************************************************)
(* What the payment side promises a voter: an amount owed to an address is *)
(* wiped only right after the wallet has answered a request to pay that    *)
(* address, and the request was for at least the amount wiped.  A failure  *)
(* may forget a request that was answered; it never wipes anything.        *)
(***************************************************************************)
EXTENDS Integers

CONSTANT Address

VARIABLES owed,           \* the amount owed to each address
          confirmed       \* the answered request that is being booked

NoRequest == [addr |-> {}, amount |-> -1]
Request == [addr : Address, amount : Nat]

PInit == /\ owed \in [Address -> Nat]
         /\ confirmed = NoRequest

Confirm == /\ confirmed = NoRequest
           /\ confirmed' \in Request
           /\ UNCHANGED owed

Settle == /\ confirmed # NoRequest
          /\ owed[confirmed.addr] <= confirmed.amount
          /\ owed' = [owed EXCEPT ![confirmed.addr] = 0]
          /\ confirmed' = NoRequest

Forget == /\ confirmed # NoRequest
          /\ confirmed' = NoRequest
          /\ UNCHANGED owed

PNext == Confirm \/ Settle \/ Forget

PSpec == PInit /\ [][PNext]_<<owed, confirmed>>
==============================================================================
