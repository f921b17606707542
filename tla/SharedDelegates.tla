--------------------------- MODULE SharedDelegates ---------------------------
(***************************************************************************)
(* Both timers over one database.  The modules of the two threads are      *)
(* composed: they share the collection public_addresses, and they start    *)
(* and end with the same process; everything else each keeps to itself.    *)
(* One step is one call of one thread, as in the two modules.              *)
(***************************************************************************)
EXTENDS Integers, Sequences, Sums

CONSTANTS
    Address, Faults, Documents0, MaxRestarts,
    MaxDigits, MinimumAmount, ValuesFound, Indeterminate, MinutesPerDay,
    MaxSleep, SendMinutes, LastDay,
    Blocks, VoteTables, Seeded, Recognised, BareFilterAccepted, Collections,
    Place, Leftovers, Capacity, MaxBlocks, MaxFailures

VARIABLES
    addresses, restarts,                     \* shared
    day, minute, payments, transfers, paymentPc, cursor, remaining,
    public_address, current_total, total, paymentNumber, paymentData, tx_hash,
    lastPass, sentBefore,                    \* the payment timer's
    chain, votes, failures, statistics, blocks_found, blockPc,
    current_block_height, blockData, block_reward, block_reward_number,
    blockNumber, public_address_count, count, counter, rows, documents, left,
    voter, before, handled, torn, suspects, aborted,
                                             \* the block timer's
    credited, late, stale                    \* history: see Ledger

P == INSTANCE PaymentTimer WITH pc <- paymentPc, number <- paymentNumber,
                                data <- paymentData
B == INSTANCE BlockTimer WITH pc <- blockPc, number <- blockNumber,
                              data <- blockData

ASSUME SharedDelegatesAssumption ==
    /\ P!FaultsAssumption /\ P!AddressAssumption
    /\ P!MaxDigitsAssumption /\ P!PowersOfTenAssumption
    /\ P!PaymentTimerAssumption /\ B!BlockTimerAssumption

paymentVars ==
    <<day, minute, payments, transfers, paymentPc, cursor, remaining,
      public_address, current_total, total, paymentNumber, paymentData,
      tx_hash, lastPass, sentBefore>>
blockVars ==
    <<chain, votes, failures, statistics, blocks_found, blockPc,
      current_block_height, blockData, block_reward, block_reward_number,
      blockNumber, public_address_count, count, counter, rows, documents,
      left, voter, before, handled, torn, suspects, aborted>>
vars == <<addresses, restarts, paymentVars, blockVars, credited, late, stale>>

-----------------------------------------------------------------------------
(* The ledger that the two threads keep together. *)
Nothing == -1

owed == [a \in Address |-> IF addresses[a] = P!NoDocument THEN 0
                           ELSE addresses[a].current]

sent == [a \in Address |->
            Sum([i \in DOMAIN transfers |-> IF transfers[i].addr = a
                                           THEN transfers[i].amount ELSE 0],
                DOMAIN transfers)]

(* The amount of the cursor for the documents not yet come to, and for the *)
(* one that is paid. *)
seen == [a \in Address |->
            IF \/ a \in remaining /\ paymentPc \notin {"check", "sleep"}
               \/ a = public_address /\ paymentPc \in {"send", "reset"}
            THEN cursor[a].current ELSE Nothing]

paid == [a \in Address |->
            IF a = public_address /\ paymentPc = "reset" THEN paymentNumber
            ELSE Nothing]

reading == [a \in Address |->
               IF a = voter /\ blockPc = "update" /\ addresses[a] # P!NoDocument
               THEN blockNumber - B!Share(a) ELSE Nothing]

TheLedger == INSTANCE Ledger WITH Account <- Address

(* What a step means for an account: a share is written; a payment is      *)
(* taken for made that the wallet refused; a payment is made that nobody   *)
(* hears of; one is over while something is owed or a split is under way;  *)
(* a split reads something else than the amount owed.                      *)
Credited(a) == reading[a] # Nothing /\ reading'[a] = Nothing /\ owed'[a] # owed[a]
Refused(a) == paid'[a] # paid[a] /\ paid'[a] > sent'[a] - sent[a]
Overpaid(a) == paid'[a] # paid[a] /\ paid'[a] > seen[a]
Unheard(a) == paid'[a] = Nothing /\ sent'[a] > sent[a]
Unsettled(a) == /\ paid[a] # Nothing /\ paid'[a] = Nothing
                /\ owed'[a] # 0 \/ reading[a] # Nothing
Misread(a) == reading[a] = Nothing /\ reading'[a] \notin {Nothing, owed[a]}

Tally ==
    /\ credited' = [a \in Address |->
                       credited[a] + (IF Credited(a) THEN B!Share(a) ELSE 0)]
    /\ late' = late \cup
          {a \in Address : \/ Credited(a) /\ seen[a] # Nothing
                           \/ Refused(a) \/ Misread(a)}
    /\ stale' = stale \cup
          {a \in Address : \/ Overpaid(a) \/ Unheard(a)
                           \/ Unsettled(a) \/ Misread(a)}

-----------------------------------------------------------------------------
Init ==
    /\ P!Init /\ B!Init
    /\ credited = owed
    /\ late = {} /\ stale = {}

PaymentTimer == P!Thread /\ UNCHANGED blockVars /\ Tally
BlockTimer   == B!Thread /\ UNCHANGED paymentVars /\ Tally

(* The network and the other programs. *)
World == (B!NewBlock \/ B!Vote) /\ UNCHANGED paymentVars /\ Tally

(* One process: both threads end and start together. *)
Restart == P!Restart /\ B!Restart /\ Tally

Next == PaymentTimer \/ BlockTimer \/ World \/ Restart

Spec == Init /\ [][Next]_vars

-----------------------------------------------------------------------------
(* The types of both threads still hold when the other one writes to the   *)
(* same documents. *)
TypeOK ==
    /\ P!TypeOK /\ B!TypeOK
    /\ credited \in [Address -> Nat]
    /\ late \subseteq Address /\ stale \subseteq Address

(* The two threads together implement Ledger. *)
LedgerKept == TheLedger!LSpec

NoShareLost == TheLedger!NoShareLost
NothingPaidTwice == TheLedger!NothingPaidTwice
==============================================================================
