----------------------------- MODULE PaymentTimer ----------------------------
(***************************************************************************)
(* payment_timer_thread: once a minute it looks whether it is UTC 00:00,   *)
(* and in that minute it walks over the documents of public_addresses,     *)
(* sends each due amount through the wallet, resets current_total, adds to *)
(* total, records the payment and updates inactivity_count.  An action is  *)
(* one call that leaves the process (database, wallet, clock, sleep), with *)
(* everything the thread does up to the next one.                          *)
(***************************************************************************)
EXTENDS Documents, Numerals, Sequences

CONSTANTS MinimumAmount,   \* minimum_amount_atomic_units
          ValuesFound,     \* the offsets of lines 506-517 fit the text of a
                           \* document, which they do not: there are blanks
                           \* around its colons
          Indeterminate,   \* what the uninitialized `number` may hold
          Documents0,      \* documents the collection may hold at the start
          MinutesPerDay,   \* minutes of a day
          MaxSleep,        \* minutes that pass over sleep(60), with delays
          SendMinutes,     \* minutes send_payment may wait for its answer
          LastDay,         \* bound: the clock stops after this day
          MaxRestarts      \* bound: times the process is killed and restarted

ASSUME PaymentTimerAssumption ==
    /\ MinimumAmount \in Nat
    /\ ValuesFound \in BOOLEAN
    /\ Indeterminate \subseteq Nat /\ Indeterminate # {}
    /\ Documents0 \subseteq [current : Nat, total : Nat, inactive : Nat]
    /\ MinutesPerDay \in Nat \ {0}
    /\ MaxSleep \in 1 .. MinutesPerDay /\ SendMinutes \in 0 .. MinutesPerDay
    /\ LastDay \in Nat /\ MaxRestarts \in Nat

NoHash == 0

VARIABLES
    day, minute,                  \* the UTC clock
    addresses,                    \* the collection public_addresses
    payments,                     \* the collection public_addresses_payments
    transfers,                    \* external: what the wallet has sent
    pc,                           \* the next call of the thread
    cursor, remaining,            \* document_settings: its documents, those left
    public_address, current_total, total, number, data, tx_hash,
    lastPass,                     \* history: day of this process's last pass
    sentBefore,                   \* history: transfers made before that pass
    restarts

buffers == <<public_address, current_total, total, number, data, tx_hash>>
clock   == <<day, minute>>
database == <<addresses, payments>>
vars == <<day, minute, addresses, payments, transfers, pc, cursor, remaining,
          public_address, current_total, total, number, data, tx_hash,
          lastPass, sentBefore, restarts>>
history == <<lastPass, sentBefore>>

Steps == {"check", "next", "send", "reset", "total", "record",
          "inactivity", "count", "remove", "sleep"}

NoData == [addr |-> NoAddress, doc |-> AnyDocument]

Init ==
    /\ day = 0
    /\ minute \in 0 .. MinutesPerDay - 1
    /\ addresses \in [Address -> Documents0 \cup {NoDocument}]
    /\ payments = << >>
    /\ transfers = << >>
    /\ pc = "check"
    /\ cursor = [a \in Address |-> NoDocument]
    /\ remaining = {}
    /\ public_address = NoAddress
    /\ current_total = Nothing
    /\ total = Nothing
    /\ number \in Indeterminate
    /\ data = NoData
    /\ tx_hash = NoHash
    /\ lastPass = -1
    /\ sentBefore = 0
    /\ restarts = 0

(* Deviation, for the checks: the day never ends. *)
LaterNoMidnight(k) ==
    /\ day' = day
    /\ minute' = minute + k

(* k minutes pass. *)
Later(k) ==
    /\ day' = IF minute + k < MinutesPerDay THEN day ELSE day + 1
    /\ minute' = IF minute + k < MinutesPerDay THEN minute + k
                 ELSE minute + k - MinutesPerDay

-----------------------------------------------------------------------------
(* Lines 481-484: it is not UTC 00:00. *)
NotMidnight ==
    /\ pc = "check"
    /\ minute # 0
    /\ pc' = "sleep"
    /\ UNCHANGED <<clock, database, transfers, cursor, remaining, buffers,
                   history, restarts>>

(* Lines 481-496: it is UTC 00:00, the cursor over all the documents is    *)
(* made.  The collections of the model fit one batch of the driver.        *)
StartPass ==
    /\ pc = "check"
    /\ minute = 0
    /\ cursor' = addresses
    /\ remaining' = {a \in Address : addresses[a] # NoDocument}
    /\ pc' = "next"
    /\ lastPass' = day
    /\ sentBefore' = Len(transfers)
    /\ UNCHANGED <<clock, database, transfers, buffers, restarts>>

(* Deviation, for the checks: the minimum itself is not enough. *)
DueAboveMinimum(n) == n > MinimumAmount

(* Lines 524-526. *)
Due(n) == n >= MinimumAmount

(* Lines 497-526: the next document is copied into data and its fields     *)
(* over the buffers, of which none is cleared first.  As the offsets are,  *)
(* each buffer gets the blank before the value and sscanf leaves number as *)
(* it was.                                                                 *)
NextDocument(a) ==
    /\ pc = "next"
    /\ a \in remaining
    /\ remaining' = remaining \ {a}
    /\ data' = [addr |-> a, doc |-> cursor[a]]
    /\ IF ValuesFound
       THEN /\ public_address' = a
            /\ current_total' = Overlay(Printed(cursor[a].current), current_total)
            /\ total' = Overlay(Printed(cursor[a].total), total)
       ELSE /\ public_address' = NoAddress
            /\ current_total' = Blank
            /\ total' = Blank
    /\ number' = Scan(current_total', number)
    /\ pc' = IF Due(number') THEN "send" ELSE "inactivity"
    /\ UNCHANGED <<clock, database, transfers, cursor, tx_hash, history, restarts>>

(* Deviation, for the checks: the cursor starts over at its end. *)
EndPassRewinding ==
    /\ pc = "next"
    /\ remaining = {}
    /\ remaining' = {a \in Address : cursor[a] # NoDocument}
    /\ UNCHANGED <<clock, database, transfers, pc, cursor, buffers, history,
                   restarts>>

(* Line 497: no document is left, or the cursor failed, which looks the    *)
(* same: mongoc_cursor_error is not asked.                                 *)
EndPass ==
    /\ pc = "next"
    /\ remaining = {} \/ "cursor" \in Faults
    /\ pc' = "sleep"
    /\ UNCHANGED <<clock, database, transfers, cursor, remaining, buffers,
                   history, restarts>>

(***************************************************************************)
(* send_payment.  The wallet carries out transfer_split and its answer has *)
(* a tx_hash_list; or it answers with an error, in which parse_json_data   *)
(* finds no tx_hash_list and returns 1 with nothing copied; or no answer   *)
(* arrives in time, with the transfer carried out or not.                  *)
(***************************************************************************)
Transfer ==
    /\ current_total.val >= 0
    /\ transfers' = Append(transfers, [addr |-> public_address,
                                       amount |-> current_total.val])

SendAccepted ==
    /\ Transfer
    /\ tx_hash' = Len(transfers')
    /\ pc' = "reset"

(* Deviation, for the checks: payment_tx_hash is not cleared first. *)
SendRefusedKeepingHash ==
    /\ "wallet" \in Faults
    /\ pc' = "reset"
    /\ UNCHANGED <<transfers, tx_hash>>

SendRefused ==
    /\ "wallet" \in Faults \/ current_total.val < 0
    /\ tx_hash' = NoHash
    /\ pc' = "reset"
    /\ UNCHANGED transfers

(* Deviation, for the checks: an error goes on with the next document. *)
SendUnansweredGoesOn ==
    /\ "wallet" \in Faults
    /\ Transfer \/ UNCHANGED transfers
    /\ tx_hash' = NoHash
    /\ pc' = "inactivity"

SendUnanswered ==
    /\ "wallet" \in Faults
    /\ Transfer \/ UNCHANGED transfers
    /\ tx_hash' = NoHash
    /\ pc' = "sleep"

SendPayment ==
    /\ pc = "send"
    /\ \E k \in 0 .. SendMinutes : Later(k)
    /\ SendAccepted \/ SendRefused \/ SendUnanswered
    /\ UNCHANGED <<database, cursor, remaining, public_address, current_total,
                   total, number, data, history, restarts>>

ByAddress == [addr |-> public_address, doc |-> AnyDocument]

(* Lines 541-553: current_total of the address becomes "0". *)
ResetCurrentTotal ==
    /\ pc = "reset"
    /\ data' = ByAddress
    /\ \E o \in Outcomes(addresses, Update(addresses, ByAddress, "current", 0)) :
          /\ addresses' = o.result
          /\ pc' = IF o.ret = 1 THEN "total" ELSE "sleep"
    /\ UNCHANGED <<clock, payments, transfers, cursor, remaining, public_address,
                   current_total, total, number, tx_hash, history, restarts>>

(* Deviation, for the checks: the field of the update before it. *)
AddToTotalInCurrent ==
    /\ pc = "total"
    /\ \E o \in Outcomes(addresses, Update(addresses, data, "current",
                                           Scan(total, 0) + number)) :
          /\ addresses' = o.result
          /\ pc' = IF o.ret = 1 THEN "record" ELSE "sleep"
    /\ UNCHANGED <<clock, payments, transfers, cursor, remaining, buffers,
                   history, restarts>>

(* Lines 555-567: the total of the document read before, plus number. *)
AddToTotal ==
    /\ pc = "total"
    /\ \E o \in Outcomes(addresses, Update(addresses, data, "total",
                                           Scan(total, 0) + number)) :
          /\ addresses' = o.result
          /\ pc' = IF o.ret = 1 THEN "record" ELSE "sleep"
    /\ UNCHANGED <<clock, payments, transfers, cursor, remaining, buffers,
                   history, restarts>>

(* Lines 569-590: the payment goes into public_addresses_payments. *)
RecordPayment ==
    /\ pc = "record"
    /\ \E o \in Outcomes(payments,
                         Append(payments, [addr |-> public_address,
                                           total |-> current_total.val,
                                           hash |-> tx_hash])) :
          /\ payments' = o.result
          /\ pc' = IF o.ret = 1 THEN "inactivity" ELSE "sleep"
    /\ UNCHANGED <<clock, addresses, transfers, cursor, remaining, buffers,
                   history, restarts>>

(* Lines 627-638: the address had something to receive. *)
ClearInactivity ==
    /\ pc = "inactivity"
    /\ current_total # Printed(0)
    /\ \E o \in Outcomes(addresses, Update(addresses, data, "inactive", 0)) :
          /\ addresses' = o.result
          /\ pc' = IF o.ret = 1 THEN "next" ELSE "sleep"
    /\ UNCHANGED <<clock, payments, transfers, cursor, remaining, buffers,
                   history, restarts>>

(* What read_document_field_from_collection may leave in the cleared data3: *)
(* a failing cursor looks like a filter that selects nothing.              *)
InactivityReads ==
    {ReadField(addresses, data, "inactive", NotANumber)} \cup
    (IF "database" \in Faults THEN {NotANumber} ELSE {})

(* Lines 600-611: inactivity_count is read and number becomes one more. *)
ReadInactivity ==
    /\ pc = "inactivity"
    /\ current_total = Printed(0)
    /\ \E n \in InactivityReads : number' = (IF n >= 0 THEN n ELSE number) + 1
    /\ pc' = "count"
    /\ UNCHANGED <<clock, database, transfers, cursor, remaining, public_address,
                   current_total, total, data, tx_hash, history, restarts>>

(* Lines 612-623: the update carries the first characters of data (line    *)
(* 617), as many as number has digits: never a number.  The quote in them  *)
(* breaks the JSON: it is the second of {"public_address":... and the      *)
(* third of { "_id" : ..., with which the text of a document begins.       *)
WriteInactivity ==
    /\ pc = "count"
    /\ LET broken == number >= IF data.doc = AnyDocument THEN 10 ELSE 100
           after  == Update(addresses, data, "inactive", NotANumber)
       IN  \E o \in IF broken THEN {[result |-> addresses, ret |-> 0]}
                    ELSE Outcomes(addresses, after) :
               /\ addresses' = o.result
               /\ pc' = IF o.ret = 1 THEN "remove" ELSE "sleep"
    /\ UNCHANGED <<clock, payments, transfers, cursor, remaining, buffers,
                   history, restarts>>

(* Lines 642-658: the document is removed when inactivity_count is 30. *)
RemoveInactive ==
    /\ pc = "remove"
    /\ \E n \in InactivityReads :
          \E o \in IF n = 30 THEN Outcomes(addresses, Delete(addresses, data))
                   ELSE {[result |-> addresses, ret |-> 1]} :
             /\ addresses' = o.result
             /\ pc' = IF o.ret = 1 THEN "next" ELSE "sleep"
    /\ UNCHANGED <<clock, payments, transfers, cursor, remaining, buffers,
                   history, restarts>>

(* Deviation, for the checks: the pause may end within the same minute. *)
SleepTooShort ==
    /\ pc = "sleep"
    /\ \E k \in 0 .. MaxSleep : Later(k)
    /\ day' <= LastDay
    /\ pc' = "check"
    /\ UNCHANGED <<database, transfers, cursor, remaining, buffers, history,
                   restarts>>

(* sleep(60), of line 661 after a pass and of line 408 after an error. *)
Sleep ==
    /\ pc = "sleep"
    /\ \E k \in 1 .. MaxSleep : Later(k)
    /\ day' <= LastDay
    /\ pc' = "check"
    /\ UNCHANGED <<database, transfers, cursor, remaining, buffers, history, restarts>>

(* The process is killed, or exits, and is started again: the database and *)
(* the wallet keep their state, main and the thread start over.            *)
Restart ==
    /\ restarts < MaxRestarts
    /\ restarts' = restarts + 1
    /\ pc' = "check"
    /\ cursor' = [a \in Address |-> NoDocument]
    /\ remaining' = {}
    /\ public_address' = NoAddress
    /\ current_total' = Nothing
    /\ total' = Nothing
    /\ number' \in Indeterminate
    /\ data' = NoData
    /\ tx_hash' = NoHash
    /\ lastPass' = -1
    /\ sentBefore' = Len(transfers)
    /\ UNCHANGED <<clock, database, transfers>>

Thread ==
    \/ NotMidnight \/ StartPass \/ EndPass
    \/ \E a \in Address : NextDocument(a)
    \/ SendPayment \/ ResetCurrentTotal \/ AddToTotal \/ RecordPayment
    \/ ClearInactivity \/ ReadInactivity \/ WriteInactivity \/ RemoveInactive
    \/ Sleep

Next == Thread \/ Restart

Spec == Init /\ [][Next]_vars
FairSpec == Spec /\ WF_vars(Thread)

-----------------------------------------------------------------------------
TypeOK ==
    /\ day \in Nat /\ minute \in 0 .. MinutesPerDay - 1
    /\ addresses \in Collection /\ cursor \in Collection
    /\ payments \in Seq([addr : Address \cup {NoAddress},
                         total : Nat \cup {-1}, hash : Nat])
    /\ transfers \in Seq([addr : Address, amount : Nat])
    /\ pc \in Steps
    /\ remaining \subseteq {a \in Address : cursor[a] # NoDocument}
    /\ public_address \in Address \cup {NoAddress}
    /\ current_total \in Text /\ total \in Text
    /\ number \in Nat
    /\ data \in Filter
    /\ tx_hash \in Nat
    /\ lastPass \in -1 .. day
    /\ sentBefore \in 0 .. Len(transfers)
    /\ restarts \in 0 .. MaxRestarts

Recorded == {payments[i].hash : i \in DOMAIN payments}

(* Lines 481-484, 661 and 408: one process starts at most one pass a day,  *)
(* however long a pass takes and however it ends: after an error the       *)
(* thread must not find itself in the same 00:00 again.                    *)
OnePassPerDay == [][pc = "check" /\ pc' = "next" => lastPass < day]_vars

(* Lines 533-590: a payment is recorded in the database before the thread  *)
(* goes on to anything else, so a pass that goes on has recorded all that  *)
(* it has sent; what it could not record ended it.                         *)
PassRecordsWhatItSends ==
    pc \in {"next", "send", "inactivity", "count", "remove"} =>
        sentBefore + 1 .. Len(transfers) \subseteq Recorded

(* Lines 569-586 and 533: a record that carries a transaction hash names   *)
(* the address and the amount the wallet really sent under that hash.      *)
RecordIsTransfer(r) ==
    /\ r.hash \in DOMAIN transfers
    /\ transfers[r.hash] = [addr |-> r.addr, amount |-> r.total]

(* No record shows a transfer that did not happen or happened differently, *)
(* and no transfer is shown by two records, over errors and restarts.      *)
RecordsMatchTransfers ==
    /\ \A i \in DOMAIN payments :
           payments[i].hash # NoHash => RecordIsTransfer(payments[i])
    /\ \A i, j \in DOMAIN payments :
           i # j /\ payments[i].hash = payments[j].hash
               => payments[i].hash = NoHash

(* Lines 525-553: whatever a polluted buffer, an error, a lost answer or a *)
(* restart does, an amount is wiped only after the wallet has answered a   *)
(* request that covers it.                                                 *)
Owed == [a \in Address |-> IF addresses[a] = NoDocument THEN 0
                           ELSE addresses[a].current]

Confirmed == IF pc = "reset" /\ public_address \in Address
             THEN [addr |-> public_address, amount |-> number]
             ELSE [addr |-> {}, amount |-> -1]

Promise == INSTANCE PaymentPromise WITH owed <- Owed, confirmed <- Confirmed

PromiseKept == Promise!PSpec

(* Lines 497-659: a pass that comes to its end has settled every document  *)
(* with a due amount that the cursor returned.                             *)
PassServesEveryDueAddress ==
    [][pc = "next" /\ pc' = "sleep" =>
          \A a \in Address \ remaining :
              cursor[a].current >= MinimumAmount => Owed[a] = 0]_vars

(* Lines 481-661: a pass always ends, it never waits for something or      *)
(* repeats a document forever.                                             *)
PassEnds == (pc = "next") ~> (pc = "sleep")

(* network_wallet_functions.c:88: send_payment returns 0 if an error has   *)
(* occured; then no payment is recorded that the wallet did not make.      *)
EveryRecordHasATransfer ==
    \A i \in DOMAIN payments : payments[i].hash # NoHash
==============================================================================
