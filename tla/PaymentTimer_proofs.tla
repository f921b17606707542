------------------------- MODULE PaymentTimer_proofs -------------------------
(***************************************************************************)
(* Proofs about PaymentTimer for every value of its constants.             *)
(***************************************************************************)
EXTENDS PaymentTimer, TLAPS, FiniteSetTheorems

USE DEF NoHash

(* The numbers the database prints have between 1 and MaxDigits digits. *)
LEMMA PrintedType ==
    ASSUME NEW n \in Nat
    PROVE  Printed(n) \in Text /\ Printed(n).val = n /\ Printed(n).len >= 1
<1> DEFINE K == {k \in 1 .. MaxDigits - 1 : n >= 10 ^ k}
<1>1. /\ IsFiniteSet(1 .. MaxDigits - 1)
      /\ Cardinality(1 .. MaxDigits - 1) = MaxDigits - 1
  BY FS_Interval, MaxDigitsAssumption
<1>2. Cardinality(K) \in 0 .. MaxDigits - 1
  <2>1. K \subseteq 1 .. MaxDigits - 1
    OBVIOUS
  <2>2. IsFiniteSet(K) /\ Cardinality(K) <= Cardinality(1 .. MaxDigits - 1)
    BY <1>1, <2>1, FS_Subset
  <2>3. Cardinality(K) \in Nat
    BY <2>2, FS_CardinalityType
  <2> QED BY <1>1, <2>2, <2>3, MaxDigitsAssumption
<1>3. Printed(n) = [len |-> 1 + Cardinality(K), val |-> n]
  BY DEF Printed
<1> HIDE DEF K
<1> QED BY <1>2, <1>3, MaxDigitsAssumption DEF Text

(* What is copied over a buffer is a text again, and never a smaller       *)
(* number than the one that was copied.                                    *)
LEMMA OverlayBound ==
    ASSUME NEW new \in Text, NEW old \in Text, new.val >= 0, new.len >= 1
    PROVE  /\ Overlay(new, old) \in Text
           /\ Overlay(new, old).val >= new.val
<1>1. CASE new.len >= old.len
  BY <1>1 DEF Overlay, Text
<1>2. CASE ~(new.len >= old.len)
  <2> DEFINE kept == old.len - new.len
             s == 10 ^ kept
  <2>1. kept \in 0 .. MaxDigits
    BY <1>2, MaxDigitsAssumption DEF Text
  <2>2. s \in Nat /\ s >= 1
    BY <2>1, PowersOfTenAssumption
  <2>3. Overlay(new, old) = [len |-> old.len,
                             val |-> (new.val * s) + (old.val % s)]
    BY <1>2 DEF Overlay
  <2> HIDE DEF s, kept
  <2>4. old.val \in Int /\ old.len \in 0 .. MaxDigits /\ new.val \in Nat
    BY DEF Text
  <2>5. old.val % s \in Nat
    BY <2>2, <2>4
  <2>6. new.val * s \in Nat /\ new.val * s >= new.val
    BY <2>2, <2>4
  <2>7. (new.val * s) + (old.val % s) \in Nat
        /\ (new.val * s) + (old.val % s) >= new.val
    BY <2>4, <2>5, <2>6
  <2> QED BY <2>3, <2>4, <2>7 DEF Text
<1> QED BY <1>1, <1>2

-----------------------------------------------------------------------------
(* The inductive invariant. *)

InPass  == Steps \ {"check", "sleep"}
InHand  == InPass \ {"next"}
Booking == {"reset", "total", "record"}

(* The thread never looks at the clock twice in one 00:00. *)
ClockInv == pc = "check" => lastPass < day \/ minute > 0

(* What the pass has sent is recorded, but for the transfer in hand. *)
RecordInv ==
    /\ PassRecordsWhatItSends
    /\ pc \in Booking =>
           sentBefore + 1 .. Len(transfers) \subseteq Recorded \cup {tx_hash}

(* The transfer in hand is what the buffers say, and not recorded yet. *)
HashInv ==
    /\ RecordsMatchTransfers
    /\ pc \in Booking /\ tx_hash # NoHash =>
           /\ tx_hash \in DOMAIN transfers
           /\ transfers[tx_hash] = [addr |-> public_address,
                                    amount |-> current_total.val]
           /\ tx_hash \notin Recorded

(* The address of the buffers is a real one as soon as the amount is. *)
BufferInv ==
    /\ current_total.val >= 0 => public_address \in Address
    /\ ValuesFound /\ pc \in InHand => /\ current_total.val >= 0
                                       /\ data.addr = public_address
    /\ ValuesFound /\ pc \in {"send", "reset"} => number = current_total.val
    /\ ~ValuesFound => /\ public_address = NoAddress
                       /\ current_total.val = -1
    /\ pc \in {"count", "remove"} => current_total.val = 0

(* Nobody has changed the documents that are still to come. *)
CursorInv ==
    /\ pc \in InPass => \A a \in remaining : addresses[a] = cursor[a]
    /\ pc \in InHand => data.addr \notin remaining

(* The buffers cover what the address in hand is owed. *)
CoverInv ==
    ValuesFound /\ pc \in InHand => Owed[public_address] <= current_total.val

(* Everything due that the cursor returned is settled or in hand. *)
ServedInv ==
    ValuesFound /\ pc \in InPass =>
        \A a \in Address \ remaining :
            cursor[a].current >= MinimumAmount =>
                Owed[a] = 0 \/ (a = data.addr /\ pc \in {"send", "reset"})

IInv == TypeOK /\ ClockInv /\ RecordInv /\ HashInv /\ BufferInv /\ CursorInv
        /\ CoverInv /\ ServedInv

-----------------------------------------------------------------------------
(* What the calls on the collection keep. *)

LEMMA UpdateType ==
    ASSUME NEW coll \in Collection, NEW f
    PROVE  /\ Update(coll, f, "current", 0) \in Collection
           /\ \A n \in Nat : Update(coll, f, "total", n) \in Collection
           /\ \A n \in Nat \cup {NotANumber} :
                  Update(coll, f, "inactive", n) \in Collection
           /\ Delete(coll, f) \in Collection
  BY DEF Update, Delete, Selects, Collection, Document, NoDocument, NotANumber

(* A call on one address leaves the documents of the others alone. *)
LEMMA OthersKept ==
    ASSUME NEW coll, NEW f, NEW field, NEW value,
           NEW a \in Address, a # f.addr, coll \in Collection
    PROVE  /\ Update(coll, f, field, value)[a] = coll[a]
           /\ Delete(coll, f)[a] = coll[a]
  BY DEF Update, Delete, Selects

OwedIn(coll, a) == IF coll[a] = NoDocument THEN 0 ELSE coll[a].current

(* Only a write of current_total, and a removal, change what is owed. *)
LEMMA OwedKept ==
    ASSUME NEW coll \in Collection, NEW f, NEW a \in Address
    PROVE  /\ OwedIn(coll, a) \in Nat
           /\ \A n \in Nat :
                  OwedIn(Update(coll, f, "total", n), a) = OwedIn(coll, a)
           /\ \A n \in Nat \cup {NotANumber} :
                  OwedIn(Update(coll, f, "inactive", n), a) = OwedIn(coll, a)
           /\ OwedIn(Update(coll, f, "current", 0), a) \in {0, OwedIn(coll, a)}
           /\ OwedIn(Delete(coll, f), a) \in {0, OwedIn(coll, a)}
           /\ (a = f.addr /\ f.doc = AnyDocument =>
                  OwedIn(Update(coll, f, "current", 0), a) = 0)
  BY DEF OwedIn, Update, Delete, Selects, Collection, Document, NoDocument,
         AnyDocument, NotANumber

LEMMA OwedIsOwedIn == \A a \in Address : Owed[a] = OwedIn(addresses, a)
  BY DEF Owed, OwedIn

(* What a call returns, and that it changed the collection or did not. *)
LEMMA OutcomesAre ==
    ASSUME NEW before, NEW after, NEW o \in Outcomes(before, after)
    PROVE  o.result \in {before, after} /\ (o.ret = 1 => o.result = after)
  BY DEF Outcomes

LEMMA LaterType ==
    ASSUME TypeOK, NEW k \in 0 .. MinutesPerDay, Later(k)
    PROVE  /\ day' \in {day, day + 1} /\ minute' \in 0 .. MinutesPerDay - 1
           /\ day' = day => minute' = minute + k
  BY PaymentTimerAssumption DEF Later, TypeOK

-----------------------------------------------------------------------------
(* Type correctness. *)

LEMMA TypeInit == Init => TypeOK
<1> SUFFICES ASSUME Init PROVE TypeOK
  OBVIOUS
<1>1. 0 \in Nat /\ Nothing \in Text /\ NoData \in Filter
  BY MaxDigitsAssumption DEF Nothing, Text, NoData, Filter, AnyDocument
<1>2. addresses \in Collection /\ cursor \in Collection
  BY PaymentTimerAssumption DEF Init, Collection, Document
<1>3. << >> \in Seq([addr : Address \cup {NoAddress},
                     total : Nat \cup {-1}, hash : Nat])
      /\ << >> \in Seq([addr : Address, amount : Nat]) /\ Len(<< >>) = 0
  OBVIOUS
<1>4. number \in Nat /\ minute \in 0 .. MinutesPerDay - 1
  BY PaymentTimerAssumption DEF Init
<1> QED BY <1>1, <1>2, <1>3, <1>4, PaymentTimerAssumption DEF Init, TypeOK, Steps

LEMMA TypeStep == TypeOK /\ BufferInv /\ [Next]_vars => TypeOK'
<1> SUFFICES ASSUME TypeOK, BufferInv, [Next]_vars PROVE TypeOK'
  OBVIOUS
<1> USE DEF TypeOK, Steps, clock, database, buffers, history
<1>1. CASE NotMidnight
  BY <1>1 DEF NotMidnight
<1>2. CASE StartPass
  BY <1>2 DEF StartPass
<1>3. CASE EndPass
  BY <1>3 DEF EndPass
<1>4. ASSUME NEW a \in Address, NextDocument(a) PROVE TypeOK'
  <2>1. cursor[a] \in Document /\ data' \in Filter
    BY <1>4 DEF NextDocument, Collection, Filter
  <2>2. /\ Printed(cursor[a].current) \in Text
        /\ Printed(cursor[a].current).val >= 0
        /\ Printed(cursor[a].current).len >= 1
    BY <2>1, PrintedType DEF Document
  <2>3. /\ Printed(cursor[a].total) \in Text
        /\ Printed(cursor[a].total).val >= 0
        /\ Printed(cursor[a].total).len >= 1
    BY <2>1, PrintedType DEF Document
  <2>4. /\ Overlay(Printed(cursor[a].current), current_total) \in Text
        /\ Overlay(Printed(cursor[a].total), total) \in Text
        /\ Blank \in Text
    BY SMTT(30), <2>2, <2>3, OverlayBound, MaxDigitsAssumption DEF Text, Blank
  <2>5. /\ current_total' \in Text /\ total' \in Text
        /\ public_address' \in Address \cup {NoAddress}
    BY <1>4, <2>4 DEF NextDocument
  <2>6. number' \in Nat /\ pc' \in Steps
    BY <1>4, <2>5 DEF NextDocument, Scan, Text
  <2> QED BY <1>4, <2>1, <2>5, <2>6 DEF NextDocument
<1>5. CASE SendPayment
  <2>1. day' \in Nat /\ day' >= day /\ minute' \in 0 .. MinutesPerDay - 1
    BY <1>5, LaterType, PaymentTimerAssumption DEF SendPayment
  <2>2. transfers' \in Seq([addr : Address, amount : Nat])
        /\ Len(transfers') \in Nat /\ Len(transfers') >= Len(transfers)
    <3>1. ASSUME Transfer
          PROVE  [addr |-> public_address, amount |-> current_total.val]
                     \in [addr : Address, amount : Nat]
      BY <3>1 DEF Transfer, BufferInv, Text
    <3>2. CASE UNCHANGED transfers
      BY <3>2
    <3>3. CASE Transfer
      <4> DEFINE t == [addr |-> public_address, amount |-> current_total.val]
      <4>1. transfers' = Append(transfers, t)
        BY <3>3 DEF Transfer
      <4>2. t \in [addr : Address, amount : Nat]
        BY <3>1, <3>3
      <4> HIDE DEF t
      <4> QED BY <4>1, <4>2
    <3> QED BY <1>5, <3>2, <3>3 DEF SendPayment, SendAccepted, SendRefused,
                                    SendUnanswered
  <2>3. tx_hash' \in Nat /\ pc' \in Steps
    BY <1>5, <2>2 DEF SendPayment, SendAccepted, SendRefused, SendUnanswered
  <2> QED BY <1>5, <2>1, <2>2, <2>3 DEF SendPayment
<1>6. CASE ResetCurrentTotal
  BY <1>6, UpdateType, OutcomesAre
     DEF ResetCurrentTotal, ByAddress, Filter, AnyDocument
<1>7. CASE AddToTotal
  <2>1. Scan(total, 0) + number \in Nat
    BY DEF Scan, Text
  <2>2. Update(addresses, data, "total", Scan(total, 0) + number) \in Collection
    BY <2>1, UpdateType
  <2>3. addresses' \in Collection /\ pc' \in Steps
    BY <1>7, <2>2, OutcomesAre DEF AddToTotal
  <2> QED BY <1>7, <2>3 DEF AddToTotal
<1>8. CASE RecordPayment
  <2>1. [addr |-> public_address, total |-> current_total.val, hash |-> tx_hash]
            \in [addr : Address \cup {NoAddress}, total : Nat \cup {-1}, hash : Nat]
    BY DEF Text
  <2> DEFINE p == [addr |-> public_address, total |-> current_total.val,
                   hash |-> tx_hash]
  <2>2. payments' \in {payments, Append(payments, p)} /\ pc' \in Steps
    <3>1. ASSUME NEW o \in Outcomes(payments, Append(payments, p))
          PROVE  o.result \in {payments, Append(payments, p)}
      BY ZenonT(60), OutcomesAre
    <3> QED BY <1>8, <3>1 DEF RecordPayment
  <2>3. p \in [addr : Address \cup {NoAddress}, total : Nat \cup {-1}, hash : Nat]
    BY <2>1
  <2> HIDE DEF p
  <2>4. payments' \in Seq([addr : Address \cup {NoAddress},
                          total : Nat \cup {-1}, hash : Nat])
    <3> DEFINE R == [addr : Address \cup {NoAddress},
                     total : Nat \cup {-1}, hash : Nat]
    <3>1. payments \in Seq(R) /\ p \in R
      BY <2>3
    <3> HIDE DEF R
    <3>2. Append(payments, p) \in Seq(R)
      BY <3>1
    <3>3. payments' \in Seq(R)
      BY <2>2, <3>1, <3>2
    <3> QED BY <3>3 DEF R
  <2> QED BY <1>8, <2>2, <2>4 DEF RecordPayment
<1>9. CASE ClearInactivity
  <2>1. Update(addresses, data, "inactive", 0) \in Collection
    BY UpdateType
  <2>2. addresses' \in Collection /\ pc' \in Steps
    BY <1>9, <2>1, OutcomesAre DEF ClearInactivity
  <2> QED BY <1>9, <2>2 DEF ClearInactivity
<1>10. CASE ReadInactivity
  <2>1. number' \in Nat
    <3>1. \A n \in InactivityReads : n \in Int
      BY DEF InactivityReads, ReadField, NotANumber, Selects, Collection, Document
    <3> QED BY <1>10, <3>1 DEF ReadInactivity
  <2> QED BY <1>10, <2>1 DEF ReadInactivity
<1>11. CASE WriteInactivity
  <2>1. Update(addresses, data, "inactive", NotANumber) \in Collection
    BY UpdateType
  <2>2. addresses' \in Collection /\ pc' \in Steps
    <3>1. ASSUME NEW o \in Outcomes(addresses,
                                 Update(addresses, data, "inactive", NotANumber))
          PROVE  o.result \in Collection
      BY SMTT(30), <2>1, OutcomesAre
    <3> QED BY <1>11, <3>1 DEF WriteInactivity
  <2> QED BY <1>11, <2>2 DEF WriteInactivity
<1>12. CASE RemoveInactive
  BY SMTT(30), <1>12, UpdateType, OutcomesAre DEF RemoveInactive
<1>13. CASE Sleep
  BY SMTT(30), <1>13, LaterType, PaymentTimerAssumption DEF Sleep
<1>14. CASE Restart
  BY <1>14, MaxDigitsAssumption, PaymentTimerAssumption
     DEF Restart, Collection, Nothing, Text, NoData, Filter, AnyDocument
<1>15. CASE UNCHANGED vars
  BY <1>15 DEF vars
<1> QED BY <1>1, <1>2, <1>3, <1>4, <1>5, <1>6, <1>7, <1>8, <1>9, <1>10, <1>11,
           <1>12, <1>13, <1>14, <1>15 DEF Next, Thread

-----------------------------------------------------------------------------
(* The parts of the invariant, one lemma each. *)

LEMMA InvInit == Init => IInv
<1> SUFFICES ASSUME Init PROVE IInv
  OBVIOUS
<1>1. TypeOK
  BY TypeInit
<1>2. Recorded = {} /\ Len(transfers) = 0 /\ sentBefore + 1 .. Len(transfers) = {}
  BY DEF Init, Recorded
<1> QED BY <1>1, <1>2
        DEF Init, IInv, ClockInv, RecordInv, PassRecordsWhatItSends, HashInv,
            RecordsMatchTransfers, BufferInv, CursorInv, CoverInv, ServedInv,
            InPass, InHand, Booking, Steps, Nothing

LEMMA ClockStep == TypeOK /\ ClockInv /\ [Next]_vars => ClockInv'
<1> SUFFICES ASSUME TypeOK, ClockInv, [Next]_vars PROVE ClockInv'
  OBVIOUS
<1>1. CASE Sleep
  <2>1. PICK k \in 1 .. MaxSleep : Later(k)
    BY <1>1 DEF Sleep
  <2>2. k >= 1 /\ k \in 0 .. MinutesPerDay
    BY PaymentTimerAssumption
  <2> QED BY <1>1, <2>1, <2>2, LaterType, PaymentTimerAssumption
          DEF Sleep, history, ClockInv, TypeOK
<1>2. CASE Restart
  BY <1>2 DEF Restart, clock, ClockInv, TypeOK
<1>3. CASE UNCHANGED vars
  BY <1>3 DEF vars, ClockInv
<1>4. ASSUME pc' # "check" PROVE ClockInv'
  BY <1>4 DEF ClockInv
<1>5. CASE Thread /\ ~Sleep
  <2>1. pc' # "check"
    BY <1>5 DEF Thread, NotMidnight, StartPass, EndPass, NextDocument, SendPayment,
         SendAccepted, SendRefused, SendUnanswered, ResetCurrentTotal, AddToTotal,
         RecordPayment, ClearInactivity, ReadInactivity, WriteInactivity,
         RemoveInactive
  <2> QED BY <2>1, <1>4
<1> QED BY <1>1, <1>2, <1>3, <1>5 DEF Next

LEMMA BufferStep == TypeOK /\ BufferInv /\ [Next]_vars => BufferInv'
<1> SUFFICES ASSUME TypeOK, BufferInv, [Next]_vars PROVE BufferInv'
  OBVIOUS
<1> USE DEF BufferInv, InHand, InPass, Steps, buffers
<1>1. CASE NotMidnight \/ StartPass \/ EndPass \/ Sleep
  BY <1>1 DEF NotMidnight, StartPass, EndPass, Sleep
<1>2. ASSUME NEW a \in Address, NextDocument(a) PROVE BufferInv'
  <2>1. CASE ValuesFound
    <3>1. cursor[a] \in Document
      BY <1>2 DEF NextDocument, TypeOK, Collection
    <3>2. /\ Printed(cursor[a].current) \in Text
          /\ Printed(cursor[a].current).val >= 0
          /\ Printed(cursor[a].current).len >= 1
      BY <3>1, PrintedType DEF Document
    <3>3. Overlay(Printed(cursor[a].current), current_total).val >= 0
      BY <3>2, OverlayBound DEF TypeOK, Text
    <3> QED BY <1>2, <2>1, <3>3 DEF NextDocument, Scan
  <2>2. CASE ~ValuesFound
    BY <1>2, <2>2 DEF NextDocument, Blank
  <2> QED BY <2>1, <2>2
<1>3. CASE SendPayment
  BY <1>3 DEF SendPayment, SendAccepted, SendRefused, SendUnanswered
<1>4. CASE ResetCurrentTotal
  BY <1>4 DEF ResetCurrentTotal, ByAddress
<1>5. CASE AddToTotal \/ RecordPayment
  BY <1>5 DEF AddToTotal, RecordPayment
<1>6. CASE ClearInactivity
  BY <1>6 DEF ClearInactivity
<1>7. CASE ReadInactivity
  BY <1>7 DEF ReadInactivity, Printed
<1>8. CASE WriteInactivity \/ RemoveInactive
  BY <1>8 DEF WriteInactivity, RemoveInactive
<1>9. CASE Restart
  BY <1>9 DEF Restart, Nothing
<1>10. CASE UNCHANGED vars
  BY <1>10 DEF vars
<1> QED BY <1>1, <1>2, <1>3, <1>4, <1>5, <1>6, <1>7, <1>8, <1>9, <1>10
        DEF Next, Thread

(* What one step may do to the collection: it touches only the document in *)
(* hand, and what an address is owed stays or becomes nothing.             *)
LEMMA AddressStep ==
    ASSUME TypeOK, BufferInv, [Next]_vars, NEW a \in Address
    PROVE  /\ (pc \in InHand /\ a = data.addr) \/ addresses'[a] = addresses[a]
           /\ Owed'[a] = Owed[a] \/ (pc \in {"reset", "remove"} /\ Owed'[a] = 0)
           /\ pc = "reset" /\ pc' = "total" /\ a = public_address => Owed'[a] = 0
           /\ pc = "reset" /\ a # public_address => Owed'[a] = Owed[a]
<1> USE DEF InHand, InPass, Steps, database
<1>1. addresses \in Collection /\ public_address \in Address \cup {NoAddress}
      /\ number \in Nat
  BY DEF TypeOK
<1>2. /\ addresses' = addresses => Owed'[a] = Owed[a]
      /\ OwedIn(addresses', a) = Owed'[a] /\ OwedIn(addresses, a) = Owed[a]
  BY DEF Owed, OwedIn
<1>3. CASE addresses' = addresses /\ ~ResetCurrentTotal
  <2>1. ~(pc = "reset" /\ pc' = "total")
    BY <1>3 DEF Next, Thread, NotMidnight, StartPass, EndPass, NextDocument,
         SendPayment, SendAccepted, SendRefused, SendUnanswered, AddToTotal,
         RecordPayment, ClearInactivity, ReadInactivity, WriteInactivity,
         RemoveInactive, Sleep, Restart, vars
  <2> QED BY <1>2, <1>3, <2>1
<1>4. CASE ResetCurrentTotal
  <2> DEFINE after == Update(addresses, ByAddress, "current", 0)
  <2>1. addresses' \in {addresses, after} /\ (pc' = "total" => addresses' = after)
    BY <1>4, OutcomesAre DEF ResetCurrentTotal
  <2>2. pc = "reset" /\ (ValuesFound => data.addr = public_address)
        /\ (~ValuesFound => public_address = NoAddress)
    BY <1>4 DEF ResetCurrentTotal, BufferInv
  <2>3. a # public_address => after[a] = addresses[a]
    BY <1>1, OthersKept DEF ByAddress
  <2>4. OwedIn(after, a) \in {0, OwedIn(addresses, a)}
        /\ (a = public_address => OwedIn(after, a) = 0)
    BY <1>1, OwedKept DEF ByAddress
  <2>5. a # public_address => OwedIn(after, a) = OwedIn(addresses, a)
    BY <2>3 DEF OwedIn
  <2> HIDE DEF after
  <2> QED BY <1>2, <2>1, <2>2, <2>3, <2>4, <2>5, AddressAssumption
<1>5. CASE AddToTotal
  <2> DEFINE n == Scan(total, 0) + number
             after == Update(addresses, data, "total", n)
  <2>1. addresses' \in {addresses, after} /\ pc = "total"
    BY <1>5, OutcomesAre DEF AddToTotal
  <2>2. n \in Nat
    BY DEF Scan, Text, TypeOK
  <2>3. a # data.addr => after[a] = addresses[a]
    BY <1>1, OthersKept
  <2>4. OwedIn(after, a) = OwedIn(addresses, a)
    BY <1>1, <2>2, OwedKept
  <2> HIDE DEF after
  <2> QED BY <1>2, <2>1, <2>3, <2>4
<1>6. CASE ClearInactivity \/ WriteInactivity
  <2>1. PICK v \in {0, NotANumber} :
            addresses' \in {addresses, Update(addresses, data, "inactive", v)}
    BY <1>6, OutcomesAre DEF ClearInactivity, WriteInactivity
  <2> DEFINE after == Update(addresses, data, "inactive", v)
  <2>2. pc \in {"inactivity", "count"}
    BY <1>6 DEF ClearInactivity, WriteInactivity
  <2>3. a # data.addr => after[a] = addresses[a]
    BY <1>1, OthersKept
  <2>4. OwedIn(after, a) = OwedIn(addresses, a)
    BY <1>1, OwedKept
  <2> QED BY <1>2, <2>1, <2>2, <2>3, <2>4
<1>7. CASE RemoveInactive
  <2> DEFINE after == Delete(addresses, data)
  <2>1. addresses' \in {addresses, after} /\ pc = "remove"
    BY <1>7, OutcomesAre DEF RemoveInactive
  <2>2. a # data.addr => after[a] = addresses[a]
    BY <1>1, OthersKept
  <2>3. OwedIn(after, a) \in {0, OwedIn(addresses, a)}
    BY <1>1, OwedKept
  <2> HIDE DEF after
  <2> QED BY <1>2, <2>1, <2>2, <2>3
<1>8. CASE addresses' = addresses
  BY <1>3, <1>4, <1>8
<1> QED BY <1>4, <1>5, <1>6, <1>7, <1>8
        DEF Next, Thread, NotMidnight, StartPass, EndPass, NextDocument,
            SendPayment, RecordPayment, ReadInactivity, Sleep, Restart, vars

LEMMA CursorStep == TypeOK /\ BufferInv /\ CursorInv /\ [Next]_vars => CursorInv'
<1> SUFFICES ASSUME TypeOK, BufferInv, CursorInv, [Next]_vars PROVE CursorInv'
  OBVIOUS
<1> USE DEF InHand, InPass, Steps, buffers, NoData
<1>1. CASE StartPass
  BY <1>1 DEF StartPass, CursorInv, database
<1>2. ASSUME NEW a \in Address, NextDocument(a) PROVE CursorInv'
  BY <1>2 DEF NextDocument, CursorInv, database
<1>3. CASE Sleep \/ Restart \/ NotMidnight
  BY <1>3 DEF Sleep, Restart, NotMidnight, CursorInv
<1>4. ASSUME cursor' = cursor, remaining' = remaining, data' = data,
             pc \in InPass, pc' \in InHand => pc \in InHand
      PROVE  CursorInv'
  <2>1. \A a \in remaining : addresses'[a] = addresses[a]
    BY <1>4, AddressStep DEF CursorInv, TypeOK
  <2> QED BY <1>4, <2>1 DEF CursorInv
<1>5. CASE ResetCurrentTotal
  <2>1. \A a \in remaining : addresses'[a] = addresses[a]
    BY <1>5, AddressStep DEF CursorInv, TypeOK, ResetCurrentTotal
  <2>2. data'.addr \notin remaining
    BY <1>5, AddressAssumption
       DEF ResetCurrentTotal, ByAddress, BufferInv, CursorInv, TypeOK
  <2> QED BY <1>5, <2>1, <2>2 DEF ResetCurrentTotal, CursorInv
<1>6. CASE EndPass \/ SendPayment \/ AddToTotal \/ RecordPayment
           \/ ClearInactivity \/ ReadInactivity \/ WriteInactivity \/ RemoveInactive
  <2>1. cursor' = cursor /\ remaining' = remaining /\ data' = data /\ pc \in InPass
        /\ (pc' \in InHand => pc \in InHand)
    BY <1>6 DEF EndPass, SendPayment, AddToTotal, RecordPayment, ClearInactivity,
         ReadInactivity, WriteInactivity, RemoveInactive
  <2> QED BY <1>4, <2>1
<1>7. CASE UNCHANGED vars
  BY <1>7 DEF vars, CursorInv
<1> QED BY <1>1, <1>2, <1>3, <1>5, <1>6, <1>7 DEF Next, Thread

(* The next document puts an amount into the buffers that covers it. *)
LEMMA NextCovers ==
    ASSUME TypeOK, CursorInv, ValuesFound, NEW a \in Address, NextDocument(a)
    PROVE  /\ Owed'[a] = cursor[a].current
           /\ current_total'.val >= cursor[a].current
           /\ number' = current_total'.val
           /\ public_address' = a /\ data'.addr = a
<1>1. cursor[a] \in Document /\ addresses[a] = cursor[a] /\ addresses' = addresses
  BY DEF NextDocument, TypeOK, Collection, CursorInv, InPass, Steps, database
<1>2. Owed'[a] = cursor[a].current
  BY <1>1 DEF Owed, Document, NoDocument
<1>3. /\ Printed(cursor[a].current) \in Text
      /\ Printed(cursor[a].current).val = cursor[a].current
      /\ Printed(cursor[a].current).val >= 0
      /\ Printed(cursor[a].current).len >= 1
  BY <1>1, PrintedType DEF Document
<1>4. current_total' = Overlay(Printed(cursor[a].current), current_total)
  BY DEF NextDocument
<1>5. current_total' \in Text /\ current_total'.val >= cursor[a].current
  BY <1>3, <1>4, OverlayBound DEF TypeOK
<1>6. number' = current_total'.val
  <2>1. cursor[a].current \in Nat /\ current_total'.val \in Int
    BY <1>1, <1>5 DEF Document, Text
  <2>2. current_total'.val >= 0
    BY <1>5, <2>1
  <2> QED BY <2>2 DEF NextDocument, Scan
<1> QED BY <1>2, <1>5, <1>6 DEF NextDocument

LEMMA CoverStep ==
    TypeOK /\ BufferInv /\ CursorInv /\ CoverInv /\ [Next]_vars => CoverInv'
<1> SUFFICES ASSUME TypeOK, BufferInv, CursorInv, CoverInv, [Next]_vars, ValuesFound
             PROVE  CoverInv'
  BY DEF CoverInv
<1> USE DEF InHand, InPass, Steps, buffers
<1>1. ASSUME NEW a \in Address, NextDocument(a) PROVE CoverInv'
  BY <1>1, NextCovers DEF CoverInv, TypeOK, Collection, Document
<1>2. CASE NotMidnight \/ StartPass \/ EndPass \/ Sleep \/ Restart
  BY <1>2 DEF NotMidnight, StartPass, EndPass, Sleep, Restart, CoverInv
<1>3. ASSUME pc \in InHand, public_address' = public_address,
             current_total' = current_total
      PROVE  CoverInv'
  <2>1. public_address \in Address /\ current_total.val >= 0
    BY <1>3 DEF BufferInv
  <2>2. Owed'[public_address] \in {0, Owed[public_address]}
    BY <2>1, AddressStep
  <2> QED BY <1>3, <2>1, <2>2 DEF CoverInv
<1>4. CASE SendPayment \/ ResetCurrentTotal \/ AddToTotal \/ RecordPayment
           \/ ClearInactivity \/ ReadInactivity \/ WriteInactivity \/ RemoveInactive
  <2>1. pc \in InHand /\ public_address' = public_address
        /\ current_total' = current_total
    BY <1>4 DEF SendPayment, ResetCurrentTotal, AddToTotal, RecordPayment,
         ClearInactivity, ReadInactivity, WriteInactivity, RemoveInactive
  <2> QED BY <1>3, <2>1
<1>5. CASE UNCHANGED vars
  BY <1>5 DEF vars, CoverInv, Owed
<1> QED BY <1>1, <1>2, <1>4, <1>5 DEF Next, Thread

LEMMA ServedStep ==
    TypeOK /\ BufferInv /\ CursorInv /\ CoverInv /\ ServedInv /\ [Next]_vars
        => ServedInv'
<1> SUFFICES ASSUME TypeOK, BufferInv, CursorInv, CoverInv, ServedInv, [Next]_vars,
                    ValuesFound
             PROVE  ServedInv'
  BY DEF ServedInv
<1> USE DEF InHand, InPass, Steps, buffers
<1>1. CASE StartPass
  <2>1. \A a \in Address \ remaining' : cursor'[a] = NoDocument
    BY <1>1 DEF StartPass
  <2>2. ~(NoDocument.current >= MinimumAmount)
    BY PaymentTimerAssumption DEF NoDocument
  <2> QED BY <2>1, <2>2 DEF ServedInv
<1>2. ASSUME NEW b \in Address, NextDocument(b) PROVE ServedInv'
  <2> SUFFICES ASSUME NEW a \in Address \ remaining',
                      cursor'[a].current >= MinimumAmount
               PROVE  (Owed[a] = 0)' \/ (a = data.addr /\ pc \in {"send", "reset"})'
    BY DEF ServedInv
  <2>1. CASE a = b
    <3>1. number' >= cursor[a].current /\ cursor'[a] = cursor[a]
      BY <1>2, <2>1, NextCovers DEF NextDocument
    <3>2. cursor[a].current \in Nat /\ number' \in Nat
      BY <1>2, <2>1, TypeStep DEF TypeOK, NextDocument, Collection, Document
    <3>3. number' >= MinimumAmount
      BY <3>1, <3>2, PaymentTimerAssumption
    <3> QED BY <1>2, <2>1, <3>3, NextCovers DEF NextDocument, Due
  <2>2. CASE a # b
    <3>1. Owed[a] = 0
      BY <1>2, <2>2 DEF NextDocument, ServedInv
    <3> QED BY <1>2, <3>1 DEF NextDocument, database, Owed
  <2> QED BY <2>1, <2>2
<1>3. CASE NotMidnight \/ EndPass \/ Sleep \/ Restart
  BY <1>3 DEF NotMidnight, EndPass, Sleep, Restart, ServedInv
<1>4. ASSUME cursor' = cursor, remaining' = remaining, pc \in InHand,
             data'.addr = data.addr, ~(pc \in {"send", "reset"} /\ pc' \in InPass)
      PROVE  ServedInv'
  <2> SUFFICES ASSUME NEW a \in Address \ remaining,
                      cursor[a].current >= MinimumAmount, pc' \in InPass
               PROVE  Owed'[a] = 0
    BY <1>4 DEF ServedInv
  <2>1. Owed[a] = 0
    BY <1>4 DEF ServedInv
  <2> QED BY <2>1, AddressStep
<1>5. CASE SendPayment
  <2>1. Owed' = Owed
    BY <1>5 DEF SendPayment, database, Owed
  <2>2. pc = "send" /\ pc' \in {"reset", "sleep"}
        /\ UNCHANGED <<cursor, remaining, data>>
    BY <1>5 DEF SendPayment, SendAccepted, SendRefused, SendUnanswered
  <2> QED BY <2>1, <2>2 DEF ServedInv
<1>6. CASE ResetCurrentTotal
  <2> SUFFICES ASSUME NEW a \in Address \ remaining,
                      cursor[a].current >= MinimumAmount, pc' \in InPass
               PROVE  Owed'[a] = 0
    BY <1>6 DEF ServedInv, ResetCurrentTotal
  <2>1. pc = "reset" /\ pc' = "total" /\ data.addr = public_address
    BY <1>6 DEF ResetCurrentTotal, BufferInv
  <2>2. CASE a = public_address
    BY <2>1, <2>2, AddressStep
  <2>3. CASE a # public_address
    <3>1. Owed[a] = 0
      BY <2>1, <2>3 DEF ServedInv
    <3> QED BY <2>1, <2>3, <3>1, AddressStep
  <2> QED BY <2>2, <2>3
<1>7. CASE AddToTotal \/ RecordPayment \/ ClearInactivity \/ ReadInactivity
           \/ WriteInactivity \/ RemoveInactive
  <2>1. /\ cursor' = cursor /\ remaining' = remaining /\ pc \in InHand
        /\ data' = data /\ pc \notin {"send", "reset"}
    BY <1>7 DEF AddToTotal, RecordPayment, ClearInactivity, ReadInactivity,
         WriteInactivity, RemoveInactive
  <2> QED BY <1>4, <2>1
<1>8. CASE UNCHANGED vars
  BY <1>8 DEF vars, ServedInv, Owed
<1> QED BY <1>1, <1>2, <1>3, <1>5, <1>6, <1>7, <1>8 DEF Next, Thread

(* What recording a payment does to the set of recorded hashes. *)
LEMMA RecordedStep ==
    ASSUME TypeOK, RecordPayment
    PROVE  /\ payments' = payments \/
                  payments' = Append(payments, [addr |-> public_address,
                                                total |-> current_total.val,
                                                hash |-> tx_hash])
           /\ Recorded' \in {Recorded, Recorded \cup {tx_hash}}
           /\ pc' # "sleep" => Recorded' = Recorded \cup {tx_hash}
           /\ pc' \in {"inactivity", "sleep"}
<1> DEFINE r == [addr |-> public_address, total |-> current_total.val,
                 hash |-> tx_hash]
<1>1. PICK o \in Outcomes(payments, Append(payments, r)) :
          /\ payments' = o.result
          /\ pc' = IF o.ret = 1 THEN "inactivity" ELSE "sleep"
  BY DEF RecordPayment
<1>2. /\ payments' \in {payments, Append(payments, r)}
      /\ pc' # "sleep" => payments' = Append(payments, r)
      /\ pc' \in {"inactivity", "sleep"}
  <2> HIDE DEF r
  <2>1. o.result \in {payments, Append(payments, r)}
        /\ (o.ret = 1 => o.result = Append(payments, r))
    BY <1>1, OutcomesAre
  <2> QED BY <1>1, <2>1
<1>3. payments' = Append(payments, r) => Recorded' = Recorded \cup {tx_hash}
  <2> SUFFICES ASSUME payments' = Append(payments, r)
               PROVE  Recorded' = Recorded \cup {tx_hash}
    OBVIOUS
  <2>1. /\ DOMAIN payments = 1 .. Len(payments) /\ Len(payments) \in Nat
        /\ DOMAIN payments' = 1 .. Len(payments) + 1
        /\ \A i \in 1 .. Len(payments) : payments'[i] = payments[i]
        /\ payments'[Len(payments) + 1] = r
    BY DEF TypeOK
  <2>2. r.hash = tx_hash
    OBVIOUS
  <2> HIDE DEF r
  <2> QED BY <2>1, <2>2 DEF Recorded
<1>4. payments' = payments => Recorded' = Recorded
  BY DEF Recorded
<1> QED BY <1>2, <1>3, <1>4

LEMMA RecordStep == TypeOK /\ RecordInv /\ [Next]_vars => RecordInv'
<1> SUFFICES ASSUME TypeOK, RecordInv, [Next]_vars PROVE RecordInv'
  OBVIOUS
<1> USE DEF RecordInv, PassRecordsWhatItSends, Booking, database, history, buffers
<1>1. CASE StartPass
  <2>1. sentBefore' + 1 .. Len(transfers') = {}
    BY <1>1 DEF StartPass, TypeOK
  <2> QED BY <2>1
<1>2. CASE SendPayment
  <2>1. pc = "send" /\ Recorded' = Recorded /\ sentBefore' = sentBefore
    BY <1>2 DEF SendPayment, Recorded
  <2>2. CASE SendAccepted
    <3>1. Len(transfers') = Len(transfers) + 1 /\ tx_hash' = Len(transfers) + 1
      BY <2>2 DEF SendAccepted, Transfer, TypeOK
    <3>2. sentBefore + 1 .. Len(transfers') \subseteq
              (sentBefore + 1 .. Len(transfers)) \cup {tx_hash'}
      BY <3>1 DEF TypeOK
    <3> QED BY <2>1, <2>2, <3>2 DEF SendAccepted
  <2>3. CASE SendRefused
    BY <2>1, <2>3 DEF SendRefused
  <2>4. CASE SendUnanswered
    BY <2>4 DEF SendUnanswered
  <2> QED BY <1>2, <2>2, <2>3, <2>4 DEF SendPayment
<1>3. CASE RecordPayment
  <2>1. UNCHANGED <<transfers, sentBefore>> /\ pc = "record"
    BY <1>3 DEF RecordPayment
  <2> QED BY <1>3, <2>1, RecordedStep
<1>4. CASE NotMidnight \/ EndPass \/ Sleep \/ Restart
  BY <1>4 DEF NotMidnight, EndPass, Sleep, Restart
<1>5. ASSUME UNCHANGED <<payments, transfers, sentBefore, tx_hash>>,
             \/ pc' = "sleep"
             \/ pc' \in Booking /\ pc \in Booking
             \/ pc \in {"next", "inactivity", "count", "remove"} /\ pc' \notin Booking
      PROVE  RecordInv'
  <2>1. Recorded' = Recorded
    BY <1>5 DEF Recorded
  <2> QED BY <1>5, <2>1
<1>6. ASSUME NEW a \in Address, NextDocument(a) PROVE RecordInv'
  BY <1>6, <1>5 DEF NextDocument
<1>7. CASE ResetCurrentTotal \/ AddToTotal
  BY <1>7, <1>5 DEF ResetCurrentTotal, AddToTotal
<1>8. CASE ClearInactivity \/ ReadInactivity \/ WriteInactivity \/ RemoveInactive
  BY <1>8, <1>5 DEF ClearInactivity, ReadInactivity, WriteInactivity, RemoveInactive
<1>9. CASE UNCHANGED vars
  BY <1>9 DEF vars, Recorded
<1> QED BY <1>1, <1>2, <1>3, <1>4, <1>6, <1>7, <1>8, <1>9 DEF Next, Thread

LEMMA HashStep == TypeOK /\ BufferInv /\ HashInv /\ [Next]_vars => HashInv'
<1> SUFFICES ASSUME TypeOK, BufferInv, HashInv, [Next]_vars PROVE HashInv'
  OBVIOUS
<1> USE DEF HashInv, RecordsMatchTransfers, RecordIsTransfer, Booking
<1>1. Len(transfers) \in Nat /\ DOMAIN transfers = 1 .. Len(transfers)
      /\ Len(payments) \in Nat /\ DOMAIN payments = 1 .. Len(payments)
      /\ tx_hash \in Nat
  BY DEF TypeOK
<1>2. Recorded \subseteq {NoHash} \cup DOMAIN transfers
  BY DEF Recorded
<1>3. CASE SendPayment
  <2>1. UNCHANGED <<payments, public_address, current_total>> /\ Recorded' = Recorded
    BY <1>3 DEF SendPayment, database, Recorded
  <2> DEFINE t == [addr |-> public_address, amount |-> current_total.val]
  <2>2. transfers' \in {transfers, Append(transfers, t)}
    BY <1>3 DEF SendPayment, SendAccepted, SendRefused, SendUnanswered, Transfer
  <2>3. transfers' = Append(transfers, t) =>
            /\ DOMAIN transfers' = 1 .. Len(transfers) + 1
            /\ Len(transfers') = Len(transfers) + 1
            /\ \A i \in 1 .. Len(transfers) : transfers'[i] = transfers[i]
            /\ transfers'[Len(transfers) + 1] = t
    <3> HIDE DEF t
    <3> QED BY DEF TypeOK
  <2>4. RecordsMatchTransfers'
    BY <1>1, <2>1, <2>2, <2>3
  <2>5. pc' \in Booking /\ tx_hash' # NoHash =>
            transfers' = Append(transfers, t) /\ tx_hash' = Len(transfers')
    BY <1>3 DEF SendPayment, SendAccepted, SendRefused, SendUnanswered, Transfer
  <2>6. Len(transfers) + 1 \notin Recorded
    BY <1>1, <1>2
  <2> QED BY <1>1, <2>1, <2>3, <2>4, <2>5, <2>6
<1>4. CASE RecordPayment
  <2>1. UNCHANGED <<transfers, public_address, current_total, tx_hash>>
        /\ pc = "record"
    BY <1>4 DEF RecordPayment, buffers
  <2>2. pc' \notin Booking
    BY <1>4, RecordedStep
  <2> DEFINE r == [addr |-> public_address, total |-> current_total.val,
                   hash |-> tx_hash]
  <2>3. CASE payments' = payments
    BY <2>1, <2>2, <2>3
  <2>4. CASE payments' = Append(payments, r)
    <3>1. /\ DOMAIN payments' = 1 .. Len(payments) + 1
          /\ \A i \in 1 .. Len(payments) : payments'[i] = payments[i]
          /\ payments'[Len(payments) + 1] = r
      <4> HIDE DEF r
      <4> QED BY <2>4 DEF TypeOK
    <3>2. \A i \in 1 .. Len(payments) :
              payments[i].hash = tx_hash => tx_hash = NoHash
      BY <1>1, <2>1 DEF Recorded
    <3>3. tx_hash # NoHash =>
              /\ r.hash \in DOMAIN transfers
              /\ transfers[r.hash] = [addr |-> r.addr, amount |-> r.total]
      BY <2>1
    <3>4. r.hash = tx_hash
      OBVIOUS
    <3> HIDE DEF r
    <3>5. ASSUME NEW i \in DOMAIN payments', payments'[i].hash # NoHash
          PROVE  RecordIsTransfer(payments[i])'
      <4>1. CASE i \in DOMAIN payments
        <5>1. payments'[i] = payments[i] /\ RecordIsTransfer(payments[i])
          BY <1>1, <3>1, <3>5, <4>1
        <5> QED BY <2>1, <5>1
      <4>2. CASE i = Len(payments) + 1
        <5>1. payments'[i] = r
          BY <3>1, <4>2
        <5> QED BY <2>1, <3>3, <3>4, <3>5, <5>1
      <4> QED BY <1>1, <3>1, <4>1, <4>2
    <3>6. ASSUME NEW i \in DOMAIN payments', NEW j \in DOMAIN payments',
                 i # j, payments'[i].hash = payments'[j].hash
          PROVE  payments'[i].hash = NoHash
      BY <1>1, <3>1, <3>2, <3>4, <3>6
    <3> QED BY <2>2, <3>5, <3>6
  <2> QED BY <1>4, <2>3, <2>4, RecordedStep
<1>5. ASSUME UNCHANGED <<payments, transfers, public_address, current_total, tx_hash>>,
             pc' \in Booking => pc \in Booking
      PROVE  HashInv'
  <2>1. Recorded' = Recorded
    BY <1>5 DEF Recorded
  <2> QED BY <1>5, <2>1
<1>6. ASSUME UNCHANGED <<payments, transfers>>, pc' \notin Booking PROVE HashInv'
  BY <1>6
<1>7. ASSUME NEW a \in Address, NextDocument(a) PROVE HashInv'
  BY <1>7, <1>6 DEF NextDocument, database
<1>8. CASE NotMidnight \/ StartPass \/ EndPass \/ Sleep \/ Restart
  BY <1>8, <1>6 DEF NotMidnight, StartPass, EndPass, Sleep, Restart, database
<1>9. CASE ResetCurrentTotal \/ AddToTotal
  BY <1>9, <1>5 DEF ResetCurrentTotal, AddToTotal, buffers
<1>10. CASE ClearInactivity \/ ReadInactivity \/ WriteInactivity \/ RemoveInactive
  BY <1>10, <1>6 DEF ClearInactivity, ReadInactivity, WriteInactivity,
                     RemoveInactive, database
<1>11. CASE UNCHANGED vars
  BY <1>11, <1>5 DEF vars
<1> QED BY <1>3, <1>4, <1>7, <1>8, <1>9, <1>10, <1>11 DEF Next, Thread

-----------------------------------------------------------------------------
(* The inductive invariant holds in every reachable state. *)
THEOREM Invariance == Spec => []IInv
<1>1. Init => IInv
  BY InvInit
<1>2. IInv /\ [Next]_vars => IInv'
  BY TypeStep, ClockStep, RecordStep, HashStep, BufferStep, CursorStep, CoverStep,
     ServedStep DEF IInv
<1> QED BY <1>1, <1>2, PTL DEF Spec

(* Every variable keeps its type, for any number of addresses and days. *)
THEOREM TypeCorrect == Spec => []TypeOK
<1>1. IInv => TypeOK
  BY DEF IInv
<1> QED BY <1>1, Invariance, PTL

(* A pass that goes on has recorded everything it sent. *)
THEOREM RecordsWhatItSends == Spec => []PassRecordsWhatItSends
<1>1. IInv => PassRecordsWhatItSends
  BY DEF IInv, RecordInv
<1> QED BY <1>1, Invariance, PTL

(* A record with a hash shows the transfer the wallet made, and only once. *)
THEOREM RecordsAreTransfers == Spec => []RecordsMatchTransfers
<1>1. IInv => RecordsMatchTransfers
  BY DEF IInv, HashInv
<1> QED BY <1>1, Invariance, PTL

(* One process starts at most one pass a day. *)
THEOREM AtMostOnePassPerDay == Spec => OnePassPerDay
<1>1. IInv /\ [Next]_vars => [pc = "check" /\ pc' = "next" => lastPass < day]_vars
  <2> SUFFICES ASSUME IInv, Next, pc = "check", pc' = "next" PROVE lastPass < day
    BY DEF vars
  <2>1. minute = 0
    BY DEF Next, Thread, NotMidnight, StartPass, EndPass, NextDocument, SendPayment,
       ResetCurrentTotal, AddToTotal, RecordPayment, ClearInactivity,
       ReadInactivity, WriteInactivity, RemoveInactive, Sleep, Restart
  <2> QED BY <2>1 DEF IInv, ClockInv, TypeOK
<1> QED BY <1>1, Invariance, PTL DEF Spec, OnePassPerDay

(* When the values of a document are where the thread looks for them, a    *)
(* pass that comes to its end has settled everything due that it was given. *)
THEOREM EveryDueAddressServed ==
    ASSUME ValuesFound PROVE Spec => PassServesEveryDueAddress
<1>1. IInv /\ [Next]_vars =>
          [pc = "next" /\ pc' = "sleep" =>
               \A a \in Address \ remaining :
                   cursor[a].current >= MinimumAmount => Owed[a] = 0]_vars
  BY DEF IInv, ServedInv, InPass, Steps
<1> QED BY <1>1, Invariance, PTL DEF Spec, PassServesEveryDueAddress

-----------------------------------------------------------------------------
(* The thread implements the promise. *)

LEMMA OwedType == TypeOK => Owed \in [Address -> Nat]
  BY DEF TypeOK, Owed, Collection, Document, NoDocument

LEMMA PromiseInit == Init => Promise!PInit
<1> SUFFICES ASSUME Init PROVE Promise!PInit
  OBVIOUS
<1>1. Owed \in [Address -> Nat]
  BY TypeInit, OwedType
<1>2. Confirmed = Promise!NoRequest
  BY DEF Init, Confirmed, Promise!NoRequest
<1> QED BY <1>1, <1>2 DEF Promise!PInit

(* Outside of the step that resets current_total nobody's debt changes. *)
LEMMA OwedStable ==
    ASSUME IInv, [Next]_vars, pc # "reset"
    PROVE  Owed' = Owed
<1>1. ASSUME NEW a \in Address PROVE Owed'[a] = Owed[a]
  <2>1. CASE pc # "remove"
    BY <2>1, AddressStep DEF IInv
  <2>2. CASE pc = "remove"
    <3>1. ValuesFound /\ current_total.val = 0 /\ data.addr = public_address
      BY <2>2 DEF IInv, BufferInv, InHand, InPass, Steps
    <3>2. Owed[public_address] <= 0
      BY <2>2, <3>1 DEF IInv, CoverInv, InHand, InPass, Steps
    <3>3. CASE a = public_address
      <4>1. Owed[a] = 0
        BY <3>2, <3>3, OwedType DEF IInv
      <4> QED BY <4>1, AddressStep DEF IInv
    <3>4. CASE a # public_address
      BY <3>1, <3>4, AddressStep DEF IInv, Owed
    <3> QED BY <3>3, <3>4
  <2> QED BY <2>1, <2>2
<1> QED BY <1>1 DEF Owed

LEMMA PromiseStep ==
    IInv /\ [Next]_vars => [Promise!PNext]_<<Owed, Confirmed>>
<1> SUFFICES ASSUME IInv, [Next]_vars
             PROVE  Promise!PNext \/ UNCHANGED <<Owed, Confirmed>>
  OBVIOUS
<1> USE DEF Promise!NoRequest
<1>1. CASE pc # "reset" /\ pc' # "reset"
  BY <1>1, OwedStable DEF Confirmed
<1>2. CASE pc # "reset" /\ pc' = "reset"
  <2>1. pc = "send" /\ UNCHANGED <<public_address, number>>
    BY <1>2 DEF Next, Thread, NotMidnight, StartPass, EndPass, NextDocument,
       SendPayment, AddToTotal, RecordPayment, ClearInactivity, ReadInactivity,
       WriteInactivity, RemoveInactive, Sleep, Restart, vars, ResetCurrentTotal
  <2>2. Confirmed = Promise!NoRequest /\ Owed' = Owed
    BY <1>2, OwedStable DEF Confirmed
  <2>3. number \in Nat
    BY DEF IInv, TypeOK
  <2>4. CASE public_address \in Address
    <3>1. Confirmed' = [addr |-> public_address, amount |-> number]
      BY <1>2, <2>1, <2>4 DEF Confirmed
    <3>2. Confirmed' \in Promise!Request
      BY <2>3, <2>4, <3>1 DEF Promise!Request
    <3> QED BY <2>2, <3>2 DEF Promise!PNext, Promise!Confirm
  <2>5. CASE public_address \notin Address
    BY <1>2, <2>1, <2>2, <2>5 DEF Confirmed
  <2> QED BY <2>4, <2>5
<1>3. CASE pc = "reset"
  <2>1. CASE public_address \notin Address
    <3>1. \A a \in Address : Owed'[a] = Owed[a]
      BY <1>3, <2>1, AddressStep DEF IInv
    <3>2. Owed' = Owed
      BY <3>1 DEF Owed
    <3>3. public_address' \notin Address \/ pc' # "reset"
      BY <1>3, <2>1 DEF Next, Thread, NotMidnight, StartPass, EndPass,
         NextDocument, SendPayment, AddToTotal, RecordPayment, ClearInactivity,
         ReadInactivity, WriteInactivity, RemoveInactive, Sleep, Restart, vars,
         ResetCurrentTotal
    <3> QED BY <2>1, <3>2, <3>3 DEF Confirmed
  <2>2. CASE public_address \in Address
    <3>1. /\ Confirmed = [addr |-> public_address, amount |-> number]
          /\ Confirmed # Promise!NoRequest
      BY <1>3, <2>2 DEF Confirmed, IInv, TypeOK
    <3>2. CASE UNCHANGED vars
      BY <3>2 DEF vars, Owed, Confirmed
    <3>3. CASE Restart
      BY <3>1, <3>3 DEF Restart, database, Owed, Confirmed, Promise!PNext,
                        Promise!Forget
    <3>4. CASE ResetCurrentTotal
      <4>1. Confirmed' = Promise!NoRequest
        BY <3>4 DEF ResetCurrentTotal, Confirmed
      <4>2. Owed[public_address] <= number
        <5>1. ValuesFound
          BY <2>2, AddressAssumption DEF IInv, BufferInv
        <5> QED BY <1>3, <5>1 DEF IInv, BufferInv, CoverInv, InHand, InPass, Steps
      <4>3. \A a \in Address : a # public_address => Owed'[a] = Owed[a]
        BY <1>3, AddressStep DEF IInv
      <4>4. Owed'[public_address] \in {0, Owed[public_address]}
        BY <1>3, <2>2, AddressStep DEF IInv
      <4>5. Owed \in [Address -> Nat] /\ DOMAIN Owed' = Address
        BY OwedType DEF IInv, Owed
      <4>6. Owed' = [Owed EXCEPT ![public_address] = 0] \/ Owed' = Owed
        BY <4>3, <4>4, <4>5 DEF Owed
      <4> QED BY <3>1, <4>1, <4>2, <4>6
              DEF Promise!PNext, Promise!Settle, Promise!Forget
    <3> QED BY <1>3, <3>2, <3>3, <3>4
            DEF Next, Thread, NotMidnight, StartPass, EndPass, NextDocument,
                SendPayment, AddToTotal, RecordPayment, ClearInactivity,
                ReadInactivity, WriteInactivity, RemoveInactive, Sleep
  <2> QED BY <2>1, <2>2
<1> QED BY <1>1, <1>2, <1>3

(* payment_timer_thread implements PaymentPromise: whatever fails, an      *)
(* amount owed is wiped only after the wallet answered a request for it.   *)
THEOREM PromiseIsKept == Spec => PromiseKept
<1>1. Init => Promise!PInit
  BY PromiseInit
<1>2. IInv /\ [Next]_vars => [Promise!PNext]_<<Owed, Confirmed>>
  BY PromiseStep
<1> QED BY <1>1, <1>2, Invariance, PTL DEF Spec, PromiseKept, Promise!PSpec

-----------------------------------------------------------------------------
(* What a pass still knows when the block timer writes to the same         *)
(* documents: CursorInv and what rests on it are gone, but the document in *)
(* hand is not to come again, the buffers cover what the cursor said, and  *)
(* a document that is about to be removed had nothing to receive.          *)
HandInv ==
    pc \in InHand => data.addr \notin remaining /\ public_address \notin remaining

SeenInv ==
    ValuesFound /\ pc \in InHand =>
        /\ cursor[public_address] # NoDocument
        /\ cursor[public_address].current <= current_total.val
        /\ data.doc \in {AnyDocument, cursor[public_address]}

RemoveInv ==
    pc = "remove" /\ data.doc = AnyDocument =>
        \/ addresses[public_address] = NoDocument
        \/ addresses[public_address].inactive = NotANumber

PassInv == TypeOK /\ BufferInv /\ HandInv /\ SeenInv /\ RemoveInv

LEMMA PassInit == Init => PassInv
<1>1. Init => TypeOK /\ BufferInv
  BY InvInit DEF IInv
<1> QED BY <1>1 DEF Init, PassInv, HandInv, SeenInv, RemoveInv, InHand, InPass, Steps

(* A document that was copied into the buffers. *)
LEMMA CopiedStep ==
    ASSUME PassInv, NEW a \in Address, NextDocument(a)
    PROVE  HandInv' /\ SeenInv' /\ RemoveInv'
<1>1. cursor[a] \in Document /\ cursor[a] # NoDocument
  BY DEF PassInv, NextDocument, TypeOK, Collection
<1>2. /\ Printed(cursor[a].current) \in Text
      /\ Printed(cursor[a].current).val = cursor[a].current
      /\ Printed(cursor[a].current).val >= 0
      /\ Printed(cursor[a].current).len >= 1
  BY <1>1, PrintedType DEF Document
<1>3. Overlay(Printed(cursor[a].current), current_total).val >= cursor[a].current
  BY <1>2, OverlayBound DEF PassInv, TypeOK
<1>4. SeenInv'
  BY <1>1, <1>3 DEF NextDocument, SeenInv
<1>5. HandInv'
  BY AddressAssumption DEF NextDocument, HandInv, PassInv, TypeOK
<1>6. pc' # "remove"
  BY DEF NextDocument
<1> QED BY <1>4, <1>5, <1>6 DEF RemoveInv

(* A step that leaves the buffers of the document in hand alone. *)
LEMMA SameInHand ==
    ASSUME PassInv, UNCHANGED <<cursor, remaining, public_address, current_total>>,
           data' = data \/ data' = ByAddress, pc' \in InHand => pc \in InHand
    PROVE  HandInv' /\ SeenInv'
BY DEF PassInv, HandInv, SeenInv, ByAddress, AnyDocument

(* WriteInactivity marks the document that is then removed by its address. *)
LEMMA MarkedStep ==
    ASSUME PassInv, WriteInactivity
    PROVE  RemoveInv'
<1> SUFFICES ASSUME pc' = "remove", data.doc = AnyDocument
             PROVE  \/ addresses'[public_address] = NoDocument
                    \/ addresses'[public_address].inactive = NotANumber
  BY DEF RemoveInv, WriteInactivity, buffers
<1> DEFINE after == Update(addresses, data, "inactive", NotANumber)
<1>1. addresses' = after
  BY OutcomesAre DEF WriteInactivity
<1>2. public_address \in Address /\ data.addr = public_address
  BY DEF WriteInactivity, PassInv, BufferInv, InHand, InPass, Steps
<1>3. addresses[public_address] \in Document \cup {NoDocument}
  BY <1>2 DEF PassInv, TypeOK, Collection
<1> QED BY <1>1, <1>2, <1>3 DEF Update, Selects, Document, NoDocument, AnyDocument

(* The thread itself keeps what it knows. *)
LEMMA PassStep == PassInv /\ [Next]_vars => PassInv'
<1> SUFFICES ASSUME PassInv, [Next]_vars PROVE PassInv'
  OBVIOUS
<1> USE DEF InHand, InPass, Steps, buffers
<1>1. TypeOK' /\ BufferInv'
  BY TypeStep, BufferStep DEF PassInv
<1>2. CASE NotMidnight \/ StartPass \/ EndPass \/ Sleep \/ Restart
  BY <1>1, <1>2 DEF NotMidnight, StartPass, EndPass, Sleep, Restart, PassInv,
                    HandInv, SeenInv, RemoveInv
<1>3. ASSUME NEW a \in Address, NextDocument(a) PROVE PassInv'
  BY <1>1, <1>3, CopiedStep DEF PassInv
<1>4. CASE WriteInactivity
  <2>1. HandInv' /\ SeenInv'
    BY <1>4, SameInHand DEF WriteInactivity
  <2> QED BY <1>1, <1>4, <2>1, MarkedStep DEF PassInv
<1>5. CASE SendPayment \/ ResetCurrentTotal \/ AddToTotal \/ RecordPayment
           \/ ClearInactivity \/ ReadInactivity \/ RemoveInactive
  <2>1. /\ UNCHANGED <<cursor, remaining, public_address, current_total>>
        /\ data' = data \/ data' = ByAddress
        /\ pc \in InHand /\ pc' # "remove"
    BY <1>5 DEF SendPayment, SendAccepted, SendRefused, SendUnanswered,
       ResetCurrentTotal, AddToTotal, RecordPayment, ClearInactivity,
       ReadInactivity, RemoveInactive
  <2>2. HandInv' /\ SeenInv'
    BY <2>1, SameInHand
  <2> QED BY <1>1, <2>1, <2>2 DEF PassInv, RemoveInv
<1>6. CASE UNCHANGED vars
  BY <1>1, <1>6 DEF vars, PassInv, HandInv, SeenInv, RemoveInv
<1> QED BY <1>2, <1>3, <1>4, <1>5, <1>6 DEF Next, Thread

(* And a write of current_total by the other thread does not take it away. *)
LEMMA WrittenByOthers ==
    ASSUME PassInv, addresses' \in Collection,
           \A a \in Address :
               \/ addresses'[a] = addresses[a]
               \/ /\ addresses[a] # NoDocument
                  /\ addresses'[a].inactive = addresses[a].inactive,
           UNCHANGED <<clock, payments, transfers, pc, cursor, remaining,
                       buffers, history, restarts>>
    PROVE  PassInv'
<1> USE DEF clock, buffers, history
<1>1. TypeOK'
  BY DEF PassInv, TypeOK
<1>2. BufferInv' /\ HandInv' /\ SeenInv'
  BY DEF PassInv, BufferInv, HandInv, SeenInv
<1>3. RemoveInv'
  <2> SUFFICES ASSUME pc = "remove", data.doc = AnyDocument
               PROVE  \/ addresses'[public_address] = NoDocument
                      \/ addresses'[public_address].inactive = NotANumber
    BY DEF RemoveInv
  <2>1. public_address \in Address
    BY DEF PassInv, BufferInv
  <2> QED BY <2>1 DEF PassInv, RemoveInv
<1> QED BY <1>1, <1>2, <1>3 DEF PassInv

(* So a removal takes nothing away from anyone. *)
LEMMA RemovedHadNothing ==
    ASSUME PassInv, RemoveInactive, NEW a \in Address
    PROVE  Owed'[a] = Owed[a]
<1>1. /\ pc = "remove" /\ ValuesFound /\ current_total.val = 0
      /\ public_address \in Address /\ data.addr = public_address
  BY DEF RemoveInactive, PassInv, BufferInv, InHand, InPass, Steps
<1>2. \/ addresses' = addresses
      \/ /\ addresses' = Delete(addresses, data)
         /\ 30 \in InactivityReads
  <2>1. PICK n \in InactivityReads :
            \E o \in IF n = 30 THEN Outcomes(addresses, Delete(addresses, data))
                     ELSE {[result |-> addresses, ret |-> 1]} :
               addresses' = o.result
    BY DEF RemoveInactive
  <2> QED BY <2>1, OutcomesAre
<1>3. CASE addresses' = addresses
  BY <1>3 DEF Owed
<1>4. CASE /\ addresses' = Delete(addresses, data) /\ 30 \in InactivityReads
           /\ Selects(data, addresses, a)
  <2>1. a = public_address /\ addresses[a] # NoDocument
    BY <1>1, <1>4 DEF Selects
  <2>2. ReadField(addresses, data, "inactive", NotANumber) = 30
    BY <1>4 DEF InactivityReads, NotANumber
  <2>3. addresses[a].inactive = 30
    BY <1>1, <1>4, <2>1, <2>2 DEF ReadField
  <2>4. data.doc # AnyDocument
    BY <1>1, <2>1, <2>3 DEF PassInv, RemoveInv, NotANumber
  <2>5. addresses[a] = cursor[a] /\ cursor[a].current <= 0
    BY <1>1, <1>4, <2>1, <2>4 DEF Selects, PassInv, SeenInv, InHand, InPass, Steps
  <2>6. addresses[a].current = 0
    BY <2>1, <2>5 DEF PassInv, TypeOK, Collection, Document
  <2>7. addresses'[a] = NoDocument
    BY <1>4 DEF Delete
  <2> QED BY <2>1, <2>6, <2>7 DEF Owed
<1>5. CASE addresses' = Delete(addresses, data) /\ ~Selects(data, addresses, a)
  BY <1>5 DEF Delete, Owed
<1> QED BY <1>2, <1>3, <1>4, <1>5

(* The thread makes no document, and removes one only in that step; and    *)
(* only the wipe changes what is owed.                                     *)
LEMMA ExistenceStep ==
    ASSUME PassInv, Thread, NEW a \in Address
    PROVE  /\ addresses[a] = NoDocument => addresses'[a] = NoDocument
           /\ addresses'[a] = NoDocument =>
                 addresses[a] = NoDocument \/ pc = "remove"
           /\ pc # "reset" => Owed'[a] = Owed[a]
<1>1. addresses \in Collection
  BY DEF PassInv, TypeOK
<1>2. pc # "reset" => Owed'[a] = Owed[a]
  <2>1. [Next]_vars
    BY DEF Next
  <2>2. RemoveInactive \/ pc # "remove"
    BY DEF Thread, NotMidnight, StartPass, EndPass, NextDocument, SendPayment,
           ResetCurrentTotal, AddToTotal, RecordPayment, ClearInactivity,
           ReadInactivity, WriteInactivity, Sleep
  <2> QED BY <2>1, <2>2, AddressStep, RemovedHadNothing DEF PassInv
<1>3. SUFFICES /\ addresses[a] = NoDocument => addresses'[a] = NoDocument
               /\ addresses'[a] = NoDocument =>
                     addresses[a] = NoDocument \/ pc = "remove"
  BY <1>2
<1>4. ASSUME NEW f, NEW v \in Nat \cup {NotANumber},
             \/ addresses' \in {addresses, Update(addresses, f, "current", 0)}
             \/ addresses' \in {addresses, Update(addresses, f, "total", v)}
             \/ addresses' \in {addresses, Update(addresses, f, "inactive", v)}
      PROVE  addresses'[a] = NoDocument <=> addresses[a] = NoDocument
  BY <1>1, <1>4 DEF Update, Selects, Collection, Document, NoDocument, NotANumber
<1>5. CASE ResetCurrentTotal
  BY <1>4, <1>5, OutcomesAre DEF ResetCurrentTotal
<1>6. CASE AddToTotal
  <2>1. Scan(total, 0) + number \in Nat
    BY DEF Scan, Text, PassInv, TypeOK
  <2> QED BY <1>4, <1>6, <2>1, OutcomesAre DEF AddToTotal
<1>7. CASE ClearInactivity \/ WriteInactivity
  <2>1. PICK v \in {0, NotANumber} :
            addresses' \in {addresses, Update(addresses, data, "inactive", v)}
    BY <1>7, OutcomesAre DEF ClearInactivity, WriteInactivity
  <2> QED BY <1>4, <2>1
<1>8. CASE RemoveInactive
  <2>1. addresses' \in {addresses, Delete(addresses, data)} /\ pc = "remove"
    BY <1>8, OutcomesAre DEF RemoveInactive
  <2> QED BY <2>1 DEF Delete, Selects
<1>9. CASE addresses' = addresses
  BY <1>9
<1> QED BY <1>5, <1>6, <1>7, <1>8, <1>9
     DEF Thread, NotMidnight, StartPass, EndPass, NextDocument, SendPayment,
         RecordPayment, ReadInactivity, Sleep, database
==============================================================================
