---------------------------- MODULE Ledger_proofs ----------------------------
(***************************************************************************)
(* The promise of Ledger, for every set of accounts and all amounts.       *)
(***************************************************************************)
EXTENDS Ledger, TLAPS

LTypes ==
    /\ owed \in [Account -> Nat]
    /\ sent \in [Account -> Nat]
    /\ credited \in [Account -> Nat]
    /\ seen \in [Account -> Amount]
    /\ paid \in [Account -> Amount]
    /\ reading \in [Account -> Amount]

(* A pass pays one account at a time. *)
OnePayment ==
    \A a, b \in Account : paid[a] # Nothing /\ paid[b] # Nothing => a = b

(* What was paid was looked at first, and it was no less than that. *)
PaidWasSeen(a) ==
    paid[a] # Nothing =>
        /\ seen[a] # Nothing /\ paid[a] >= seen[a]
        /\ a \notin stale => paid[a] = seen[a]

(* Behind the back of a pass an amount only grows, and the account is late. *)
SeenIsOwed(a) ==
    seen[a] # Nothing =>
        /\ a \notin stale => seen[a] <= owed[a]
        /\ a \notin late => seen[a] = owed[a]

(* Behind the back of a split an amount is only wiped: then it is stale. *)
ReadIsOwed(a) ==
    reading[a] # Nothing =>
        /\ a \notin late => reading[a] >= owed[a]
        /\ a \notin stale => reading[a] = owed[a]

Balance(a) == owed[a] + sent[a] - Unwiped(a)

Balanced(a) ==
    /\ a \notin late  => Balance(a) >= credited[a]
    /\ a \notin stale => Balance(a) <= credited[a]

AccountOK(a) ==
    PaidWasSeen(a) /\ SeenIsOwed(a) /\ ReadIsOwed(a) /\ Balanced(a)

LInv == LTypes /\ OnePayment /\ \A a \in Account : AccountOK(a)

-----------------------------------------------------------------------------
LEMMA LInitInv == LInit => LInv
  BY DEF LInit, LInv, LTypes, OnePayment, AccountOK, PaidWasSeen, SeenIsOwed,
         ReadIsOwed, Balanced, Balance, Unwiped, Nowhere, Nothing, Amount

LEMMA LookKeeps == LInv /\ Look => LInv'
<1> SUFFICES ASSUME LInv, Look PROVE LInv'
  OBVIOUS
<1>1. LTypes'
  BY DEF LInv, LTypes, Look, Amount
<1>2. OnePayment'
  BY DEF LInv, OnePayment, Look
<1>3. ASSUME NEW b \in Account PROVE AccountOK(b)'
  <2>1. seen'[b] \in {owed[b], Nothing}
    BY DEF Look
  <2>2. paid[b] = Nothing /\ paid'[b] = Nothing
    BY DEF Look, Nowhere
  <2>3. AccountOK(b)
    BY DEF LInv
  <2> QED
    BY <2>1, <2>2, <2>3 DEF LInv, LTypes, Amount, AccountOK, PaidWasSeen,
       SeenIsOwed, ReadIsOwed, Balanced, Balance, Unwiped, Nothing, Look
<1> QED
  BY <1>1, <1>2, <1>3 DEF LInv

LEMMA PayKeeps == ASSUME NEW a \in Account PROVE LInv /\ Pay(a) => LInv'
<1> SUFFICES ASSUME LInv, Pay(a) PROVE LInv'
  OBVIOUS
<1> DEFINE n == paid'[a]
<1>1. /\ n \in Nat /\ n >= seen[a] /\ seen[a] # Nothing
      /\ paid' = [paid EXCEPT ![a] = n]
      /\ \/ sent' = [sent EXCEPT ![a] = @ + n] /\ late' = late
         \/ sent' = sent /\ late' = late \cup {a}
  BY DEF Pay
<1>2. LTypes'
  <2> HIDE DEF n
  <2> QED BY <1>1 DEF LInv, LTypes, Pay, Amount
<1>3. OnePayment'
  BY <1>1 DEF LInv, LTypes, OnePayment, Pay, Nowhere
<1>4. ASSUME NEW b \in Account PROVE AccountOK(b)'
  <2>1. AccountOK(b) /\ paid[b] = Nothing
    BY DEF LInv, Pay, Nowhere
  <2>2. CASE b = a
    <3>1. /\ n = paid'[b]
          /\ \/ sent'[b] = sent[b] + paid'[b] /\ late' = late
             \/ sent'[b] = sent[b] /\ b \in late'
      BY <1>1, <2>2 DEF LInv, LTypes
    <3>2. b \notin stale' => paid'[b] = seen[b] /\ b \notin stale
      BY <1>1, <2>2 DEF Pay, LInv, LTypes, Amount, Nothing
    <3>3. b \notin late' => b \notin late
      BY <1>1
    <3> QED
      BY <1>1, <2>1, <2>2, <3>1, <3>2, <3>3 DEF LInv, LTypes, Amount, AccountOK,
         PaidWasSeen, SeenIsOwed, ReadIsOwed, Balanced, Balance, Unwiped,
         Nothing, Pay
  <2>3. CASE b # a
    <3>1. /\ sent'[b] = sent[b] /\ paid'[b] = paid[b]
          /\ b \in stale' <=> b \in stale
          /\ b \in late' <=> b \in late
      BY <1>1, <2>3 DEF LInv, LTypes, Pay
    <3> QED
      BY <2>1, <3>1 DEF AccountOK, PaidWasSeen, SeenIsOwed, ReadIsOwed,
         Balanced, Balance, Unwiped, Pay
  <2> QED
    BY <2>2, <2>3
<1> QED
  BY <1>2, <1>3, <1>4 DEF LInv

LEMMA PayUnansweredKeeps ==
    ASSUME NEW a \in Account PROVE LInv /\ PayUnanswered(a) => LInv'
<1> SUFFICES ASSUME LInv, PayUnanswered(a) PROVE LInv'
  OBVIOUS
<1> DEFINE n == sent'[a]
<1>1. /\ n \in Nat /\ n >= sent[a]
      /\ sent' = [sent EXCEPT ![a] = n]
      /\ paid = Nowhere /\ seen' = Nowhere
  BY DEF PayUnanswered
<1>2. LTypes'
  <2> HIDE DEF n
  <2> QED BY <1>1 DEF LInv, LTypes, PayUnanswered, Amount, Nowhere
<1>3. OnePayment'
  BY DEF LInv, OnePayment, PayUnanswered
<1>4. ASSUME NEW b \in Account PROVE AccountOK(b)'
  <2>1. /\ AccountOK(b) /\ paid[b] = Nothing /\ seen'[b] = Nothing
        /\ sent[b] \in Nat /\ sent'[b] \in Nat /\ sent'[b] >= sent[b]
        /\ b \notin stale' => sent'[b] = sent[b] /\ b \notin stale
    BY <1>1 DEF LInv, LTypes, Nowhere, PayUnanswered
  <2> QED
    BY <2>1 DEF LInv, LTypes, Amount, AccountOK, PaidWasSeen, SeenIsOwed,
       ReadIsOwed, Balanced, Balance, Unwiped, Nothing, PayUnanswered
<1> QED
  BY <1>2, <1>3, <1>4 DEF LInv

LEMMA WipeKeeps == ASSUME NEW a \in Account PROVE LInv /\ Wipe(a) => LInv'
<1> SUFFICES ASSUME LInv, Wipe(a) PROVE LInv'
  OBVIOUS
<1>1. LTypes'
  BY DEF LInv, LTypes, Wipe, Amount, Nowhere
<1>2. OnePayment'
  BY DEF OnePayment, Wipe, Nowhere
<1>3. ASSUME NEW b \in Account PROVE AccountOK(b)'
  <2>1. AccountOK(b) /\ paid'[b] = Nothing
    BY DEF LInv, Wipe, Nowhere
  <2>2. CASE b = a
    <3>1. /\ owed'[b] = 0 /\ seen'[b] = Nothing /\ paid[b] # Nothing
          /\ b \notin stale' => (reading[b] = Nothing /\ b \notin stale)
      BY <2>2 DEF LInv, LTypes, Wipe, Nowhere
    <3> QED
      BY <2>1, <3>1 DEF LInv, LTypes, Amount, AccountOK, PaidWasSeen,
         SeenIsOwed, ReadIsOwed, Balanced, Balance, Unwiped, Nothing, Wipe
  <2>3. CASE b # a
    <3>1. /\ paid[b] = Nothing
          /\ owed'[b] = owed[b] /\ seen'[b] \in {seen[b], Nothing}
          /\ b \in stale' <=> b \in stale
      BY <2>3 DEF LInv, LTypes, OnePayment, Wipe, Nowhere
    <3> QED
      BY <2>1, <3>1 DEF AccountOK, PaidWasSeen, SeenIsOwed, ReadIsOwed,
         Balanced, Balance, Unwiped, Wipe
  <2> QED
    BY <2>2, <2>3
<1> QED
  BY <1>1, <1>2, <1>3 DEF LInv

LEMMA SkipKeeps == ASSUME NEW a \in Account PROVE LInv /\ Skip(a) => LInv'
<1> SUFFICES ASSUME LInv, Skip(a) PROVE LInv'
  OBVIOUS
<1>1. LTypes' /\ OnePayment'
  BY DEF LInv, LTypes, OnePayment, Skip, Amount
<1>2. ASSUME NEW b \in Account PROVE AccountOK(b)'
  <2>1. AccountOK(b)
    BY DEF LInv
  <2>2. /\ seen'[b] \in {seen[b], Nothing}
        /\ paid[b] # Nothing => seen'[b] = seen[b]
    BY DEF LInv, LTypes, Skip
  <2> QED
    BY <2>1, <2>2 DEF AccountOK, PaidWasSeen, SeenIsOwed, ReadIsOwed,
       Balanced, Balance, Unwiped, Skip
<1> QED
  BY <1>1, <1>2 DEF LInv

LEMMA StopKeeps == LInv /\ Stop => LInv'
<1> SUFFICES ASSUME LInv, Stop PROVE LInv'
  OBVIOUS
<1>1. LTypes' /\ OnePayment'
  BY DEF LInv, LTypes, OnePayment, Stop, Amount, Nowhere
<1>2. ASSUME NEW b \in Account PROVE AccountOK(b)'
  <2>1. AccountOK(b)
    BY DEF LInv
  <2>2. /\ seen'[b] = Nothing /\ paid'[b] = Nothing
        /\ reading'[b] \in {reading[b], Nothing}
        /\ b \notin stale' =>
              /\ b \notin stale
              /\ paid[b] # Nothing => owed[b] = 0 /\ reading[b] = Nothing
    BY DEF Stop, Nowhere
  <2> QED
    BY <2>1, <2>2 DEF LInv, LTypes, Amount, AccountOK, PaidWasSeen,
       SeenIsOwed, ReadIsOwed, Balanced, Balance, Unwiped, Nothing, Stop
<1> QED
  BY <1>1, <1>2 DEF LInv

LEMMA ReadKeeps == ASSUME NEW a \in Account PROVE LInv /\ Read(a) => LInv'
<1> SUFFICES ASSUME LInv, Read(a) PROVE LInv'
  OBVIOUS
<1>1. LTypes' /\ OnePayment'
  BY DEF LInv, LTypes, OnePayment, Read, Amount
<1>2. ASSUME NEW b \in Account PROVE AccountOK(b)'
  <2>1. AccountOK(b)
    BY DEF LInv
  <2>2. reading'[b] \in {reading[b], owed[b]}
    BY DEF LInv, LTypes, Read
  <2> QED
    BY <2>1, <2>2 DEF LInv, LTypes, AccountOK, PaidWasSeen, SeenIsOwed,
       ReadIsOwed, Balanced, Balance, Unwiped, Read
<1> QED
  BY <1>1, <1>2 DEF LInv

LEMMA MisreadKeeps == ASSUME NEW a \in Account PROVE LInv /\ Misread(a) => LInv'
<1> SUFFICES ASSUME LInv, Misread(a) PROVE LInv'
  OBVIOUS
<1> DEFINE n == reading'[a]
<1>1. n \in Nat /\ reading' = [reading EXCEPT ![a] = n]
  BY DEF Misread
<1>2. LTypes' /\ OnePayment'
  <2> HIDE DEF n
  <2> QED BY <1>1 DEF LInv, LTypes, OnePayment, Misread, Amount
<1>3. ASSUME NEW b \in Account PROVE AccountOK(b)'
  <2>1. AccountOK(b)
    BY DEF LInv
  <2>2. \/ b \in late' /\ b \in stale'
        \/ /\ reading'[b] = reading[b]
           /\ (b \in late' <=> b \in late) /\ (b \in stale' <=> b \in stale)
    BY <1>1 DEF LInv, LTypes, Misread
  <2> QED
    BY <2>1, <2>2 DEF AccountOK, PaidWasSeen, SeenIsOwed, ReadIsOwed,
       Balanced, Balance, Unwiped, Misread
<1> QED
  BY <1>2, <1>3 DEF LInv

LEMMA CreditKeeps == ASSUME NEW a \in Account PROVE LInv /\ Credit(a) => LInv'
<1> SUFFICES ASSUME LInv, Credit(a) PROVE LInv'
  OBVIOUS
<1> DEFINE m == owed'[a]
<1>1. /\ m \in Nat /\ m >= reading[a] /\ reading[a] # Nothing
      /\ owed' = [owed EXCEPT ![a] = m]
      /\ credited' = [credited EXCEPT ![a] = @ + m - reading[a]]
  BY DEF Credit
<1>2. LTypes'
  <2> HIDE DEF m
  <2>1. reading[a] \in Nat /\ credited[a] \in Nat
    BY <1>1 DEF LInv, LTypes, Amount
  <2>2. credited[a] + m - reading[a] \in Nat
    BY <1>1, <2>1
  <2> QED
    BY <1>1, <2>2 DEF LInv, LTypes, Credit, Amount
<1>3. OnePayment'
  BY DEF LInv, OnePayment, Credit
<1>4. ASSUME NEW b \in Account PROVE AccountOK(b)'
  <2>1. AccountOK(b)
    BY DEF LInv
  <2>2. CASE b = a
    <3>1. /\ owed'[b] = m /\ credited'[b] = credited[b] + m - reading[b]
          /\ reading'[b] = Nothing
          /\ b \notin late' => (b \notin late /\ seen[b] = Nothing)
      BY <1>1, <2>2 DEF LInv, LTypes, Credit
    <3>2. /\ m \in Nat /\ m >= reading[b] /\ reading[b] \in Nat
          /\ owed[b] \in Nat /\ sent[b] \in Nat /\ credited[b] \in Nat
          /\ seen[b] \in Amount /\ paid[b] \in Amount
      BY <1>1, <2>2 DEF LInv, LTypes, Amount
    <3> HIDE DEF m
    <3> QED
      BY <1>1, <2>1, <2>2, <3>1, <3>2 DEF Amount, AccountOK, PaidWasSeen,
         SeenIsOwed, ReadIsOwed, Balanced, Balance, Unwiped, Nothing, Credit
  <2>3. CASE b # a
    <3>1. /\ owed'[b] = owed[b] /\ credited'[b] = credited[b]
          /\ reading'[b] = reading[b] /\ b \in late' <=> b \in late
      BY <1>1, <2>3 DEF LInv, LTypes, Credit
    <3> QED
      BY <2>1, <3>1 DEF AccountOK, PaidWasSeen, SeenIsOwed, ReadIsOwed,
         Balanced, Balance, Unwiped, Credit
  <2> QED
    BY <2>2, <2>3
<1> QED
  BY <1>2, <1>3, <1>4 DEF LInv

LEMMA DropKeeps == ASSUME NEW a \in Account PROVE LInv /\ Drop(a) => LInv'
<1> SUFFICES ASSUME LInv, Drop(a) PROVE LInv'
  OBVIOUS
<1>1. LTypes' /\ OnePayment'
  BY DEF LInv, LTypes, OnePayment, Drop, Amount
<1>2. ASSUME NEW b \in Account PROVE AccountOK(b)'
  <2>1. AccountOK(b)
    BY DEF LInv
  <2>2. reading'[b] \in {reading[b], Nothing}
    BY DEF LInv, LTypes, Drop
  <2> QED
    BY <2>1, <2>2 DEF AccountOK, PaidWasSeen, SeenIsOwed, ReadIsOwed,
       Balanced, Balance, Unwiped, Drop
<1> QED
  BY <1>1, <1>2 DEF LInv

LEMMA StutterKeeps == LInv /\ UNCHANGED ledger => LInv'
  BY DEF LInv, LTypes, OnePayment, AccountOK, PaidWasSeen, SeenIsOwed,
         ReadIsOwed, Balanced, Balance, Unwiped, ledger

THEOREM LedgerInvariant == LSpec => []LInv
<1>1. LInit => LInv
  BY LInitInv
<1>2. LInv /\ [LNext]_ledger => LInv'
  <2> SUFFICES ASSUME LInv, [LNext]_ledger PROVE LInv'
    OBVIOUS
  <2>1. CASE Look \/ Stop
    BY <2>1, LookKeeps, StopKeeps
  <2>2. ASSUME NEW a \in Account,
               \/ Pay(a) \/ PayUnanswered(a) \/ Wipe(a) \/ Skip(a)
               \/ Read(a) \/ Misread(a) \/ Credit(a) \/ Drop(a)
        PROVE  LInv'
    BY <2>2, PayKeeps, PayUnansweredKeeps, WipeKeeps, SkipKeeps, ReadKeeps,
       MisreadKeeps, CreditKeeps, DropKeeps
  <2>3. CASE UNCHANGED ledger
    BY <2>3, StutterKeeps
  <2> QED
    BY <2>1, <2>2, <2>3 DEF LNext
<1> QED
  BY <1>1, <1>2, PTL DEF LSpec

(* thread_functions.c:497-553 and 264-292: no interleaving of passes and   *)
(* splits, failed writes and restarts loses a share outside the two        *)
(* windows. *)
THEOREM SharesAreKept == LSpec => []NoShareLost
<1>1. LInv => NoShareLost
  BY DEF LInv, AccountOK, Balanced, Balance, NoShareLost
<1> QED
  BY <1>1, LedgerInvariant, PTL

(* The same lines: nor pays one twice. *)
THEOREM NoSecondPayment == LSpec => []NothingPaidTwice
<1>1. LInv => NothingPaidTwice
  BY DEF LInv, AccountOK, Balanced, Balance, NothingPaidTwice
<1> QED
  BY <1>1, LedgerInvariant, PTL
==============================================================================
