------------------------ MODULE SharedDelegates_proofs -----------------------
(***************************************************************************)
(* Proofs about both timers over one database: what each thread keeps by   *)
(* itself it keeps beside the other one, and together they implement       *)
(* Ledger.                                                                 *)
(***************************************************************************)
EXTENDS SharedDelegates, Sums_proofs

(* The modules of the proofs about the parts. *)
PP == INSTANCE PaymentTimer_proofs WITH pc <- paymentPc,
                  number <- paymentNumber, data <- paymentData
BB == INSTANCE BlockTimer_proofs WITH pc <- blockPc, number <- blockNumber,
                                      data <- blockData
LL == INSTANCE Ledger_proofs WITH Account <- Address

(* What the proofs about the parts assume. *)
LEMMA PaymentAssumptions ==
    /\ PP!FaultsAssumption /\ PP!AddressAssumption
    /\ PP!MaxDigitsAssumption /\ PP!PowersOfTenAssumption
    /\ PP!PaymentTimerAssumption
BY SharedDelegatesAssumption
   DEF PP!FaultsAssumption, PP!AddressAssumption, PP!MaxDigitsAssumption,
       PP!PowersOfTenAssumption, PP!PaymentTimerAssumption, PP!FaultKinds,
       PP!NoAddress, P!FaultsAssumption, P!AddressAssumption,
       P!MaxDigitsAssumption, P!PowersOfTenAssumption,
       P!PaymentTimerAssumption, P!FaultKinds, P!NoAddress

LEMMA BlockAssumptions ==
    BB!FaultsAssumption /\ BB!AddressAssumption /\ BB!BlockTimerAssumption
BY SharedDelegatesAssumption
   DEF BB!FaultsAssumption, BB!AddressAssumption, BB!FaultKinds, BB!NoAddress,
       BB!BlockTimerAssumption, P!FaultsAssumption, P!AddressAssumption,
       P!FaultKinds, P!NoAddress, B!BlockTimerAssumption, B!IsFiniteSet,
       BB!IsFiniteSet

-----------------------------------------------------------------------------
(* The threads of SharedDelegates are those the proofs are about.          *)
LEMMA SamePaymentTimer ==
    /\ P!Init <=> PP!Init
    /\ P!Thread <=> PP!Thread
    /\ P!Restart <=> PP!Restart
    /\ P!TypeOK <=> PP!TypeOK
<1>1. \A n : P!Printed(n) = PP!Printed(n)
  BY DEF P!Printed, PP!Printed, P!Cardinality, PP!Cardinality
<1> USE DEF P!NotANumber, PP!NotANumber, P!NoAddress, PP!NoAddress,
       P!AnyDocument, PP!AnyDocument, P!NoDocument, PP!NoDocument,
       P!Blank, PP!Blank, P!Nothing, PP!Nothing, P!NoHash, PP!NoHash,
       P!NoData, PP!NoData, P!buffers, PP!buffers, P!clock, PP!clock,
       P!database, PP!database, P!history, PP!history,
       P!Selects, PP!Selects, P!Update, PP!Update, P!Delete, PP!Delete,
       P!ReadField, PP!ReadField, P!Outcomes, PP!Outcomes,
       P!Overlay, PP!Overlay, P!Scan, PP!Scan, P!Later, PP!Later,
       P!ByAddress, PP!ByAddress, P!InactivityReads, PP!InactivityReads
<1>2. P!Init <=> PP!Init
  BY DEF P!Init, PP!Init
<1>3. P!Restart <=> PP!Restart
  BY DEF P!Restart, PP!Restart
<1>4. P!TypeOK <=> PP!TypeOK
  BY DEF P!TypeOK, PP!TypeOK, P!Collection, PP!Collection, P!Document,
         PP!Document, P!Text, PP!Text, P!Filter, PP!Filter, P!Steps, PP!Steps
<1>5. /\ P!NotMidnight <=> PP!NotMidnight
      /\ P!StartPass <=> PP!StartPass
      /\ P!EndPass <=> PP!EndPass
      /\ P!Sleep <=> PP!Sleep
  BY DEF P!NotMidnight, PP!NotMidnight, P!StartPass, PP!StartPass, P!EndPass,
         PP!EndPass, P!Sleep, PP!Sleep
<1>6. ASSUME NEW a \in Address PROVE P!NextDocument(a) <=> PP!NextDocument(a)
  BY <1>1 DEF P!NextDocument, PP!NextDocument, P!Due, PP!Due
<1>7. P!SendPayment <=> PP!SendPayment
  BY DEF P!SendPayment, PP!SendPayment, P!SendAccepted, PP!SendAccepted,
         P!SendRefused, PP!SendRefused, P!SendUnanswered, PP!SendUnanswered,
         P!Transfer, PP!Transfer
<1>8. P!ResetCurrentTotal <=> PP!ResetCurrentTotal
  BY DEF P!ResetCurrentTotal, PP!ResetCurrentTotal
<1>9. P!AddToTotal <=> PP!AddToTotal
  BY DEF P!AddToTotal, PP!AddToTotal
<1>10. P!RecordPayment <=> PP!RecordPayment
  BY DEF P!RecordPayment, PP!RecordPayment
<1>11. P!ClearInactivity <=> PP!ClearInactivity
  BY <1>1 DEF P!ClearInactivity, PP!ClearInactivity
<1>12. P!ReadInactivity <=> PP!ReadInactivity
  BY <1>1 DEF P!ReadInactivity, PP!ReadInactivity
<1>13. P!WriteInactivity <=> PP!WriteInactivity
  BY DEF P!WriteInactivity, PP!WriteInactivity
<1>14. P!RemoveInactive <=> PP!RemoveInactive
  BY DEF P!RemoveInactive, PP!RemoveInactive
<1>15. P!Thread <=> PP!Thread
  BY <1>5, <1>6, <1>7, <1>8, <1>9, <1>10, <1>11, <1>12, <1>13, <1>14
     DEF P!Thread, PP!Thread
<1> QED BY <1>2, <1>3, <1>4, <1>15

LEMMA SameShare == \A a \in Address : B!Share(a) = BB!Share(a)
<1>1. \A f, S : B!Sum(f, S) = BB!Sum(f, S)
  BY DEF B!Sum, BB!Sum, B!MapThenSumSet, BB!MapThenSumSet, B!MapThenFoldSet,
         BB!MapThenFoldSet
<1> QED BY <1>1 DEF B!Share, BB!Share, B!TotalVotes, BB!TotalVotes

LEMMA SameBlockTimer ==
    /\ B!Init <=> BB!Init
    /\ B!Thread <=> BB!Thread
    /\ B!NewBlock <=> BB!NewBlock
    /\ B!Vote <=> BB!Vote
    /\ B!Restart <=> BB!Restart
    /\ B!TypeOK <=> BB!TypeOK
    /\ B!RewardsAreNumbers <=> BB!RewardsAreNumbers
<1> USE DEF B!NotANumber, BB!NotANumber, B!NoAddress, BB!NoAddress,
       B!AnyDocument, BB!AnyDocument, B!NoDocument, BB!NoDocument,
       B!Selects, BB!Selects, B!Update, BB!Update, B!ReadField, BB!ReadField,
       B!Outcomes, BB!Outcomes, B!NoCount, BB!NoCount, B!Empty, BB!Empty,
       B!Json, BB!Json, B!CountOver, BB!CountOver, B!Start, BB!Start,
       B!NoVoter, BB!NoVoter, B!NoVotes, BB!NoVotes,
       B!NoCollection, BB!NoCollection, B!NoReward, BB!NoReward,
       B!EndHandler, BB!EndHandler, B!collections, BB!collections,
       B!world, BB!world, B!height, BB!height, B!reward, BB!reward,
       B!reading, BB!reading, B!split, BB!split, B!history, BB!history,
       B!Abort, BB!Abort, B!Failure, BB!Failure, B!Unanswered, BB!Unanswered,
       B!Refused, BB!Refused, B!Statistic, BB!Statistic, B!Voters, BB!Voters
<1>1. (B!Init <=> BB!Init) /\ (B!Restart <=> BB!Restart)
  BY DEF B!Init, BB!Init, B!Restart, BB!Restart
<1>2. (B!TypeOK <=> BB!TypeOK) /\ (B!RewardsAreNumbers <=> BB!RewardsAreNumbers)
  BY DEF B!RewardsAreNumbers, BB!RewardsAreNumbers, B!TypeOK, BB!TypeOK, B!Collection, BB!Collection, B!Document,
         BB!Document, B!BlockText, BB!BlockText, B!Steps, BB!Steps
<1>3. (B!NewBlock <=> BB!NewBlock) /\ (B!Vote <=> BB!Vote)
  BY DEF B!NewBlock, BB!NewBlock, B!Vote, BB!Vote
<1>4. /\ B!PollAnswered <=> BB!PollAnswered
      /\ B!PollUnanswered <=> BB!PollUnanswered
  BY DEF B!PollAnswered, BB!PollAnswered, B!PollUnanswered, BB!PollUnanswered,
         B!Notice, BB!Notice, B!SameText, BB!SameText
<1>5. /\ B!CheckFoundBlock <=> BB!CheckFoundBlock
      /\ B!GetInformation <=> BB!GetInformation
      /\ B!GetHeight <=> BB!GetHeight
      /\ B!InsertFoundBlock <=> BB!InsertFoundBlock
  BY DEF B!CheckFoundBlock, BB!CheckFoundBlock, B!Recognise, BB!Recognise,
         B!GetInformation, BB!GetInformation, B!Learn, BB!Learn,
         B!GetHeight, BB!GetHeight, B!InsertFoundBlock, BB!InsertFoundBlock
<1>6. /\ B!CountVoters <=> BB!CountVoters
      /\ B!RecountVoters <=> BB!RecountVoters
      /\ B!ReadVoters <=> BB!ReadVoters
  BY DEF B!CountVoters, BB!CountVoters, B!CountsOf, BB!CountsOf, B!VotersIn,
         BB!VotersIn, B!RecountVoters, BB!RecountVoters, B!GoOnWith,
         BB!GoOnWith, B!ReadVoters, BB!ReadVoters, B!ReadNothing,
         BB!ReadNothing, B!Cardinality, BB!Cardinality
<1>7. B!AddShare <=> BB!AddShare
  BY DEF B!AddShare, BB!AddShare, B!VoterFilter, BB!VoterFilter
<1>8. ASSUME NEW a \in Address
      PROVE  B!ReadCurrentTotal(a) <=> BB!ReadCurrentTotal(a)
  BY SameShare DEF B!ReadCurrentTotal, BB!ReadCurrentTotal, B!TotalReads,
         BB!TotalReads, B!VoterFilter, BB!VoterFilter
<1>9. /\ B!CountFoundBlock <=> BB!CountFoundBlock
      /\ B!CountOtherBlock <=> BB!CountOtherBlock
      /\ B!CountBlock <=> BB!CountBlock
  BY DEF B!CountFoundBlock, BB!CountFoundBlock, B!CountOtherBlock,
         BB!CountOtherBlock, B!CountBlock, BB!CountBlock, B!CountIn, BB!CountIn
<1>10. B!Thread <=> BB!Thread
  BY <1>4, <1>5, <1>6, <1>7, <1>8, <1>9 DEF B!Thread, BB!Thread, B!Handle,
     BB!Handle
<1> QED BY <1>1, <1>2, <1>3, <1>10

LEMMA SameLedger ==
    /\ TheLedger!LInit <=> LL!LInit
    /\ [TheLedger!LNext]_(TheLedger!ledger) <=> [LL!LNext]_(LL!ledger)
    /\ TheLedger!NoShareLost <=> LL!NoShareLost
    /\ TheLedger!NothingPaidTwice <=> LL!NothingPaidTwice
<1> USE DEF TheLedger!Nothing, LL!Nothing, TheLedger!Nowhere, LL!Nowhere,
       TheLedger!ledger, LL!ledger
<1>1. TheLedger!LInit <=> LL!LInit
  BY DEF TheLedger!LInit, LL!LInit
<1>2. (TheLedger!Look <=> LL!Look) /\ (TheLedger!Stop <=> LL!Stop)
  BY DEF TheLedger!Look, LL!Look, TheLedger!Stop, LL!Stop
<1>3. ASSUME NEW a \in Address
      PROVE  /\ TheLedger!Pay(a) <=> LL!Pay(a)
             /\ TheLedger!PayUnanswered(a) <=> LL!PayUnanswered(a)
             /\ TheLedger!Wipe(a) <=> LL!Wipe(a)
             /\ TheLedger!Skip(a) <=> LL!Skip(a)
             /\ TheLedger!Read(a) <=> LL!Read(a)
             /\ TheLedger!Misread(a) <=> LL!Misread(a)
             /\ TheLedger!Credit(a) <=> LL!Credit(a)
             /\ TheLedger!Drop(a) <=> LL!Drop(a)
  BY DEF TheLedger!Pay, LL!Pay, TheLedger!PayUnanswered, LL!PayUnanswered,
         TheLedger!Wipe, LL!Wipe, TheLedger!Skip, LL!Skip, TheLedger!Read,
         LL!Read, TheLedger!Misread, LL!Misread, TheLedger!Credit, LL!Credit,
         TheLedger!Drop, LL!Drop
<1>4. TheLedger!LNext <=> LL!LNext
  BY <1>2, <1>3 DEF TheLedger!LNext, LL!LNext
<1>5. /\ TheLedger!NoShareLost <=> LL!NoShareLost
      /\ TheLedger!NothingPaidTwice <=> LL!NothingPaidTwice
  BY DEF TheLedger!NoShareLost, LL!NoShareLost, TheLedger!NothingPaidTwice,
         LL!NothingPaidTwice, TheLedger!Unwiped, LL!Unwiped
<1> QED BY <1>1, <1>4, <1>5

-----------------------------------------------------------------------------
(* The invariant: what each thread knows whatever the other one does.      *)
SInv ==
    /\ PP!PassInv
    /\ BB!TypeInv /\ BB!RewardsAreNumbers
    /\ credited \in [Address -> Nat]
    /\ late \subseteq Address /\ stale \subseteq Address

LEMMA SameDocuments ==
    /\ P!NoDocument = PP!NoDocument /\ BB!NoDocument = PP!NoDocument
    /\ BB!Document = PP!Document /\ BB!Collection = PP!Collection
    /\ owed = PP!Owed /\ owed' = PP!Owed'
BY DEF P!NoDocument, PP!NoDocument, BB!NoDocument, PP!Document, BB!Document,
       PP!Collection, BB!Collection, PP!NotANumber, BB!NotANumber, owed, PP!Owed

(* The payment timer leaves restarts alone, and the block timer changes no *)
(* document but in current_total.                                          *)
LEMMA PaymentFrame == PP!Thread => UNCHANGED restarts
BY DEF PP!Thread, PP!NotMidnight, PP!StartPass, PP!EndPass, PP!NextDocument,
       PP!SendPayment, PP!ResetCurrentTotal, PP!AddToTotal, PP!RecordPayment,
       PP!ClearInactivity, PP!ReadInactivity, PP!WriteInactivity,
       PP!RemoveInactive, PP!Sleep

LEMMA ShareFrame ==
    ASSUME BB!AddShare, BB!TypeInv, NEW a \in Address
    PROVE  \/ addresses'[a] = addresses[a]
           \/ /\ addresses[a] # BB!NoDocument
              /\ addresses'[a] = [addresses[a] EXCEPT !.current = blockNumber]
<1> DEFINE after == BB!Update(addresses, BB!VoterFilter(voter), "current",
                              blockNumber)
<1>1. addresses' \in {addresses, after}
  BY DEF BB!AddShare, BB!Outcomes
<1>2. after[a] = addresses[a] \/ /\ addresses[a] # BB!NoDocument
                                 /\ after[a] = [addresses[a] EXCEPT !.current = blockNumber]
  BY DEF BB!Update, BB!Selects
<1> HIDE DEF after
<1> QED BY <1>1, <1>2

(* Apart from AddShare the block timer does not write to the addresses.    *)
LEMMA BlockFrame ==
    BB!Thread \/ BB!NewBlock \/ BB!Vote =>
        /\ UNCHANGED restarts
        /\ BB!AddShare \/ UNCHANGED addresses
<1> USE DEF BB!collections, BB!world
<1>1. BB!NewBlock \/ BB!Vote \/ BB!PollAnswered \/ BB!PollUnanswered =>
          UNCHANGED <<restarts, addresses>>
  BY DEF BB!NewBlock, BB!Vote, BB!PollAnswered, BB!PollUnanswered, BB!Notice
<1>2. ASSUME \/ BB!CheckFoundBlock \/ BB!GetInformation \/ BB!GetHeight
             \/ BB!InsertFoundBlock \/ BB!CountVoters \/ BB!RecountVoters
             \/ BB!ReadVoters
      PROVE  UNCHANGED <<restarts, addresses>>
  BY <1>2 DEF BB!CheckFoundBlock, BB!GetInformation, BB!GetHeight,
         BB!InsertFoundBlock, BB!CountVoters, BB!RecountVoters, BB!ReadVoters
<1>3. \A a \in Address : BB!ReadCurrentTotal(a) => UNCHANGED <<restarts, addresses>>
  BY DEF BB!ReadCurrentTotal
<1>4. BB!CountFoundBlock \/ BB!CountOtherBlock \/ BB!CountBlock =>
          UNCHANGED <<restarts, addresses>>
  BY DEF BB!CountFoundBlock, BB!CountOtherBlock, BB!CountBlock, BB!CountIn
<1>5. BB!AddShare => UNCHANGED restarts
  BY DEF BB!AddShare
<1> QED BY <1>1, <1>2, <1>3, <1>4, <1>5 DEF BB!Thread, BB!Handle

(* So each thread keeps what the other one knows.                          *)
LEMMA PaymentKeeps ==
    ASSUME SInv, PaymentTimer
    PROVE  PP!PassInv' /\ BB!TypeInv'
<1>1. PP!Thread /\ UNCHANGED blockVars
  BY SamePaymentTimer DEF PaymentTimer
<1>2. [PP!Next]_(PP!vars)
  BY <1>1 DEF PP!Next
<1>3. PP!PassInv'
  BY <1>2, PaymentAssumptions, PP!PassStep DEF SInv
<1>4. addresses' \in BB!Collection
  BY <1>3, SameDocuments DEF PP!PassInv, PP!TypeOK, PP!Collection, BB!Collection,
     PP!Document, BB!Document, PP!NoDocument, BB!NoDocument, PP!NotANumber, BB!NotANumber
<1>5. UNCHANGED <<chain, votes, failures, statistics, blocks_found, suspects,
                  blockPc, BB!height, BB!reward, blockNumber, BB!reading,
                  BB!split, BB!history, aborted>>
  BY <1>1 DEF blockVars, BB!height, BB!reward, BB!reading, BB!split, BB!history
<1>6. BB!TypeInv'
  BY <1>1, <1>4, <1>5, PaymentFrame, BlockAssumptions, BB!WrittenType DEF SInv
<1> QED BY <1>3, <1>6

LEMMA BlockKeeps ==
    ASSUME SInv, BlockTimer \/ World
    PROVE  PP!PassInv' /\ BB!TypeInv'
<1>1. /\ BB!Thread \/ BB!NewBlock \/ BB!Vote
      /\ UNCHANGED paymentVars
  BY SameBlockTimer DEF BlockTimer, World
<1>2. [BB!Next]_(BB!vars)
  BY <1>1 DEF BB!Next
<1>3. BB!TypeInv'
  BY <1>2, BlockAssumptions, BB!TypeStep DEF SInv
<1>4. addresses' \in PP!Collection
  BY <1>3, SameDocuments DEF BB!TypeInv, BB!TypeOK, PP!Collection, BB!Collection,
     PP!Document, BB!Document, PP!NoDocument, BB!NoDocument, PP!NotANumber, BB!NotANumber
<1>5. ASSUME NEW a \in Address
      PROVE  \/ addresses'[a] = addresses[a]
             \/ /\ addresses[a] # PP!NoDocument
                /\ addresses'[a].inactive = addresses[a].inactive
  <2>1. addresses[a] \in PP!Document \/ addresses[a] = PP!NoDocument
    BY DEF SInv, PP!PassInv, PP!TypeOK, PP!Collection
  <2> QED BY <1>1, <2>1, BlockFrame, ShareFrame, SameDocuments
          DEF SInv, PP!Document
<1>6. UNCHANGED <<PP!clock, payments, transfers, paymentPc, cursor, remaining,
                  PP!buffers, PP!history, restarts>>
  BY <1>1, BlockFrame DEF paymentVars, PP!clock, PP!buffers, PP!history
<1>7. PP!PassInv'
  BY <1>4, <1>5, <1>6, PaymentAssumptions, PP!WrittenByOthers DEF SInv
<1> QED BY <1>3, <1>7

LEMMA RestartKeeps ==
    ASSUME SInv, Restart
    PROVE  PP!PassInv' /\ BB!TypeInv'
<1>1. [PP!Next]_(PP!vars) /\ [BB!Next]_(BB!vars)
  BY SamePaymentTimer, SameBlockTimer DEF Restart, PP!Next, BB!Next
<1> QED BY <1>1, PaymentAssumptions, PP!PassStep, BlockAssumptions, BB!TypeStep
        DEF SInv

-----------------------------------------------------------------------------
(* The variables of Ledger, and what a step means for them.                *)

LEMMA Items ==
    ASSUME NEW S, NEW s \in Seq(S)
    PROVE  /\ Len(s) \in Nat /\ DOMAIN s = 1 .. Len(s)
           /\ \A i \in DOMAIN s : s[i] \in S
OBVIOUS

LEMMA UpTo ==
    ASSUME NEW n \in Nat
    PROVE  /\ IsFiniteSet(1 .. n) /\ IsFiniteSet(1 .. n + 1)
           /\ n + 1 \in 1 .. n + 1 /\ (1 .. n + 1) \ {n + 1} = 1 .. n
<1>1. n + 1 \in Int /\ n \in Int /\ 1 \in Int
  OBVIOUS
<1>2. IsFiniteSet(1 .. n) /\ IsFiniteSet(1 .. n + 1)
  BY <1>1, FS_Interval
<1> QED BY <1>2

LEMMA SentType ==
    ASSUME SInv, NEW a \in Address
    PROVE  sent[a] \in Nat
<1> DEFINE f == [i \in DOMAIN transfers |-> IF transfers[i].addr = a
                                            THEN transfers[i].amount ELSE 0]
<1>1. transfers \in Seq([addr : Address, amount : Nat])
  BY DEF SInv, PP!PassInv, PP!TypeOK
<1>2. IsFiniteSet(DOMAIN transfers)
  BY <1>1, FS_Interval
<1>3. \A i \in DOMAIN transfers : f[i] \in Nat
  <2>1. \A i \in DOMAIN transfers : transfers[i] \in [addr : Address, amount : Nat]
    BY <1>1, Items
  <2>2. \A i \in DOMAIN transfers : transfers[i].amount \in Nat
    BY <2>1
  <2> QED BY <2>2
<1>4. sent[a] = Sum(f, DOMAIN transfers)
  BY DEF sent
<1> HIDE DEF f
<1> QED BY <1>2, <1>3, <1>4, SumNat

(* One more transfer is one more term of the sum. *)
LEMMA SentMore ==
    ASSUME SInv, NEW t \in [addr : Address, amount : Nat],
           transfers' = Append(transfers, t), NEW a \in Address
    PROVE  sent'[a] = sent[a] + (IF t.addr = a THEN t.amount ELSE 0)
<1> DEFINE n == Len(transfers)
           f == [i \in DOMAIN transfers |-> IF transfers[i].addr = a
                                            THEN transfers[i].amount ELSE 0]
           g == [i \in DOMAIN transfers' |-> IF transfers'[i].addr = a
                                             THEN transfers'[i].amount ELSE 0]
<1>1. transfers \in Seq([addr : Address, amount : Nat])
  BY DEF SInv, PP!PassInv, PP!TypeOK
<1>2. /\ n \in Nat /\ DOMAIN transfers = 1 .. n /\ DOMAIN transfers' = 1 .. n + 1
      /\ transfers'[n + 1] = t /\ \A i \in 1 .. n : transfers'[i] = transfers[i]
      /\ transfers' \in Seq([addr : Address, amount : Nat])
  BY <1>1
<1>3. /\ g[n + 1] = IF t.addr = a THEN t.amount ELSE 0
      /\ \A i \in 1 .. n : g[i] = f[i]
      /\ \A i \in 1 .. n + 1 : g[i] \in Int
  <2>1. n + 1 \in 1 .. n + 1 /\ \A i \in 1 .. n : i \in 1 .. n + 1
    BY <1>2
  <2>2. \A i \in 1 .. n + 1 : transfers'[i] \in [addr : Address, amount : Nat]
    BY <1>2, Items
  <2>3. \A i \in 1 .. n + 1 : transfers'[i].amount \in Nat
    BY <2>2
  <2>4. g[n + 1] = IF t.addr = a THEN t.amount ELSE 0
    BY <1>2, <2>1
  <2>5. \A i \in 1 .. n : g[i] = f[i]
    BY <1>2, <2>1
  <2>6. \A i \in 1 .. n + 1 : g[i] \in Int
    BY <1>2, <2>3
  <2> QED BY <2>4, <2>5, <2>6
<1>4. sent[a] = Sum(f, 1 .. n) /\ sent'[a] = Sum(g, 1 .. n + 1)
  BY <1>2 DEF sent
<1> HIDE DEF f, g
<1>5. IsFiniteSet(1 .. n) /\ IsFiniteSet(1 .. n + 1) /\ n + 1 \in 1 .. n + 1
      /\ (1 .. n + 1) \ {n + 1} = 1 .. n
  BY <1>2, UpTo
<1>6. Sum(g, 1 .. n + 1) = g[n + 1] + Sum(g, 1 .. n)
  BY <1>3, <1>5, SumRemove
<1>7. Sum(g, 1 .. n) = Sum(f, 1 .. n)
  BY <1>3, <1>5, SumEqual
<1>8. Sum(f, 1 .. n) \in Nat
  BY <1>4, SentType
<1> QED BY <1>3, <1>4, <1>6, <1>7, <1>8

(* The document in hand is one of the cursor. *)
LEMMA SeenType ==
    ASSUME SInv, NEW a \in Address
    PROVE  /\ seen[a] \in Nat \cup {Nothing} /\ paid[a] \in Nat \cup {Nothing}
           /\ paid[a] # Nothing => paymentPc = "reset"
<1>1. cursor[a] \in PP!Document \/ cursor[a] = PP!NoDocument
  BY DEF SInv, PP!PassInv, PP!TypeOK, PP!Collection
<1>2. a \in remaining => cursor[a] # PP!NoDocument
  BY DEF SInv, PP!PassInv, PP!TypeOK
<1>3. a = public_address /\ paymentPc \in {"send", "reset"} =>
          cursor[a] # PP!NoDocument
  BY PaymentAssumptions
     DEF SInv, PP!PassInv, PP!SeenInv, PP!BufferInv, PP!InHand, PP!InPass,
         PP!Steps, PP!AddressAssumption, PP!PaymentTimerAssumption
<1>4. paymentNumber \in Nat
  BY DEF SInv, PP!PassInv, PP!TypeOK
<1> QED BY <1>1, <1>2, <1>3, <1>4 DEF seen, paid, PP!Document, Nothing

(* A split under way has read a number for the voter. *)
LEMMA ReadingIs ==
    ASSUME SInv, NEW a \in Address
    PROVE  /\ reading[a] \in Nat \cup {Nothing}
           /\ reading[a] # Nothing <=>
                 a = voter /\ blockPc = "update" /\ addresses[a] # PP!NoDocument
           /\ reading[a] # Nothing =>
                 reading[a] = blockNumber - B!Share(a) /\ B!Share(a) \in Nat
<1>1. CASE a = voter /\ blockPc = "update"
  <2>1. /\ a \in BB!Voters(documents)
        /\ blockNumber \in Nat /\ blockNumber >= BB!Share(a)
    BY <1>1 DEF SInv, BB!TypeInv, BB!ShareInHand
  <2>2. BB!Share(a) \in Nat
    BY <1>1, <2>1, BlockAssumptions, BB!ShareIsNat DEF SInv
  <2> QED BY <1>1, <2>1, <2>2, SameShare, SameDocuments DEF reading, Nothing
<1>2. CASE ~(a = voter /\ blockPc = "update")
  BY <1>2 DEF reading, Nothing
<1> QED BY <1>1, <1>2

LEMMA LedgerTypes ==
    SInv => /\ owed \in [Address -> Nat] /\ sent \in [Address -> Nat]
            /\ seen \in [Address -> Nat \cup {Nothing}]
            /\ paid \in [Address -> Nat \cup {Nothing}]
            /\ reading \in [Address -> Nat \cup {Nothing}]
<1> SUFFICES ASSUME SInv PROVE /\ owed \in [Address -> Nat] /\ sent \in [Address -> Nat]
            /\ seen \in [Address -> Nat \cup {Nothing}]
            /\ paid \in [Address -> Nat \cup {Nothing}]
            /\ reading \in [Address -> Nat \cup {Nothing}]
  OBVIOUS
<1>1. owed \in [Address -> Nat]
  BY SameDocuments, PaymentAssumptions, PP!OwedType DEF SInv, PP!PassInv
<1>2. sent \in [Address -> Nat]
  BY SentType DEF sent
<1>3. seen \in [Address -> Nat \cup {Nothing}] /\ paid \in [Address -> Nat \cup {Nothing}]
  BY SeenType DEF seen, paid
<1>4. reading \in [Address -> Nat \cup {Nothing}]
  BY ReadingIs DEF reading
<1> QED BY <1>1, <1>2, <1>3, <1>4

(* The payment timer starts and writes no split; it can only take the      *)
(* document away under one, when nothing is owed.                          *)
LEMMA PaymentReading ==
    ASSUME SInv, PaymentTimer
    PROVE  /\ reading' \in {reading, TheLedger!Nowhere}
           /\ paymentPc # "remove" => reading' = reading
           /\ reading' # reading => voter \in Address
<1>1. PP!Thread /\ UNCHANGED blockVars
  BY SamePaymentTimer DEF PaymentTimer
<1>2. \A a \in Address :
          /\ addresses[a] = PP!NoDocument => addresses'[a] = PP!NoDocument
          /\ addresses'[a] = PP!NoDocument =>
                addresses[a] = PP!NoDocument \/ paymentPc = "remove"
  BY <1>1, PaymentAssumptions, PP!ExistenceStep DEF SInv
<1>3. \A a \in Address : B!Share(a)' = B!Share(a)
  BY <1>1 DEF blockVars, B!Share
<1>4. \A a \in Address :
          reading'[a] = IF addresses'[a] = PP!NoDocument THEN Nothing ELSE reading[a]
  BY <1>1, <1>2, <1>3, SameDocuments DEF reading, blockVars
<1>5. \A a \in Address \ {voter} : reading[a] = Nothing
  BY DEF reading
<1>6. \A a \in Address : addresses[a] = PP!NoDocument => reading[a] = Nothing
  BY SameDocuments DEF reading
<1>7. CASE \A a \in Address : reading'[a] = reading[a]
  BY <1>7 DEF reading
<1>8. CASE \E a \in Address : reading'[a] # reading[a]
  <2>1. PICK a \in Address : reading'[a] # reading[a]
    BY <1>8
  <2>2. a = voter /\ reading'[a] = Nothing /\ paymentPc = "remove"
    BY <1>2, <1>4, <1>5, <1>6, <2>1
  <2>3. \A b \in Address : reading'[b] = Nothing
    BY <1>4, <1>5, <2>2
  <2> QED BY <2>2, <2>3 DEF reading, TheLedger!Nowhere, TheLedger!Nothing, Nothing
<1> QED BY <1>7, <1>8

(* So it only adds to the accounts that are late or stale.                 *)
LEMMA PaymentTally ==
    ASSUME SInv, PaymentTimer
    PROVE  /\ credited' = credited
           /\ late' = late \cup {a \in Address : Refused(a)}
           /\ stale' = stale \cup
                 {a \in Address : Overpaid(a) \/ Unheard(a) \/ Unsettled(a)}
<1>1. PP!Thread
  BY SamePaymentTimer DEF PaymentTimer
<1>2. ASSUME NEW a \in Address PROVE ~Credited(a) /\ ~Misread(a)
  <2>1. paymentPc # "reset" => owed'[a] = owed[a]
    BY <1>1, PaymentAssumptions, PP!ExistenceStep, SameDocuments DEF SInv
  <2>2. reading'[a] \in {reading[a], Nothing}
        /\ (paymentPc = "reset" => reading'[a] = reading[a])
    BY PaymentReading DEF TheLedger!Nowhere, TheLedger!Nothing, Nothing
  <2>3. ~Misread(a)
    BY <2>2 DEF Misread
  <2>4. ~Credited(a)
    BY <2>1, <2>2 DEF Credited
  <2> QED BY <2>3, <2>4
<1>3. Tally
  BY DEF PaymentTimer
<1>4. credited' = [a \in Address |-> credited[a] + 0]
  BY <1>2, <1>3 DEF Tally
<1>5. credited' = credited
  BY <1>4 DEF SInv
<1> QED BY <1>2, <1>3, <1>5 DEF Tally

(* A step of a pass that Ledger does not see, but for the document.        *)
LEMMA UnseenStep ==
    ASSUME SInv, PaymentTimer, UNCHANGED <<owed, sent, seen, paid>>
    PROVE  [TheLedger!LNext]_(TheLedger!ledger)
<1>1. \A a \in Address : sent[a] \in Nat
  BY LedgerTypes
<1>2. \A a \in Address : ~Refused(a) /\ ~Overpaid(a) /\ ~Unheard(a) /\ ~Unsettled(a)
  BY <1>1 DEF Refused, Overpaid, Unheard, Unsettled
<1>3. UNCHANGED <<credited, late, stale>>
  BY <1>2, PaymentTally
<1>4. CASE reading' = reading
  BY <1>3, <1>4 DEF TheLedger!ledger
<1>5. CASE reading' # reading
  <2>1. reading' = TheLedger!Nowhere /\ voter \in Address
    BY <1>5, PaymentReading
  <2>2. reading' = [reading EXCEPT ![voter] = TheLedger!Nothing]
    BY <2>1 DEF reading, TheLedger!Nowhere, TheLedger!Nothing, Nothing
  <2>3. TheLedger!Drop(voter)
    BY <1>3, <2>2 DEF TheLedger!Drop
  <2> QED BY <2>1, <2>3 DEF TheLedger!LNext
<1> QED BY <1>4, <1>5

(* A step that ends a pass. *)
LEMMA StopStep ==
    ASSUME SInv, PaymentTimer, UNCHANGED <<owed, sent>>,
           seen' = TheLedger!Nowhere, paid' = TheLedger!Nowhere
    PROVE  [TheLedger!LNext]_(TheLedger!ledger)
<1> USE DEF TheLedger!Nowhere, TheLedger!Nothing, Nothing
<1>1. \A a \in Address : sent[a] \in Nat /\ seen[a] \in Nat \cup {Nothing}
                         /\ paid'[a] = Nothing
  BY LedgerTypes
<1>2. \A a \in Address :
          /\ ~Refused(a) /\ ~Overpaid(a) /\ ~Unheard(a)
          /\ Unsettled(a) <=> paid[a] # Nothing /\ (owed[a] # 0 \/ reading[a] # Nothing)
  BY <1>1 DEF Refused, Overpaid, Unheard, Unsettled
<1>3. /\ UNCHANGED <<credited, late>>
      /\ stale' = stale \cup {a \in Address : /\ paid[a] # Nothing
                                              /\ owed[a] # 0 \/ reading[a] # Nothing}
  BY <1>2, PaymentTally
<1>4. TheLedger!Stop
  BY <1>3, PaymentReading DEF TheLedger!Stop
<1> QED BY <1>4 DEF TheLedger!LNext

(* The calls about the documents, between the money. *)
Between == {"next", "total", "record", "inactivity", "count", "remove"}

LEMMA BetweenStep ==
    ASSUME SInv, PaymentTimer, UNCHANGED <<transfers, cursor, remaining>>,
           paymentPc \in Between, paymentPc' \in Between \cup {"sleep"}
    PROVE  [TheLedger!LNext]_(TheLedger!ledger)
<1>1. PP!Thread /\ paymentPc # "reset"
  BY SamePaymentTimer DEF PaymentTimer, Between
<1>2. \A a \in Address : owed'[a] = owed[a]
  BY <1>1, PaymentAssumptions, PP!ExistenceStep, SameDocuments DEF SInv
<1>3. owed' = owed
  BY <1>2 DEF owed
<1>4. sent' = sent
  BY DEF sent
<1>5. CASE paymentPc' \in Between
  <2>1. seen' = seen /\ paid' = paid
    BY <1>5 DEF seen, paid, Between
  <2> QED BY <1>3, <1>4, <2>1, UnseenStep
<1>6. CASE paymentPc' = "sleep"
  <2>1. seen' = TheLedger!Nowhere /\ paid' = TheLedger!Nowhere
    BY <1>6 DEF seen, paid, TheLedger!Nowhere, TheLedger!Nothing, Nothing
  <2> QED BY <1>3, <1>4, <2>1, StopStep
<1> QED BY <1>5, <1>6

(* Line 481: the amounts are looked at, those of the whole collection. *)
LEMMA LookStep ==
    ASSUME SInv, PaymentTimer, PP!StartPass
    PROVE  [TheLedger!LNext]_(TheLedger!ledger)
<1> USE DEF TheLedger!Nowhere, TheLedger!Nothing, Nothing
<1>1. /\ paymentPc = "check" /\ paymentPc' = "next" /\ cursor' = addresses
      /\ remaining' = {a \in Address : addresses[a] # PP!NoDocument}
      /\ UNCHANGED <<addresses, transfers>>
  BY DEF PP!StartPass, PP!database
<1>2. /\ owed' = owed /\ sent' = sent /\ reading' = reading
      /\ seen = TheLedger!Nowhere /\ paid = TheLedger!Nowhere /\ paid' = paid
  BY <1>1, PaymentReading DEF owed, sent, seen, paid
<1>3. seen' = [a \in Address |-> IF a \in remaining' THEN owed[a] ELSE Nothing]
  BY <1>1, SameDocuments DEF seen, owed
<1>4. \A a \in Address : ~Refused(a) /\ ~Overpaid(a) /\ ~Unheard(a) /\ ~Unsettled(a)
  BY <1>2, LedgerTypes DEF Refused, Overpaid, Unheard, Unsettled
<1>5. UNCHANGED <<credited, late, stale>>
  BY <1>4, PaymentTally
<1>6. remaining' \in SUBSET Address
  BY <1>1
<1>7. TheLedger!Look
  BY <1>2, <1>3, <1>5, <1>6 DEF TheLedger!Look
<1> QED BY <1>7 DEF TheLedger!LNext

(* Lines 497-526: the document is in hand to be paid, or passed over. *)
LEMMA NextStep ==
    ASSUME SInv, PaymentTimer, NEW a \in Address, PP!NextDocument(a)
    PROVE  [TheLedger!LNext]_(TheLedger!ledger)
<1> USE DEF TheLedger!Nothing, Nothing
<1>1. /\ paymentPc = "next" /\ paymentPc' \in {"send", "inactivity"}
      /\ a \in remaining /\ remaining' = remaining \ {a}
      /\ public_address' \in {a, PP!NoAddress}
      /\ UNCHANGED <<addresses, transfers, cursor>>
  BY DEF PP!NextDocument, PP!database
<1>2. owed' = owed /\ sent' = sent /\ paid' = paid /\ paid[a] = Nothing
  BY <1>1 DEF owed, sent, paid
<1>3. CASE paymentPc' = "send" /\ public_address' = a
  <2>1. seen' = seen
    BY <1>1, <1>3 DEF seen
  <2> QED BY <1>2, <2>1, UnseenStep
<1>4. CASE ~(paymentPc' = "send" /\ public_address' = a)
  <2>1. PP!NoAddress \notin Address
    BY PaymentAssumptions DEF PP!AddressAssumption
  <2>2. seen' = [seen EXCEPT ![a] = Nothing]
    BY <1>1, <1>4, <2>1 DEF seen
  <2>3. \A b \in Address : ~Refused(b) /\ ~Overpaid(b) /\ ~Unheard(b) /\ ~Unsettled(b)
    BY <1>2, LedgerTypes DEF Refused, Overpaid, Unheard, Unsettled
  <2>4. UNCHANGED <<credited, late, stale, reading>>
    BY <1>1, <2>3, PaymentTally, PaymentReading
  <2>5. TheLedger!Skip(a)
    BY <1>2, <2>2, <2>4 DEF TheLedger!Skip
  <2> QED BY <2>5 DEF TheLedger!LNext
<1> QED BY <1>3, <1>4

(* Line 533: the wallet pays, refuses, or is not heard of. *)
LEMMA SendStep ==
    ASSUME SInv, PaymentTimer, PP!SendPayment
    PROVE  [TheLedger!LNext]_(TheLedger!ledger)
<1> USE DEF TheLedger!Nowhere, TheLedger!Nothing, Nothing
<1> DEFINE a == public_address
           t == [addr |-> public_address, amount |-> current_total.val]
<1>1. /\ paymentPc = "send"
      /\ UNCHANGED <<addresses, cursor, remaining, public_address,
                     current_total, paymentNumber>>
      /\ \/ PP!Transfer /\ paymentPc' \in {"reset", "sleep"}
         \/ transfers' = transfers /\ paymentPc' \in {"reset", "sleep"}
  BY DEF PP!SendPayment, PP!SendAccepted, PP!SendRefused, PP!SendUnanswered,
         PP!database
<1>2. owed' = owed /\ paid = TheLedger!Nowhere /\ reading' = reading
  BY <1>1, PaymentReading DEF owed, paid
<1>3. \A b \in Address : seen[b] \in Nat \cup {Nothing} /\ sent[b] \in Nat
  BY LedgerTypes
<1>4. CASE a \notin Address
  <2>1. PP!Transfer => FALSE
    BY <1>4 DEF PP!Transfer, SInv, PP!PassInv, PP!BufferInv, PP!TypeOK, PP!Text
  <2>2. sent' = sent
    BY <1>1, <2>1 DEF sent
  <2>3. CASE paymentPc' = "reset"
    <3>1. seen' = seen /\ paid' = paid
      BY <1>1, <1>4, <2>3 DEF seen, paid
    <3> QED BY <1>2, <2>2, <3>1, UnseenStep
  <2>4. CASE paymentPc' = "sleep"
    <3>1. seen' = TheLedger!Nowhere /\ paid' = TheLedger!Nowhere
      BY <2>4 DEF seen, paid
    <3> QED BY <1>2, <2>2, <3>1, StopStep
  <2> QED BY <1>1, <2>3, <2>4
<1>5. CASE a \in Address
  <2>1. ValuesFound
    BY <1>5, PaymentAssumptions
       DEF SInv, PP!PassInv, PP!BufferInv, PP!AddressAssumption
  <2>2. /\ paymentNumber = current_total.val /\ current_total.val \in Nat
        /\ cursor[a].current <= current_total.val
    BY <1>1, <2>1 DEF SInv, PP!PassInv, PP!BufferInv, PP!SeenInv, PP!TypeOK,
       PP!Text, PP!InHand, PP!InPass, PP!Steps
  <2>3. seen[a] = cursor[a].current /\ seen[a] # Nothing
    <3>1. cursor[a] \in PP!Document
      BY <1>1, <1>5, <2>1 DEF SInv, PP!PassInv, PP!SeenInv, PP!TypeOK,
         PP!Collection, PP!InHand, PP!InPass, PP!Steps
    <3> QED BY <1>1, <1>5, <3>1 DEF seen, PP!Document
  <2>4. t \in [addr : Address, amount : Nat]
    BY <1>5, <2>2
  <2>5. \/ /\ sent' = sent
        \/ /\ \A b \in Address :
                 sent'[b] = sent[b] + (IF b = a THEN paymentNumber ELSE 0)
    <3>1. CASE transfers' = transfers
      BY <3>1 DEF sent
    <3>2. CASE PP!Transfer
      <4>1. transfers' = Append(transfers, t)
        BY <3>2 DEF PP!Transfer
      <4>2. t.addr = a /\ t.amount = paymentNumber
        BY <2>2
      <4> HIDE DEF t
      <4> QED BY <2>4, <4>1, <4>2, SentMore
    <3> QED BY <1>1, <3>1, <3>2
  <2>6. CASE paymentPc' = "reset"
    <3>1. seen' = seen /\ paid' = [paid EXCEPT ![a] = paymentNumber]
      BY <1>1, <1>2, <2>6 DEF seen, paid
    <3>2. paid'[a] = paymentNumber /\ \A b \in Address \ {a} : paid'[b] = paid[b]
      BY <1>2, <1>5, <3>1
    <3>3. /\ \A b \in Address \ {a} : ~Refused(b) /\ ~Overpaid(b)
          /\ \A b \in Address : ~Unheard(b) /\ ~Unsettled(b)
      BY <1>2, <1>3, <2>2, <2>5, <3>2 DEF Refused, Overpaid, Unheard, Unsettled
    <3>4. Overpaid(a) <=> paid'[a] > seen[a]
      BY <1>2, <1>3, <1>5, <2>2, <3>2 DEF Overpaid
    <3>5. \/ sent' = [sent EXCEPT ![a] = @ + paid'[a]] /\ ~Refused(a)
          \/ sent' = sent /\ Refused(a)
      <4>1. paid'[a] \in Nat /\ paid[a] = Nothing /\ sent \in [Address -> Nat]
            /\ DOMAIN sent' = Address /\ sent' = [b \in Address |-> sent'[b]]
        BY <1>2, <1>5, <2>2, <3>2, LedgerTypes DEF sent
      <4>2. CASE sent' = sent /\ paid'[a] > 0
        BY <1>5, <4>1, <4>2 DEF Refused
      <4>3. CASE \A b \in Address : sent'[b] = sent[b] + (IF b = a THEN paid'[a] ELSE 0)
        <5>1. \A b \in Address : sent'[b] = [sent EXCEPT ![a] = @ + paid'[a]][b]
          BY <4>1, <4>3
        <5>2. sent' = [sent EXCEPT ![a] = @ + paid'[a]]
          BY <4>1, <5>1
        <5>3. ~Refused(a)
          BY <1>3, <1>5, <4>1, <4>3 DEF Refused
        <5> QED BY <5>2, <5>3
      <4>4. CASE sent' = sent /\ paid'[a] = 0
        BY <4>1, <4>3, <4>4
      <4> QED BY <2>5, <3>2, <4>1, <4>2, <4>3, <4>4
    <3>6. TheLedger!Pay(a)
      <4>1. /\ late' = IF Refused(a) THEN late \cup {a} ELSE late
            /\ stale' = IF Overpaid(a) THEN stale \cup {a} ELSE stale
            /\ credited' = credited
        BY <1>5, <3>3, PaymentTally
      <4>2. paid'[a] \in Nat /\ paid'[a] >= seen[a]
            /\ paid' = [paid EXCEPT ![a] = paid'[a]]
        BY <2>2, <2>3, <3>1, <3>2
      <4> QED BY <1>2, <2>3, <3>1, <3>4, <3>5, <4>1, <4>2 DEF TheLedger!Pay
    <3> QED BY <1>5, <3>6 DEF TheLedger!LNext
  <2>7. CASE paymentPc' = "sleep"
    <3>1. seen' = TheLedger!Nowhere /\ paid' = TheLedger!Nowhere
      BY <2>7 DEF seen, paid
    <3>2. CASE sent' = sent
      BY <1>2, <3>1, <3>2, StopStep
    <3>3. CASE sent' # sent
      <4>1. \A b \in Address :
                sent'[b] = sent[b] + (IF b = a THEN paymentNumber ELSE 0)
        BY <2>5, <3>3
      <4>2. sent'[a] > sent[a] /\ sent'[a] \in Nat
        <5>1. paymentNumber # 0
          <6>1. paymentNumber = 0 => \A b \in Address : sent'[b] = sent[b]
            BY <1>3, <4>1
          <6> QED BY <3>3, <6>1 DEF sent
        <5> QED BY <1>3, <1>5, <2>2, <4>1, <5>1
      <4>3. sent' = [sent EXCEPT ![a] = sent'[a]]
        <5>1. \A b \in Address \ {a} : sent'[b] = sent[b]
          BY <1>3, <4>1
        <5> QED BY <5>1 DEF sent
      <4>4. \A b \in Address : ~Refused(b) /\ ~Overpaid(b) /\ ~Unsettled(b)
                                /\ (Unheard(b) <=> b = a)
        BY <1>2, <1>3, <3>1, <4>1, <4>2 DEF Refused, Overpaid, Unheard, Unsettled
      <4>5. stale' = stale \cup {a} /\ UNCHANGED <<credited, late>>
        BY <1>5, <4>4, PaymentTally
      <4>6. TheLedger!PayUnanswered(a)
        BY <1>2, <1>3, <1>5, <3>1, <4>2, <4>3, <4>5 DEF TheLedger!PayUnanswered
      <4> QED BY <1>5, <4>6 DEF TheLedger!LNext
    <3> QED BY <3>2, <3>3
  <2> QED BY <1>1, <2>6, <2>7
<1> QED BY <1>4, <1>5

(* Lines 541-553: what is owed by now becomes 0, unless the update fails. *)
LEMMA ResetStep ==
    ASSUME SInv, PaymentTimer, PP!ResetCurrentTotal
    PROVE  [TheLedger!LNext]_(TheLedger!ledger)
<1> USE DEF TheLedger!Nowhere, TheLedger!Nothing, Nothing
<1> DEFINE a == public_address
           after == PP!Update(addresses, PP!ByAddress, "current", 0)
<1>1. /\ paymentPc = "reset" /\ paymentPc' \in {"total", "sleep"}
      /\ addresses' \in {addresses, after}
      /\ paymentPc' = "total" => addresses' = after
      /\ UNCHANGED <<transfers, cursor, remaining, public_address, paymentNumber>>
  <2> HIDE DEF after
  <2>1. PICK o \in PP!Outcomes(addresses, after) :
            /\ addresses' = o.result
            /\ paymentPc' = IF o.ret = 1 THEN "total" ELSE "sleep"
    BY DEF PP!ResetCurrentTotal, after
  <2>2. o.result \in {addresses, after} /\ (o.ret = 1 => o.result = after)
    BY DEF PP!Outcomes
  <2> QED BY <2>1, <2>2 DEF PP!ResetCurrentTotal
<1>2. sent' = sent /\ reading' = reading
      /\ \A b \in Address : /\ seen[b] \in Nat \cup {Nothing} /\ sent[b] \in Nat
                            /\ paid[b] \in Nat \cup {Nothing} /\ owed[b] \in Nat
  BY <1>1, PaymentReading, LedgerTypes DEF sent
<1>3. paid' = TheLedger!Nowhere /\ \A b \in Address \ {a} : paid[b] = Nothing
  BY <1>1 DEF paid
<1>4. paymentPc' = "sleep" => seen' = TheLedger!Nowhere
  BY DEF seen
<1>5. \A b \in Address : ~Refused(b) /\ ~Overpaid(b) /\ ~Unheard(b)
  BY <1>2, <1>3 DEF Refused, Overpaid, Unheard
<1>6. CASE addresses' = addresses /\ paymentPc' = "sleep"
  <2>1. owed' = owed
    BY <1>6 DEF owed
  <2> QED BY <1>2, <1>3, <1>4, <1>6, <2>1, StopStep
<1>7. CASE a \notin Address
  <2>1. \A b \in Address : after[b] = addresses[b]
    BY <1>7 DEF PP!Update, PP!Selects, PP!ByAddress
  <2>2. owed' = owed
    <3> HIDE DEF after
    <3>1. \A b \in Address : addresses'[b] = addresses[b]
      BY <1>1, <2>1
    <3> QED BY <3>1 DEF owed
  <2>3. CASE paymentPc' = "sleep"
    BY <1>2, <1>3, <1>4, <2>2, <2>3, StopStep
  <2>4. CASE paymentPc' = "total"
    <3>1. seen' = seen /\ paid' = paid
      BY <1>1, <1>7, <2>4 DEF seen, paid
    <3> QED BY <1>2, <2>2, <3>1, UnseenStep
  <2> QED BY <1>1, <2>3, <2>4
<1>8. CASE addresses' = after /\ a \in Address
  <2>1. owed' = [owed EXCEPT ![a] = 0]
    <3>1. ASSUME NEW b \in Address
          PROVE  owed'[b] = IF b = a THEN 0 ELSE owed[b]
      <4>1. addresses[b] \in PP!Document \cup {PP!NoDocument}
        BY DEF SInv, PP!PassInv, PP!TypeOK, PP!Collection
      <4>2. CASE b = a /\ addresses[b] # PP!NoDocument
        <5>1. addresses'[b] = [addresses[b] EXCEPT !["current"] = 0]
          BY <1>8, <4>2 DEF PP!Update, PP!Selects, PP!ByAddress
        <5>2. addresses'[b].current = 0
          BY <4>1, <4>2, <5>1 DEF PP!Document
        <5> QED BY <4>2, <5>2, SameDocuments DEF owed, PP!NoDocument
      <4>3. CASE b # a \/ addresses[b] = PP!NoDocument
        <5>1. addresses'[b] = addresses[b]
          BY <1>8, <4>3 DEF PP!Update, PP!Selects, PP!ByAddress
        <5> QED BY <4>3, <5>1, SameDocuments DEF owed
      <4> QED BY <4>2, <4>3
    <3> HIDE DEF a
    <3> QED BY <3>1 DEF owed
  <2>2. paid[a] # Nothing /\ owed'[a] = 0
    <3>1. paymentNumber \in Nat
      BY DEF SInv, PP!PassInv, PP!TypeOK
    <3> QED BY <1>1, <1>8, <2>1, <3>1 DEF paid, owed
  <2>3. seen' \in {[seen EXCEPT ![a] = Nothing], TheLedger!Nowhere}
    <3>1. CASE paymentPc' = "total"
      <4>1. a \notin remaining
        BY <1>1 DEF SInv, PP!PassInv, PP!HandInv, PP!InHand, PP!InPass, PP!Steps
      <4>2. seen' = [seen EXCEPT ![a] = Nothing]
        BY <1>1, <3>1, <4>1 DEF seen
      <4> QED BY <4>2
    <3> QED BY <1>1, <1>4, <3>1
  <2>4. \A b \in Address : Unsettled(b) <=> b = a /\ reading[a] # Nothing
    BY <1>3, <1>8, <2>2 DEF Unsettled
  <2>5. /\ UNCHANGED <<credited, late>>
        /\ stale' = IF reading[a] # Nothing THEN stale \cup {a} ELSE stale
    BY <1>5, <1>8, <2>4, PaymentTally
  <2>6. TheLedger!Wipe(a)
    <3> HIDE DEF a, after
    <3> QED BY <1>2, <1>3, <2>1, <2>2, <2>3, <2>5 DEF TheLedger!Wipe
  <2> QED BY <1>8, <2>6 DEF TheLedger!LNext
<1> QED BY <1>1, <1>6, <1>7, <1>8

(* Every step of the payment timer is one of Ledger, or none. *)
LEMMA PaymentLedger ==
    SInv /\ PaymentTimer => [TheLedger!LNext]_(TheLedger!ledger)
<1> SUFFICES ASSUME SInv, PaymentTimer
             PROVE  [TheLedger!LNext]_(TheLedger!ledger)
  OBVIOUS
<1> USE DEF PP!clock, PP!database, PP!buffers, PP!history
<1>1. PP!Thread
  BY SamePaymentTimer DEF PaymentTimer
<1>2. CASE PP!NotMidnight \/ PP!Sleep
  <2>1. /\ paymentPc \in {"check", "sleep"} /\ paymentPc' \in {"check", "sleep"}
        /\ UNCHANGED <<addresses, transfers>>
    BY <1>2 DEF PP!NotMidnight, PP!Sleep
  <2>2. UNCHANGED <<owed, sent, seen, paid>>
    BY <2>1 DEF owed, sent, seen, paid
  <2> QED BY <2>2, UnseenStep
<1>3. CASE PP!StartPass
  BY <1>3, LookStep
<1>4. CASE \E a \in Address : PP!NextDocument(a)
  BY <1>4, NextStep
<1>5. CASE PP!SendPayment
  BY <1>5, SendStep
<1>6. CASE PP!ResetCurrentTotal
  BY <1>6, ResetStep
<1>7. CASE PP!EndPass
  BY <1>7, BetweenStep DEF PP!EndPass, Between
<1>8. CASE PP!AddToTotal \/ PP!RecordPayment
  BY <1>8, BetweenStep DEF PP!AddToTotal, PP!RecordPayment, Between
<1>9. CASE PP!ClearInactivity \/ PP!ReadInactivity
  BY <1>9, BetweenStep DEF PP!ClearInactivity, PP!ReadInactivity, Between
<1>10. CASE PP!WriteInactivity \/ PP!RemoveInactive
  BY <1>10, BetweenStep DEF PP!WriteInactivity, PP!RemoveInactive, Between
<1> QED BY <1>1, <1>2, <1>3, <1>4, <1>5, <1>6, <1>7, <1>8, <1>9, <1>10
        DEF PP!Thread

-----------------------------------------------------------------------------
(* The block timer and the world leave the payments alone. *)
LEMMA BlockTally ==
    ASSUME SInv, UNCHANGED paymentVars, Tally
    PROVE  /\ UNCHANGED <<sent, seen, paid>>
           /\ \A a \in Address : credited'[a] =
                  credited[a] + (IF Credited(a) THEN B!Share(a) ELSE 0)
           /\ credited' = [a \in Address |-> credited'[a]]
           /\ late' = late \cup
                 {a \in Address : (Credited(a) /\ seen[a] # Nothing) \/ Misread(a)}
           /\ stale' = stale \cup {a \in Address : Misread(a)}
<1>1. UNCHANGED <<sent, seen, paid>>
  BY DEF paymentVars, sent, seen, paid
<1>2. \A a \in Address : ~Refused(a) /\ ~Overpaid(a) /\ ~Unheard(a) /\ ~Unsettled(a)
  BY <1>1, LedgerTypes DEF Refused, Overpaid, Unheard, Unsettled
<1> QED BY <1>1, <1>2 DEF Tally

(* A step that neither writes a document nor begins or ends a split. *)
LEMMA UnreadStep ==
    ASSUME SInv, UNCHANGED paymentVars, Tally, UNCHANGED <<owed, reading>>
    PROVE  UNCHANGED (TheLedger!ledger)
<1>1. \A a \in Address : ~Credited(a) /\ ~Misread(a)
  BY DEF Credited, Misread
<1>2. credited' = [a \in Address |-> credited[a] + 0]
  BY <1>1, BlockTally
<1>3. credited' = credited
  BY <1>2 DEF SInv
<1> QED BY <1>1, <1>3, BlockTally DEF TheLedger!ledger

(* Lines 265-281: what is read is what is owed, or something else. *)
LEMMA ReadStep ==
    ASSUME SInv, UNCHANGED paymentVars, Tally,
           NEW a \in Address, BB!ReadCurrentTotal(a)
    PROVE  [TheLedger!LNext]_(TheLedger!ledger)
<1> USE DEF TheLedger!Nothing, Nothing
<1>1. /\ blockPc = "split" /\ blockPc' = "update" /\ a \in left /\ voter' = a
      /\ UNCHANGED <<addresses, documents, block_reward_number>>
      /\ \E n \in BB!TotalReads(a) : blockNumber' = n + BB!Share(a)
  BY DEF BB!ReadCurrentTotal, BB!collections, BB!reward
<1>2. owed' = owed
  BY <1>1 DEF owed
<1>3. a \in BB!Voters(documents) /\ BB!Share(a) \in Nat
  BY <1>1, BlockAssumptions, BB!ShareIsNat DEF SInv, BB!TypeInv
<1>4. BB!Share(a)' = BB!Share(a)
  BY <1>1 DEF BB!Share
<1>5. PICK n \in BB!TotalReads(a) : blockNumber' = n + BB!Share(a)
  BY <1>1
<1>6. n \in Nat
  <2>1. documents[a] \in Nat /\ addresses \in BB!Collection
    BY DEF SInv, BB!TypeInv, BB!TypeOK
  <2> QED BY <2>1, BlockAssumptions, BB!FieldIsNat DEF BB!TotalReads
<1>7. /\ \A b \in Address : reading[b] = Nothing
      /\ \A b \in Address : reading'[b] =
            IF b = a /\ addresses[b] # PP!NoDocument THEN n ELSE Nothing
  <2>1. B!Share(a)' = B!Share(a)
    BY <1>1 DEF B!Share
  <2> QED BY <1>1, <1>3, <1>5, <1>6, <2>1, SameShare, SameDocuments DEF reading
<1>8. \A b \in Address : ~Credited(b)
  BY <1>7 DEF Credited
<1>9. credited' = credited
  <2>1. credited' = [b \in Address |-> credited[b] + 0]
    BY <1>8, BlockTally
  <2> QED BY <2>1 DEF SInv
<1>10. CASE addresses[a] = PP!NoDocument
  <2>1. reading' = reading
    BY <1>7, <1>10 DEF reading
  <2> QED BY <1>2, <2>1, UnreadStep
<1>11. CASE addresses[a] # PP!NoDocument
  <2>1. reading' = [reading EXCEPT ![a] = n]
    BY <1>7, <1>11 DEF reading
  <2>2. /\ late' = late \cup {b \in Address : Misread(b)}
        /\ stale' = stale \cup {b \in Address : Misread(b)}
    BY <1>8, BlockTally
  <2>3. \A b \in Address : Misread(b) <=> b = a /\ n # owed[a]
    BY <1>2, <1>6, <1>7, <1>11 DEF Misread
  <2>4. CASE n = owed[a]
    <3>1. TheLedger!Read(a)
      BY <1>2, <1>7, <1>9, <2>1, <2>2, <2>3, <2>4, BlockTally DEF TheLedger!Read
    <3> QED BY <3>1 DEF TheLedger!LNext
  <2>5. CASE n # owed[a]
    <3>1. late' = late \cup {a} /\ stale' = stale \cup {a}
      BY <2>2, <2>3, <2>5
    <3>2. reading'[a] = n
      BY <1>7, <1>11
    <3>3. TheLedger!Misread(a)
      BY <1>2, <1>6, <1>7, <1>9, <2>1, <3>1, <3>2, BlockTally DEF TheLedger!Misread
    <3> QED BY <3>3 DEF TheLedger!LNext
  <2> QED BY <2>4, <2>5
<1> QED BY <1>10, <1>11

(* Lines 282-291: the share is written on top of what was read, or not. *)
LEMMA ShareStep ==
    ASSUME SInv, UNCHANGED paymentVars, Tally, BB!AddShare
    PROVE  [TheLedger!LNext]_(TheLedger!ledger)
<1> USE DEF TheLedger!Nothing, Nothing
<1> DEFINE a == voter
           after == BB!Update(addresses, BB!VoterFilter(voter), "current",
                              blockNumber)
<1>1. /\ blockPc = "update" /\ blockPc' \in {"split", "poll"}
      /\ addresses' \in {addresses, after}
  BY DEF BB!AddShare, BB!Abort, BB!Outcomes
<1>2. a \in Address /\ blockNumber \in Nat
  BY <1>1 DEF SInv, BB!TypeInv, BB!ShareInHand, BB!Voters
<1>3. /\ \A b \in Address : reading'[b] = Nothing
      /\ \A b \in Address \ {a} : reading[b] = Nothing
  BY <1>1 DEF reading
<1>4. /\ \A b \in Address \ {a} : owed'[b] = owed[b]
      /\ owed'[a] = owed[a] \/ (reading[a] # Nothing /\ owed'[a] = blockNumber)
  <2>1. \A b \in Address \ {a} : after[b] = addresses[b]
    BY DEF BB!Update, BB!Selects, BB!VoterFilter
  <2>2. \A b \in Address \ {a} : addresses'[b] = addresses[b]
    <3> HIDE DEF after
    <3> QED BY <1>1, <2>1
  <2>3. addresses[a] \in PP!Document \cup {PP!NoDocument}
    BY <1>2 DEF SInv, PP!PassInv, PP!TypeOK, PP!Collection
  <2>4. CASE addresses'[a] = addresses[a]
    BY <1>2, <2>2, <2>4 DEF owed
  <2>5. CASE addresses[a] # PP!NoDocument
             /\ addresses'[a] = [addresses[a] EXCEPT !.current = blockNumber]
    <3>1. reading[a] # Nothing
      BY <1>1, <1>2, <2>5, ReadingIs
    <3>2. addresses'[a].current = blockNumber /\ addresses'[a] # PP!NoDocument
      BY <1>2, <2>3, <2>5 DEF PP!Document, PP!NoDocument
    <3> QED BY <1>2, <2>2, <3>1, <3>2, SameDocuments DEF owed
  <2> QED BY <1>2, <2>4, <2>5, ShareFrame, SameDocuments DEF SInv
<1>5. \A b \in Address : ~Misread(b)
  BY <1>3 DEF Misread
<1>6. reading' = [reading EXCEPT ![a] = Nothing]
  BY <1>3 DEF reading
<1>7. CASE reading[a] = Nothing \/ owed'[a] = owed[a]
  <2>1. owed' = owed
    BY <1>2, <1>4, <1>7 DEF owed
  <2>2. \A b \in Address : ~Credited(b)
    BY <2>1 DEF Credited
  <2>3. credited' = [b \in Address |-> credited[b] + 0]
    BY <2>2, BlockTally
  <2>4. UNCHANGED <<credited, late, stale>>
    <3>1. credited' = credited
      BY <2>3 DEF SInv
    <3>2. UNCHANGED <<late, stale>>
      BY <1>5, <2>2, BlockTally
    <3> QED BY <3>1, <3>2
  <2>5. TheLedger!Drop(a)
    BY <1>6, <2>1, <2>4, BlockTally DEF TheLedger!Drop
  <2> QED BY <1>2, <2>5 DEF TheLedger!LNext
<1>8. CASE reading[a] # Nothing /\ owed'[a] # owed[a]
  <2>1. /\ owed'[a] = blockNumber /\ reading[a] = blockNumber - B!Share(a)
        /\ reading[a] \in Nat /\ B!Share(a) \in Nat
    BY <1>2, <1>4, <1>8, ReadingIs
  <2>2. \A b \in Address : Credited(b) <=> b = a
    BY <1>2, <1>3, <1>8 DEF Credited
  <2>3. credited' = [credited EXCEPT ![a] = @ + owed'[a] - reading[a]]
    <3>1. credited[a] \in Nat
      BY <1>2 DEF SInv
    <3>2. credited[a] + B!Share(a) = credited[a] + owed'[a] - reading[a]
      BY <1>2, <2>1, <3>1
    <3>3. \A b \in Address \ {a} : credited[b] + 0 = credited[b]
      BY DEF SInv
    <3>4. \A b \in Address : credited'[b] =
              IF b = a THEN credited[a] + owed'[a] - reading[a] ELSE credited[b]
      BY <2>2, <3>2, <3>3, BlockTally
    <3> QED BY <1>2, <3>4, BlockTally DEF SInv
  <2>4. owed' = [owed EXCEPT ![a] = owed'[a]]
    BY <1>4 DEF owed
  <2>5. /\ late' = IF seen[a] # Nothing THEN late \cup {a} ELSE late
        /\ stale' = stale
    BY <1>2, <1>5, <2>2, BlockTally
  <2>6. owed'[a] \in Nat /\ owed'[a] >= reading[a]
    BY <1>2, <2>1
  <2>7. TheLedger!Credit(a)
    BY <1>6, <1>8, <2>3, <2>4, <2>5, <2>6, BlockTally DEF TheLedger!Credit
  <2> QED BY <1>2, <2>7 DEF TheLedger!LNext
<1> QED BY <1>7, <1>8

(* Every step of the block timer or of the world is one of Ledger, or none. *)
LEMMA BlockLedger ==
    SInv /\ (BlockTimer \/ World) => [TheLedger!LNext]_(TheLedger!ledger)
<1> SUFFICES ASSUME SInv, BlockTimer \/ World
             PROVE  [TheLedger!LNext]_(TheLedger!ledger)
  OBVIOUS
<1> USE DEF BB!collections, BB!world, BB!split, BB!reward
<1>1. /\ BB!Thread \/ BB!NewBlock \/ BB!Vote
      /\ UNCHANGED paymentVars /\ Tally
  BY SameBlockTimer DEF BlockTimer, World
<1>2. CASE BB!AddShare
  BY <1>1, <1>2, ShareStep
<1>3. CASE \E a \in Address : BB!ReadCurrentTotal(a)
  BY <1>1, <1>3, ReadStep
<1>4. CASE ~BB!AddShare /\ (BB!NewBlock \/ BB!Vote)
  <2>1. UNCHANGED <<addresses, blockPc, voter, blockNumber, documents,
                    block_reward_number>>
    BY <1>4 DEF BB!NewBlock, BB!Vote
  <2>2. \A a \in Address : B!Share(a)' = B!Share(a)
    BY <2>1 DEF B!Share
  <2>3. UNCHANGED <<owed, reading>>
    BY <2>1, <2>2 DEF owed, reading
  <2> QED BY <1>1, <2>3, UnreadStep
<1>5. CASE /\ ~BB!AddShare /\ ~\E a \in Address : BB!ReadCurrentTotal(a)
           /\ BB!Thread
  <2>1. blockPc # "update" /\ blockPc' # "update"
    BY <1>5 DEF BB!Thread, BB!Handle, BB!PollAnswered, BB!PollUnanswered,
       BB!Notice, BB!CheckFoundBlock, BB!GetInformation, BB!GetHeight,
       BB!Recognise, BB!InsertFoundBlock, BB!CountVoters, BB!RecountVoters,
       BB!ReadVoters, BB!ReadNothing, BB!GoOnWith, BB!CountFoundBlock,
       BB!CountOtherBlock, BB!CountBlock, BB!CountIn, BB!Abort
  <2>2. UNCHANGED <<owed, reading>>
    BY <1>5, <2>1, BlockFrame DEF owed, reading
  <2> QED BY <1>1, <2>2, UnreadStep
<1> QED BY <1>1, <1>2, <1>3, <1>4, <1>5

(* Both threads end: a payment without its wipe is left behind. *)
LEMMA RestartLedger == SInv /\ Restart => [TheLedger!LNext]_(TheLedger!ledger)
<1> SUFFICES ASSUME SInv, Restart
             PROVE  [TheLedger!LNext]_(TheLedger!ledger)
  OBVIOUS
<1> USE DEF TheLedger!Nowhere, TheLedger!Nothing, Nothing
<1>1. /\ PP!Restart /\ BB!Restart /\ Tally
  BY SamePaymentTimer, SameBlockTimer DEF Restart
<1>2. /\ UNCHANGED <<addresses, transfers>>
      /\ paymentPc' = "check" /\ blockPc' = "poll"
  BY <1>1 DEF PP!Restart, PP!database, BB!Restart
<1>3. /\ owed' = owed /\ sent' = sent
      /\ seen' = TheLedger!Nowhere /\ paid' = TheLedger!Nowhere
      /\ reading' = TheLedger!Nowhere
  BY <1>2 DEF owed, sent, seen, paid, reading
<1>4. \A a \in Address :
          /\ ~Credited(a) /\ ~Refused(a) /\ ~Overpaid(a) /\ ~Unheard(a)
          /\ ~Misread(a)
          /\ Unsettled(a) <=> paid[a] # Nothing /\ (owed[a] # 0 \/ reading[a] # Nothing)
  BY <1>3, LedgerTypes
     DEF Credited, Refused, Overpaid, Unheard, Unsettled, Misread
<1>5. credited' = [a \in Address |-> credited[a] + 0]
  BY <1>1, <1>4 DEF Tally
<1>6. credited' = credited
  BY <1>5 DEF SInv
<1>7. /\ late' = late
      /\ stale' = stale \cup {a \in Address : /\ paid[a] # Nothing
                                              /\ owed[a] # 0 \/ reading[a] # Nothing}
  BY <1>1, <1>4 DEF Tally
<1>8. TheLedger!Stop
  BY <1>3, <1>6, <1>7 DEF TheLedger!Stop
<1> QED BY <1>8 DEF TheLedger!LNext

-----------------------------------------------------------------------------
(* The invariant is inductive. *)
LEMMA SInvInit == B!RewardsAreNumbers /\ Init => SInv
<1> SUFFICES ASSUME B!RewardsAreNumbers, Init PROVE SInv
  OBVIOUS
<1>1. PP!Init /\ BB!Init /\ BB!RewardsAreNumbers
  BY SamePaymentTimer, SameBlockTimer DEF Init
<1>2. PP!PassInv /\ BB!TypeInv
  BY <1>1, PaymentAssumptions, PP!PassInit, BlockAssumptions, BB!TypeInit
<1>3. owed \in [Address -> Nat]
  BY <1>2, SameDocuments, PaymentAssumptions, PP!OwedType DEF PP!PassInv
<1> QED BY <1>1, <1>2, <1>3 DEF Init, SInv

LEMMA SInvStep == SInv /\ [Next]_vars => SInv'
<1> SUFFICES ASSUME SInv, [Next]_vars PROVE SInv'
  OBVIOUS
<1>1. CASE Next
  <2>1. PP!PassInv' /\ BB!TypeInv'
    BY <1>1, PaymentKeeps, BlockKeeps, RestartKeeps DEF Next
  <2>2. Tally
    BY <1>1 DEF Next, PaymentTimer, BlockTimer, World, Restart
  <2>3. \A a \in Address : Credited(a) => B!Share(a) \in Nat
    BY ReadingIs DEF Credited
  <2>4. \A a \in Address : credited[a] \in Nat
    BY DEF SInv
  <2>5. credited' \in [Address -> Nat]
    BY <2>2, <2>3, <2>4 DEF Tally
  <2>6. late' \subseteq Address /\ stale' \subseteq Address
    BY <2>2 DEF Tally, SInv
  <2> QED BY <2>1, <2>5, <2>6 DEF SInv
<1>2. CASE UNCHANGED vars
  <2>1. UNCHANGED PP!vars /\ UNCHANGED BB!vars
    BY <1>2 DEF vars, paymentVars, blockVars, PP!vars, PP!clock, PP!database,
       PP!buffers, PP!history, BB!vars, BB!world, BB!collections, BB!height,
       BB!split, BB!reward, BB!reading, BB!history
  <2>2. PP!PassInv'
    BY <2>1, PaymentAssumptions, PP!PassStep DEF SInv
  <2>3. BB!TypeInv'
    BY <2>1, BlockAssumptions, BB!TypeStep DEF SInv
  <2> QED BY <1>2, <2>2, <2>3 DEF SInv, vars
<1> QED BY <1>1, <1>2

(* What each of the two threads knows, thread_functions.c:141-385 and      *)
(* 435-624, it keeps knowing while the other one writes to the same        *)
(* documents and while the process is started again.                       *)
THEOREM ThreadsKeepTheirInvariants ==
    ASSUME B!RewardsAreNumbers
    PROVE  Spec => []SInv
BY SInvInit, SInvStep, PTL DEF Spec

(* The types of both threads, in every state of the two together. *)
THEOREM SharedTypes ==
    ASSUME B!RewardsAreNumbers
    PROVE  Spec => []TypeOK
<1>1. SInv => TypeOK
  BY SamePaymentTimer, SameBlockTimer DEF SInv, TypeOK, PP!PassInv, BB!TypeInv
<1> QED BY <1>1, ThreadsKeepTheirInvariants, PTL

-----------------------------------------------------------------------------
(* Nothing has been sent, looked at or read when the program starts.       *)
LEMMA LedgerInit == B!RewardsAreNumbers /\ Init => TheLedger!LInit
<1> SUFFICES ASSUME B!RewardsAreNumbers, Init PROVE TheLedger!LInit
  OBVIOUS
<1> USE DEF TheLedger!Nowhere, TheLedger!Nothing, Nothing
<1>1. PP!Init /\ BB!Init /\ SInv
  BY SInvInit, SamePaymentTimer, SameBlockTimer DEF Init
<1>2. transfers = << >> /\ paymentPc = "check" /\ blockPc = "poll"
  BY <1>1 DEF PP!Init, BB!Init
<1>3. \A a \in Address : sent[a] = 0
  <2>1. DOMAIN transfers = {}
    BY <1>2
  <2> QED BY <2>1, SumEmpty DEF sent
<1>4. /\ sent = [a \in Address |-> 0]
      /\ seen = TheLedger!Nowhere /\ paid = TheLedger!Nowhere
      /\ reading = TheLedger!Nowhere
  BY <1>2, <1>3 DEF sent, seen, paid, reading
<1>5. owed \in [Address -> Nat]
  BY <1>1, LedgerTypes
<1> QED BY <1>4, <1>5 DEF Init, TheLedger!LInit

LEMMA LedgerStep == SInv /\ [Next]_vars => [TheLedger!LNext]_(TheLedger!ledger)
<1> SUFFICES ASSUME SInv, [Next]_vars
             PROVE  [TheLedger!LNext]_(TheLedger!ledger)
  OBVIOUS
<1>1. CASE UNCHANGED vars
  BY <1>1 DEF vars, paymentVars, blockVars, TheLedger!ledger, owed, sent, seen,
     paid, reading, B!Share
<1> QED BY <1>1, PaymentLedger, BlockLedger, RestartLedger DEF Next

(* The two threads together implement Ledger: every call of one of them,   *)
(* thread_functions.c:141-385 and 435-624, is one of the steps that Ledger *)
(* allows, or none, whatever the other thread is doing.                    *)
THEOREM ThreadsImplementLedger ==
    ASSUME B!RewardsAreNumbers
    PROVE  Spec => LedgerKept
<1>1. Spec => TheLedger!LInit
  BY LedgerInit DEF Spec
<1>2. Spec => [][TheLedger!LNext]_(TheLedger!ledger)
  BY LedgerStep, ThreadsKeepTheirInvariants, PTL DEF Spec
<1> QED BY <1>1, <1>2 DEF LedgerKept, TheLedger!LSpec

(* So no share is lost outside the windows of Ledger, thread_functions.c:  *)
(* 497-553 against 264-292 ...                                             *)
THEOREM SharedSharesAreKept ==
    ASSUME B!RewardsAreNumbers
    PROVE  Spec => []NoShareLost
<1>1. Spec => LL!LSpec
  BY LedgerInit, LedgerStep, SameLedger, ThreadsKeepTheirInvariants, PTL
     DEF Spec, LL!LSpec
<1>2. LL!LSpec => []LL!NoShareLost
  BY LL!SharesAreKept
<1>3. LL!NoShareLost => NoShareLost
  BY SameLedger DEF NoShareLost
<1> QED BY <1>1, <1>2, <1>3, PTL

(* ... and nothing is paid twice. *)
THEOREM SharedNoSecondPayment ==
    ASSUME B!RewardsAreNumbers
    PROVE  Spec => []NothingPaidTwice
<1>1. Spec => LL!LSpec
  BY LedgerInit, LedgerStep, SameLedger, ThreadsKeepTheirInvariants, PTL
     DEF Spec, LL!LSpec
<1>2. LL!LSpec => []LL!NothingPaidTwice
  BY LL!NoSecondPayment
<1>3. LL!NothingPaidTwice => NothingPaidTwice
  BY SameLedger DEF NothingPaidTwice
<1> QED BY <1>1, <1>2, <1>3, PTL
==============================================================================
