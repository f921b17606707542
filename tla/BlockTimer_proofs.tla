-------------------------- MODULE BlockTimer_proofs --------------------------
(***************************************************************************)
(* Proofs about BlockTimer for every value of its constants: what is       *)
(* recorded in blocks_found and counted in the statistics, and what a      *)
(* split hands out.                                                        *)
(***************************************************************************)
EXTENDS BlockTimer, Sums_proofs

(* A sequence that grows by one record, whatever the record is. *)
LEMMA AppendGrows ==
    ASSUME NEW S, NEW s \in Seq(S), NEW e
    PROVE  /\ Append(s, e) \in Seq(S \cup {e})
           /\ Len(Append(s, e)) = Len(s) + 1 /\ Len(s) \in Nat
           /\ \A i \in 1 .. Len(s) : Append(s, e)[i] = s[i]
           /\ Append(s, e)[Len(s) + 1] = e
<1>1. s \in Seq(S \cup {e})
  OBVIOUS
<1> QED BY <1>1

(* The invariant behind RecordedBlockIsOurs, for one record. *)
IsOurs(c, r) ==
    /\ r.height + 1 \in 1 .. Len(c)
    /\ c[r.height + 1] = [ours |-> TRUE, reward |-> r.reward]

(* Where a handler is on its way with a block that was recognised. *)
Handling == {"information", "height", "insert", "count", "recount", "read",
             "split", "update"}

(* What it knows of that block grows call by call; unless it is torn, the  *)
(* counts it asks for are those of the block it began with.                *)
KnownInv ==
    ~torn =>
        /\ pc \in Handling => handled \in 1 .. Len(chain) /\ chain[handled].ours
        /\ pc \in {"information", "height"} => handled = Len(chain)
        /\ pc \in Handling \ {"information"} =>
               block_reward_number = chain[handled].reward
        /\ pc \in {"height", "insert"} => block_reward = chain[handled].reward
        /\ pc = "insert" => number = handled - 1

FoundType ==
    /\ chain \in Seq(Blocks) /\ chain # << >>
    /\ \E S : blocks_found \in Seq(S)

FoundInv ==
    /\ FoundType
    /\ KnownInv
    /\ \A i \in 1 .. Len(blocks_found) :
           i \notin suspects => IsOurs(chain, blocks_found[i])

LEMMA FoundInit == Init => FoundInv
<1> SUFFICES ASSUME Init PROVE FoundInv
  OBVIOUS
<1>1. PICK b \in Blocks : chain = << b >>
  BY DEF Init
<1>2. blocks_found = << >>
  BY DEF Init
<1>3. FoundType
  <2>1. blocks_found \in Seq({})
    BY <1>2
  <2> QED BY <1>1, <2>1 DEF FoundType
<1>4. KnownInv
  BY DEF Init, KnownInv, Handling
<1> QED BY <1>2, <1>3, <1>4 DEF FoundInv

(* The steps that change nothing a handler knows of its block: they leave  *)
(* pc where it was, or the handler goes on to where it knows no more.      *)
LEMMA QuietStep ==
    ASSUME FoundInv,
           UNCHANGED <<chain, blocks_found, suspects, reward, handled>>,
           torn' = torn, number' = number \/ pc' # "insert",
           \/ pc' = pc
           \/ pc' \notin Handling
           \/ pc \in Handling \ {"information", "height"}
                 /\ pc' \in Handling \ {"information", "height", "insert"}
    PROVE  FoundInv'
<1> USE DEF reward
<1>1. FoundType'
  BY DEF FoundInv, FoundType
<1>2. KnownInv'
  BY DEF FoundInv, KnownInv, Handling
<1>3. \A i \in 1 .. Len(blocks_found') :
          i \notin suspects' => IsOurs(chain', blocks_found'[i])
  BY DEF FoundInv, IsOurs
<1> QED BY <1>1, <1>2, <1>3 DEF FoundInv

(* A step that leaves blocks_found alone, and pc where the handler is torn *)
(* or over, keeps the invariant.                                           *)
LEMMA ForgetStep ==
    ASSUME FoundInv, UNCHANGED <<chain, blocks_found, suspects>>,
           torn' \/ pc' \notin Handling
    PROVE  FoundInv'
<1>1. FoundType' /\ KnownInv'
  BY DEF FoundInv, FoundType, KnownInv, Handling
<1> QED BY <1>1 DEF FoundInv, IsOurs

(* blocks_found keeps showing our blocks while the chain grows. *)
LEMMA NewBlockStep ==
    ASSUME FoundInv, NewBlock
    PROVE  FoundInv'
<1>1. PICK b \in Blocks : chain' = Append(chain, b)
  BY DEF NewBlock
<1>2. /\ chain \in Seq(Blocks)
      /\ UNCHANGED <<blocks_found, suspects, block_reward, block_reward_number,
                     number, pc, handled>>
      /\ torn' = (torn \/ pc \in {"information", "height"})
  BY DEF NewBlock, FoundInv, FoundType, collections, reward
<1>3. /\ chain' \in Seq(Blocks)
      /\ chain' # << >>
      /\ Len(chain') = Len(chain) + 1 /\ Len(chain) \in Nat
      /\ \A i \in 1 .. Len(chain) : chain'[i] = chain[i]
  BY <1>1, <1>2
<1>4. FoundType'
  BY <1>2, <1>3 DEF FoundInv, FoundType
<1>5. KnownInv'
  <2> SUFFICES ASSUME ~torn' PROVE KnownInv'
    BY DEF KnownInv
  <2>1. ~torn /\ pc \notin {"information", "height"}
    BY <1>2
  <2>2. pc \in Handling => handled \in 1 .. Len(chain) /\ chain'[handled] = chain[handled]
    BY <1>3, <2>1 DEF FoundInv, KnownInv
  <2>3. handled \in 1 .. Len(chain) => handled \in 1 .. Len(chain')
    BY <1>3
  <2> QED BY <1>2, <2>1, <2>2, <2>3 DEF FoundInv, KnownInv, Handling
<1>6. ASSUME NEW i \in 1 .. Len(blocks_found'), i \notin suspects'
      PROVE  IsOurs(chain', blocks_found'[i])
  <2>1. IsOurs(chain, blocks_found[i])
    BY <1>2, <1>6 DEF FoundInv
  <2> QED BY <1>2, <1>3, <2>1 DEF IsOurs
<1> QED BY <1>4, <1>5, <1>6 DEF FoundInv

(* The new record of blocks_found is the block of the handler, or it is    *)
(* suspect.                                                                *)
LEMMA InsertStep ==
    ASSUME FoundInv, InsertFoundBlock
    PROVE  FoundInv'
<1> DEFINE r == [height |-> number, reward |-> block_reward]
<1>1. /\ pc = "insert" /\ pc' = "count"
      /\ UNCHANGED <<chain, block_reward, block_reward_number, number, handled, torn>>
      /\ suspects' = IF torn /\ blocks_found' # blocks_found
                     THEN suspects \cup {Len(blocks_found')} ELSE suspects
  BY DEF InsertFoundBlock, world, reward, history
<1>2. blocks_found' = Append(blocks_found, r) \/ blocks_found' = blocks_found
  BY DEF InsertFoundBlock, Outcomes
<1>3. PICK S : blocks_found \in Seq(S)
  BY DEF FoundInv, FoundType
<1>4. KnownInv'
  BY <1>1 DEF FoundInv, KnownInv, Handling
<1>5. CASE blocks_found' = blocks_found
  BY <1>1, <1>4, <1>5 DEF FoundInv, FoundType, IsOurs
<1>6. CASE blocks_found' # blocks_found
  <2>1. torn \/ IsOurs(chain, r)
    <3> SUFFICES ASSUME ~torn PROVE IsOurs(chain, r)
      OBVIOUS
    <3>1. /\ handled \in 1 .. Len(chain) /\ chain[handled].ours
          /\ block_reward = chain[handled].reward /\ number = handled - 1
      BY <1>1 DEF FoundInv, KnownInv, Handling
    <3>2. chain[handled] \in [ours : BOOLEAN, reward : Nat] /\ Len(chain) \in Nat
      BY <3>1, BlockTimerAssumption DEF FoundInv, FoundType
    <3>3. number + 1 = handled
      BY <3>1, <3>2
    <3>4. chain[handled] = [ours |-> TRUE, reward |-> block_reward]
      BY <3>1, <3>2
    <3> QED BY <3>1, <3>3, <3>4 DEF IsOurs
  <2> HIDE DEF r
  <2>2. /\ blocks_found' \in Seq(S \cup {r})
        /\ Len(blocks_found') = Len(blocks_found) + 1 /\ Len(blocks_found) \in Nat
        /\ \A i \in 1 .. Len(blocks_found) : blocks_found'[i] = blocks_found[i]
        /\ blocks_found'[Len(blocks_found) + 1] = r
    BY <1>2, <1>3, <1>6, AppendGrows
  <2>3. FoundType'
    BY <1>1, <2>2 DEF FoundInv, FoundType
  <2>4. ASSUME NEW i \in 1 .. Len(blocks_found'), i \notin suspects'
        PROVE  IsOurs(chain, blocks_found'[i])
    <3>1. CASE i \in 1 .. Len(blocks_found)
      BY <1>1, <2>2, <2>4, <3>1 DEF FoundInv
    <3>2. CASE i = Len(blocks_found')
      BY <1>1, <1>6, <2>1, <2>2, <2>4, <3>2
    <3> QED BY <2>2, <3>1, <3>2
  <2> QED BY <1>1, <1>4, <2>3, <2>4 DEF FoundInv, IsOurs
<1> QED BY <1>5, <1>6

(* The thread asks the daemon. *)
LEMMA AskDaemonStep ==
    ASSUME FoundInv, CheckFoundBlock \/ GetInformation \/ GetHeight
    PROVE  FoundInv'
<1> USE DEF history, reward, world, collections
<1>1. Len(chain) \in Nat \ {0} /\ chain[Len(chain)] \in [ours : BOOLEAN, reward : Nat]
  BY BlockTimerAssumption DEF FoundInv, FoundType
<1>2. CASE CheckFoundBlock
  <2>1. UNCHANGED <<chain, blocks_found, suspects, block_reward,
                    block_reward_number, number>>
    BY <1>2 DEF CheckFoundBlock
  <2>2. CASE torn' \/ pc' = "notfound"
    BY <2>1, <2>2, ForgetStep DEF Handling
  <2>3. CASE Recognise(Len(chain)) /\ UNCHANGED <<failures, torn>>
    <3>1. CASE pc' = "notfound"
      BY <2>2, <3>1
    <3>2. CASE /\ pc' = "information" /\ handled' = Len(chain)
               /\ chain[Len(chain)].ours
      <4>1. KnownInv'
        BY <1>1, <2>1, <3>2 DEF KnownInv, Handling
      <4> QED BY <2>1, <4>1 DEF FoundInv, FoundType, IsOurs
    <3> QED BY <2>3, <3>1, <3>2 DEF Recognise
  <2>4. pc' \in {"information", "notfound"}
    BY <1>2 DEF CheckFoundBlock, Recognise
  <2> QED BY <1>2, <2>2, <2>3, <2>4 DEF CheckFoundBlock
<1>3. CASE GetInformation
  <2>1. UNCHANGED <<chain, blocks_found, suspects, number>> /\ pc = "information"
    BY <1>3 DEF GetInformation
  <2>2. CASE torn' \/ pc' = "poll"
    BY <2>1, <2>2, ForgetStep DEF Handling
  <2>3. CASE /\ Learn(Len(chain)) /\ pc' = "height"
             /\ UNCHANGED <<failures, count, counter, rows, split, history, aborted>>
    <3>1. /\ block_reward' = chain[Len(chain)].reward
          /\ block_reward_number' = chain[Len(chain)].reward
      BY <1>1, <2>3 DEF Learn, FoundInv, FoundType
    <3>2. KnownInv'
      BY <2>1, <2>3, <3>1 DEF FoundInv, KnownInv, Handling
    <3> QED BY <2>1, <3>2 DEF FoundInv, FoundType, IsOurs
  <2> QED BY <1>3, <2>2, <2>3 DEF GetInformation, Abort
<1>4. CASE GetHeight
  <2>1. UNCHANGED <<chain, blocks_found, suspects, block_reward,
                    block_reward_number>> /\ pc = "height"
    BY <1>4 DEF GetHeight
  <2>2. CASE torn' \/ pc' = "poll"
    BY <2>1, <2>2, ForgetStep DEF Handling
  <2>3. CASE number' = Len(chain) - 1 /\ pc' = "insert" /\ UNCHANGED history
    <3>1. KnownInv'
      BY <1>1, <2>1, <2>3 DEF FoundInv, KnownInv, Handling
    <3> QED BY <2>1, <3>1 DEF FoundInv, FoundType, IsOurs
  <2> QED BY <1>4, <2>2, <2>3 DEF GetHeight, Abort
<1> QED BY <1>2, <1>3, <1>4

(* The thread counts and reads the votes, splits the reward and counts.    *)
LEMMA LaterStep ==
    ASSUME FoundInv,
           \/ CountVoters \/ RecountVoters \/ ReadVoters \/ AddShare
           \/ \E a \in Address : ReadCurrentTotal(a)
    PROVE  FoundInv'
<1> USE DEF history, collections, world
<1>1. /\ UNCHANGED <<chain, blocks_found, suspects, reward>>
      /\ pc \in {"count", "recount", "read", "split", "update"}
  BY DEF CountVoters, RecountVoters, ReadVoters, AddShare, ReadCurrentTotal
<1>2. \/ pc' \in {"poll", "undefined"}
      \/ pc' \in {"count", "recount", "read", "split", "update"}
         /\ UNCHANGED history
  <2>1. CASE CountVoters
    BY <2>1 DEF CountVoters, Abort
  <2>2. CASE RecountVoters
    BY <2>2 DEF RecountVoters, GoOnWith
  <2>3. CASE ReadVoters
    BY <2>3 DEF ReadVoters, ReadNothing, GoOnWith
  <2>4. CASE AddShare \/ \E a \in Address : ReadCurrentTotal(a)
    BY <2>4 DEF AddShare, ReadCurrentTotal, Abort
  <2> QED BY <2>1, <2>2, <2>3, <2>4
<1>3. CASE pc' \in {"poll", "undefined"}
  BY <1>1, <1>3, ForgetStep DEF Handling
<1>4. CASE /\ pc' \in {"count", "recount", "read", "split", "update"}
           /\ UNCHANGED history
  BY <1>1, <1>4, QuietStep DEF Handling
<1> QED BY <1>2, <1>3, <1>4

LEMMA FoundStep == FoundInv /\ [Next]_vars => FoundInv'
<1> SUFFICES ASSUME FoundInv, [Next]_vars
             PROVE  FoundInv'
  OBVIOUS
<1> USE DEF world, collections, history
<1>1. CASE NewBlock
  BY <1>1, NewBlockStep
<1>2. CASE InsertFoundBlock
  BY <1>2, InsertStep
<1>3. CASE Vote \/ UNCHANGED vars
  BY <1>3, QuietStep DEF Vote, vars, reward
<1>4. CASE PollAnswered \/ PollUnanswered
  BY <1>4, QuietStep DEF PollAnswered, PollUnanswered, Notice, Handling
<1>5. CASE CheckFoundBlock \/ GetInformation \/ GetHeight
  BY <1>5, AskDaemonStep
<1>6. CASE \/ CountVoters \/ RecountVoters \/ ReadVoters \/ AddShare
           \/ \E a \in Address : ReadCurrentTotal(a)
  BY <1>6, LaterStep
<1>7. ASSUME NEW field, NEW next \in {"total", "poll"}, CountIn(field, next)
      PROVE  FoundInv'
  BY <1>7, ForgetStep DEF CountIn, Abort, Handling
<1>8. CASE CountFoundBlock \/ CountOtherBlock \/ CountBlock
  BY <1>7, <1>8 DEF CountFoundBlock, CountOtherBlock, CountBlock
<1>9. CASE Restart
  BY <1>9, ForgetStep DEF Restart, Handling
<1> QED BY <1>1, <1>2, <1>3, <1>4, <1>5, <1>6, <1>8, <1>9 DEF Next, Thread, Handle

(* Whatever fails or restarts, blocks_found shows only blocks that this    *)
(* delegate found, with their rewards, but for the records written after   *)
(* the daemon answered with an error, or a block came, between the block   *)
(* counts of one handler (lines 149-196).                                  *)
THEOREM RecordedBlocksAreOurs == Spec => []RecordedBlockIsOurs
<1>1. FoundInv => RecordedBlockIsOurs
  <2> SUFFICES ASSUME FoundInv PROVE RecordedBlockIsOurs
    OBVIOUS
  <2>1. /\ DOMAIN blocks_found = 1 .. Len(blocks_found)
        /\ DOMAIN chain = 1 .. Len(chain)
    BY DEF FoundInv, FoundType
  <2> QED BY <2>1 DEF FoundInv, IsOurs, RecordedBlockIsOurs
<1> QED BY <1>1, FoundInit, FoundStep, PTL DEF Spec

-----------------------------------------------------------------------------
CounterInv ==
    /\ statistics \in [Statistic -> Int]
    /\ aborted \in Nat
    /\ \E S : blocks_found \in Seq(S)
    /\ StatisticsFollowBlocks

(* Where a handler has written its record and not yet counted it. *)
Recorded == {"count", "recount", "read", "split", "update", "undefined"}

LEMMA CounterInit == Init => CounterInv
<1> SUFFICES ASSUME Init PROVE CounterInv
  OBVIOUS
<1>1. blocks_found \in Seq({}) /\ Len(blocks_found) = 0
  BY DEF Init
<1> QED BY <1>1 DEF Init, CounterInv, StatisticsFollowBlocks, Statistic

(* A step that touches no counter and no record, and leaves the record not *)
(* yet counted so, or gives up the handler.                                *)
LEMMA UncountedStep ==
    ASSUME CounterInv, UNCHANGED <<statistics, blocks_found>>,
           \/ aborted' = aborted + 1
           \/ aborted' = aborted /\ (pc \in Recorded => pc' \in Recorded)
                 /\ (pc = "total" => pc' = "total")
    PROVE  CounterInv'
<1>1. Len(blocks_found) \in Nat
  BY DEF CounterInv
<1> QED BY <1>1 DEF CounterInv, StatisticsFollowBlocks, Recorded, Statistic

(* The update of a counter: applied and reported, applied and not          *)
(* reported, or not applied.                                               *)
LEMMA CountedStep ==
    ASSUME "cursor" \notin Faults, CounterInv,
           NEW field \in Statistic, NEW next,
           CountIn(field, next)
    PROVE  /\ statistics' \in [Statistic -> Int] /\ UNCHANGED blocks_found
           /\ \/ /\ statistics' = [statistics EXCEPT ![field] = @ + 1]
                 /\ \/ pc' = next /\ aborted' = aborted
                    \/ pc' = "poll" /\ aborted' = aborted + 1
              \/ /\ statistics' = statistics
                 /\ pc' = "poll" /\ aborted' = aborted + 1
<1> DEFINE raised == [statistics EXCEPT ![field] = @ + 1]
<1>1. number' = statistics[field] + 1
  BY DEF CountIn
<1>2. PICK o \in Outcomes(statistics, [statistics EXCEPT ![field] = number']) :
          /\ statistics' = o.result
          /\ \/ o.ret = 1 /\ pc' = next /\ UNCHANGED aborted
             \/ o.ret = 0 /\ pc' = "poll" /\ aborted' = aborted + 1
  BY DEF CountIn, Abort
<1>3. raised \in [Statistic -> Int]
  BY DEF CounterInv
<1>4. [statistics EXCEPT ![field] = number'] = raised
  BY <1>1
<1> HIDE DEF raised
<1>5. \/ o.ret = 1 /\ o.result = raised
      \/ o.ret = 0 /\ o.result \in {raised, statistics}
  BY <1>2, <1>4 DEF Outcomes
<1>6. /\ statistics' \in [Statistic -> Int]
      /\ \/ /\ statistics' = raised
            /\ \/ pc' = next /\ aborted' = aborted
               \/ pc' = "poll" /\ aborted' = aborted + 1
         \/ /\ statistics' = statistics
            /\ pc' = "poll" /\ aborted' = aborted + 1
  BY <1>2, <1>3, <1>5 DEF CounterInv
<1> QED BY <1>6 DEF raised, CountIn

LEMMA CountersStep ==
    ASSUME "cursor" \notin Faults, CounterInv,
           CountFoundBlock \/ CountOtherBlock \/ CountBlock
    PROVE  CounterInv'
<1>1. Len(blocks_found) \in Nat
  BY DEF CounterInv
<1>2. /\ statistics["total_blocks"] \in Int /\ aborted \in Nat
      /\ statistics["total_blocks_found"] \in Int
      /\ statistics \in [Statistic -> Int]
  BY DEF CounterInv, Statistic
<1>3. \E S : blocks_found \in Seq(S)
  BY DEF CounterInv
<1>4. CASE CountFoundBlock
  <2>1. pc = "split" /\ CountIn("total_blocks_found", "total")
    BY <1>4 DEF CountFoundBlock
  <2>2. /\ statistics' \in [Statistic -> Int] /\ UNCHANGED blocks_found
        /\ \/ /\ statistics' = [statistics EXCEPT !["total_blocks_found"] = @ + 1]
              /\ \/ pc' = "total" /\ aborted' = aborted
                 \/ pc' = "poll" /\ aborted' = aborted + 1
           \/ /\ statistics' = statistics
              /\ pc' = "poll" /\ aborted' = aborted + 1
    BY <2>1, CountedStep DEF Statistic
  <2>3. /\ statistics'["total_blocks"] = statistics["total_blocks"]
        /\ statistics'["total_blocks_found"] \in
              {statistics["total_blocks_found"], statistics["total_blocks_found"] + 1}
        /\ aborted' = aborted =>
              statistics'["total_blocks_found"] = statistics["total_blocks_found"] + 1
    BY <1>2, <2>2 DEF Statistic
  <2>4. /\ blocks_found' = blocks_found
        /\ \/ pc' = "total" /\ aborted' = aborted
           \/ pc' = "poll" /\ aborted' = aborted + 1
    BY <2>2
  <2>5. /\ Len(blocks_found) <= statistics["total_blocks_found"] + aborted + 1
        /\ statistics["total_blocks_found"] <= statistics["total_blocks"] + aborted
    BY <1>1, <1>2, <2>1 DEF CounterInv, StatisticsFollowBlocks
  <2>6. StatisticsFollowBlocks'
    <3>1. CASE pc' = "total" /\ aborted' = aborted
      BY <1>1, <1>2, <2>3, <2>4, <2>5, <3>1 DEF StatisticsFollowBlocks
    <3>2. CASE pc' = "poll" /\ aborted' = aborted + 1
      BY <1>1, <1>2, <2>3, <2>4, <2>5, <3>2 DEF StatisticsFollowBlocks
    <3> QED BY <2>4, <3>1, <3>2
  <2>7. aborted' \in Nat
    BY <1>2, <2>4
  <2> QED BY <1>3, <2>2, <2>4, <2>6, <2>7 DEF CounterInv
<1>5. CASE CountOtherBlock
  <2>1. pc = "notfound" /\ CountIn("block_count", "total")
    BY <1>5 DEF CountOtherBlock
  <2>2. /\ statistics' \in [Statistic -> Int] /\ UNCHANGED blocks_found
        /\ statistics' \in {statistics, [statistics EXCEPT !["block_count"] = @ + 1]}
        /\ \/ pc' = "total" /\ aborted' = aborted
           \/ pc' = "poll" /\ aborted' = aborted + 1
    BY <2>1, CountedStep DEF Statistic
  <2>3. /\ statistics'["total_blocks"] = statistics["total_blocks"]
        /\ statistics'["total_blocks_found"] = statistics["total_blocks_found"]
    BY <1>2, <2>2 DEF Statistic
  <2> QED BY <1>1, <1>2, <1>3, <2>1, <2>2, <2>3 DEF CounterInv, StatisticsFollowBlocks
<1>6. CASE CountBlock
  <2>1. pc = "total" /\ CountIn("total_blocks", "poll")
    BY <1>6 DEF CountBlock
  <2>2. /\ statistics' \in [Statistic -> Int] /\ UNCHANGED blocks_found
        /\ pc' = "poll"
        /\ \/ /\ statistics' = [statistics EXCEPT !["total_blocks"] = @ + 1]
              /\ aborted' \in {aborted, aborted + 1}
           \/ statistics' = statistics /\ aborted' = aborted + 1
    BY <2>1, CountedStep DEF Statistic
  <2>3. /\ statistics'["total_blocks_found"] = statistics["total_blocks_found"]
        /\ \/ /\ statistics'["total_blocks"] = statistics["total_blocks"] + 1
              /\ aborted' \in {aborted, aborted + 1}
           \/ /\ statistics'["total_blocks"] = statistics["total_blocks"]
              /\ aborted' = aborted + 1
    BY <1>2, <2>2 DEF Statistic
  <2>4. aborted' \in Nat /\ blocks_found' \in {blocks_found}
    BY <1>2, <2>2
  <2>5. StatisticsFollowBlocks'
    BY <1>1, <1>2, <2>1, <2>2, <2>3, SMTT(30) DEF CounterInv, StatisticsFollowBlocks
  <2> QED BY <1>3, <2>2, <2>4, <2>5 DEF CounterInv
<1> QED BY <1>4, <1>5, <1>6

LEMMA CounterStep ==
    "cursor" \notin Faults /\ CounterInv /\ [Next]_vars => CounterInv'
<1> SUFFICES ASSUME "cursor" \notin Faults, CounterInv, [Next]_vars
             PROVE  CounterInv'
  OBVIOUS
<1> USE DEF Abort, collections
<1>1. CASE CountFoundBlock \/ CountOtherBlock \/ CountBlock
  BY <1>1, CountersStep
<1>2. CASE NewBlock \/ Vote \/ UNCHANGED vars
  BY <1>2, UncountedStep DEF NewBlock, Vote, vars
<1>3. CASE PollAnswered \/ PollUnanswered
  BY <1>3, UncountedStep DEF PollAnswered, PollUnanswered, Notice, Recorded
<1>4. CASE CheckFoundBlock \/ GetInformation \/ GetHeight
  BY <1>4, UncountedStep
     DEF CheckFoundBlock, GetInformation, GetHeight, Recorded
<1>5. CASE InsertFoundBlock
  <2> DEFINE r == [height |-> number, reward |-> block_reward]
  <2>1. blocks_found' = Append(blocks_found, r) \/ blocks_found' = blocks_found
    BY <1>5 DEF InsertFoundBlock, Outcomes
  <2>2. PICK S : blocks_found \in Seq(S)
    BY DEF CounterInv
  <2> HIDE DEF r
  <2>3. /\ \E T : blocks_found' \in Seq(T)
        /\ Len(blocks_found') \in {Len(blocks_found), Len(blocks_found) + 1}
        /\ Len(blocks_found) \in Nat
    <3>1. CASE blocks_found' = blocks_found
      BY <2>2, <3>1
    <3>2. CASE blocks_found' = Append(blocks_found, r)
      BY <2>2, <3>2, AppendGrows
    <3> QED BY <2>1, <3>1, <3>2
  <2>4. pc = "insert" /\ pc' = "count" /\ UNCHANGED <<statistics, aborted>>
    BY <1>5 DEF InsertFoundBlock
  <2> QED BY <2>3, <2>4 DEF CounterInv, StatisticsFollowBlocks, Statistic
<1>6. CASE CountVoters
  BY <1>6, UncountedStep DEF CountVoters, Recorded
<1>7. CASE RecountVoters
  BY <1>7, UncountedStep DEF RecountVoters, GoOnWith, Recorded
<1>8. CASE ReadVoters
  BY <1>8, UncountedStep DEF ReadVoters, ReadNothing, GoOnWith, Recorded
<1>9. CASE AddShare
  BY <1>9, UncountedStep DEF AddShare, Recorded
<1>10. ASSUME NEW a \in Address, ReadCurrentTotal(a)
      PROVE  CounterInv'
  BY <1>10, UncountedStep DEF ReadCurrentTotal, Recorded
<1>11. CASE Restart
  <2>1. \/ aborted' = aborted + 1
        \/ aborted' = aborted /\ pc = "poll" /\ pc' = "poll"
    BY <1>11 DEF Restart
  <2>2. UNCHANGED <<statistics, blocks_found>>
    BY <1>11 DEF Restart
  <2> QED BY <2>1, <2>2, UncountedStep DEF Recorded
<1> QED BY <1>1, <1>2, <1>3, <1>4, <1>5, <1>6, <1>7, <1>8, <1>9, <1>10, <1>11
        DEF Next, Thread, Handle

(* While the reads of the database succeed, no record of blocks_found and  *)
(* no block found is missing from the statistics, but for the handlers cut *)
(* off (lines 197-348).                                                    *)
THEOREM StatisticsAddUp ==
    ASSUME "cursor" \notin Faults
    PROVE  Spec => []StatisticsFollowBlocks
<1>1. CounterInv => StatisticsFollowBlocks
  BY DEF CounterInv
<1> QED BY <1>1, CounterInit, CounterStep, PTL DEF Spec

-----------------------------------------------------------------------------
(* An address that is in paid, and has a document, has its share more than *)
(* when the split began; any other has what it had.                        *)
Exact(paid) ==
    \A a \in Address :
        IF a \in paid /\ before[a] # NoDocument
        THEN addresses[a] = [before[a] EXCEPT !.current = @ + Share(a)]
        ELSE addresses[a] = before[a]

SplitInv ==
    /\ pc = "split" => Exact(Voters(documents) \ left)
    /\ pc = "update" =>
          /\ voter \in Voters(documents) \ left
          /\ Exact((Voters(documents) \ left) \ {voter})
          /\ before[voter] # NoDocument =>
                number = before[voter].current + Share(voter)
    /\ pc \in {"split", "update"} => left \subseteq Voters(documents)

LEMMA OutsideStep ==
    ASSUME pc' \notin {"split", "update"}
    PROVE  SplitInv'
BY DEF SplitInv

LEMMA UnsplitStep ==
    ASSUME SplitInv,
           UNCHANGED <<pc, addresses, before, documents, left, voter, number,
                       block_reward_number>>
    PROVE  SplitInv'
BY DEF SplitInv, Exact, Share, Voters

(* The share of the next document is added to what was there when the      *)
(* split began: nobody has changed it since.                               *)
LEMMA ReadTotalStep ==
    ASSUME "cursor" \notin Faults, SplitInv,
           NEW a \in Address, ReadCurrentTotal(a)
    PROVE  SplitInv'
<1>1. /\ pc = "split" /\ pc' = "update" /\ voter' = a /\ a \in left
      /\ left' = left \ {a}
      /\ UNCHANGED <<addresses, before, documents, block_reward_number>>
  BY DEF ReadCurrentTotal, collections, reward
<1>2. Exact(Voters(documents) \ left) /\ left \subseteq Voters(documents)
  BY <1>1 DEF SplitInv
<1>3. voter' \in (Voters(documents) \ left)'
  BY <1>1, <1>2 DEF Voters
<1>4. (Voters(documents) \ left)' \ {a} = Voters(documents) \ left
  BY <1>1 DEF Voters
<1>5. Exact((Voters(documents) \ left) \ {voter})'
  BY <1>1, <1>2, <1>4 DEF Exact, Share
<1>6. addresses[a] = before[a]
  BY <1>1, <1>2 DEF Exact
<1>7. number' = ReadField(addresses, VoterFilter(a), "current", documents[a])
                    + Share(a)
  BY DEF ReadCurrentTotal, TotalReads
<1>8. ASSUME before[a] # NoDocument
      PROVE  number' = before[a].current + Share(a)
  BY <1>6, <1>7, <1>8 DEF ReadField, Selects, VoterFilter
<1>9. Share(a)' = Share(a)
  BY <1>1 DEF Share
<1>10. left' \subseteq Voters(documents)'
  BY <1>1, <1>2 DEF Voters
<1> QED BY <1>1, <1>3, <1>5, <1>8, <1>9, <1>10 DEF SplitInv

LEMMA AddShareStep ==
    ASSUME SplitInv, AddShare
    PROVE  SplitInv'
<1> DEFINE paidFor == Update(addresses, VoterFilter(voter), "current", number)
<1>1. PICK o \in Outcomes(addresses, paidFor) :
          /\ addresses' = o.result
          /\ \/ o.ret = 1 /\ pc' = "split" /\ UNCHANGED <<documents, left, before>>
             \/ o.ret = 0 /\ pc' = "poll"
  BY DEF AddShare, Abort
<1>2. pc = "update" /\ UNCHANGED block_reward_number
  BY DEF AddShare, reward
<1>3. CASE o.ret = 0
  BY <1>1, <1>3, OutsideStep
<1>4. CASE o.ret = 1 /\ pc' = "split" /\ UNCHANGED <<documents, left, before>>
  <2>1. addresses' = paidFor
    <3> HIDE DEF paidFor
    <3> QED BY <1>1, <1>4 DEF Outcomes
  <2>2. /\ voter \in Voters(documents) \ left
        /\ Exact((Voters(documents) \ left) \ {voter})
        /\ left \subseteq Voters(documents)
        /\ before[voter] # NoDocument =>
              number = before[voter].current + Share(voter)
    BY <1>2 DEF SplitInv
  <2>3. voter \in Address /\ addresses[voter] = before[voter]
    BY <2>2 DEF Exact, Voters
  <2>4. ASSUME NEW a \in Address
        PROVE  IF a \in Voters(documents) \ left /\ before[a] # NoDocument
               THEN addresses'[a] = [before[a] EXCEPT !.current = @ + Share(a)]
               ELSE addresses'[a] = before[a]
    <3>1. CASE a = voter
      <4>1. addresses'[a] = IF before[a] # NoDocument
                            THEN [before[a] EXCEPT !["current"] = number]
                            ELSE before[a]
        BY <2>1, <2>3, <3>1 DEF Update, Selects, VoterFilter
      <4> QED BY <2>2, <3>1, <4>1
    <3>2. CASE a # voter
      <4>1. addresses'[a] = addresses[a]
        BY <2>1, <3>2 DEF Update, Selects, VoterFilter
      <4> QED BY <2>2, <3>2, <4>1 DEF Exact
    <3> QED BY <3>1, <3>2
  <2>5. Exact(Voters(documents) \ left)'
    BY <1>2, <1>4, <2>4 DEF Exact, Share, Voters
  <2> QED BY <1>4, <2>2, <2>5 DEF SplitInv, Voters
<1> QED BY <1>1, <1>3, <1>4

LEMMA SplitStep ==
    "cursor" \notin Faults /\ SplitInv /\ [Next]_vars => SplitInv'
<1> SUFFICES ASSUME "cursor" \notin Faults, SplitInv, [Next]_vars
             PROVE  SplitInv'
  OBVIOUS
<1> USE DEF Abort, collections, split
<1>1. CASE NewBlock \/ Vote \/ UNCHANGED vars
  BY <1>1, UnsplitStep DEF NewBlock, Vote, vars, reward
<1>2. CASE PollAnswered \/ PollUnanswered
  BY <1>2, OutsideStep DEF PollAnswered, PollUnanswered, Notice
<1>3. CASE CheckFoundBlock \/ GetInformation \/ GetHeight \/ InsertFoundBlock
  BY <1>3, OutsideStep
     DEF CheckFoundBlock, Recognise, GetInformation, GetHeight, InsertFoundBlock
<1>4. CASE CountVoters \/ Restart
  BY <1>4, OutsideStep DEF CountVoters, Restart
<1>5. CASE RecountVoters \/ ReadVoters
  <2>1. /\ addresses' = addresses
        /\ \/ pc' \in {"recount", "read", "undefined"}
           \/ pc' = "split" /\ left' = Voters(documents') /\ before' = addresses
    <3>1. CASE RecountVoters
      BY <3>1 DEF RecountVoters, GoOnWith
    <3>2. CASE ReadVoters
      BY <3>2 DEF ReadVoters, ReadNothing, GoOnWith
    <3> QED BY <1>5, <3>1, <3>2
  <2>2. CASE pc' \in {"recount", "read", "undefined"}
    BY <2>2, OutsideStep
  <2>3. CASE pc' = "split" /\ left' = Voters(documents') /\ before' = addresses
    <3>1. Exact(Voters(documents) \ left)'
      BY <2>1, <2>3 DEF Exact, Voters
    <3>2. left' \subseteq Voters(documents)'
      BY <2>3 DEF Voters
    <3> QED BY <2>3, <3>1, <3>2 DEF SplitInv
  <2> QED BY <2>1, <2>2, <2>3
<1>6. ASSUME NEW a \in Address, ReadCurrentTotal(a)
      PROVE  SplitInv'
  BY <1>6, ReadTotalStep
<1>7. CASE AddShare
  BY <1>7, AddShareStep
<1>8. ASSUME NEW field, NEW next \in {"total", "poll"}, CountIn(field, next)
      PROVE  SplitInv'
  BY <1>8, OutsideStep DEF CountIn
<1>9. CASE CountFoundBlock \/ CountOtherBlock \/ CountBlock
  BY <1>8, <1>9 DEF CountFoundBlock, CountOtherBlock, CountBlock
<1> QED BY <1>1, <1>2, <1>3, <1>4, <1>5, <1>6, <1>7, <1>9
        DEF Next, Thread, Handle

(* While the reads succeed, a split in progress has changed the            *)
(* current_total of exactly the addresses already paid, each by its share  *)
(* (lines 265-291), for every table of votes and every reward.             *)
THEOREM SplitsAreExact ==
    ASSUME "cursor" \notin Faults
    PROVE  Spec => []SplitIsExact
<1>1. Init => SplitInv
  BY DEF Init, SplitInv
<1>2. SplitInv => SplitIsExact
  BY DEF SplitInv, Exact, SplitIsExact
<1> QED BY <1>1, <1>2, SplitStep, PTL DEF Spec

-----------------------------------------------------------------------------
(* A number is written to current_total only when it is the sum of what    *)
(* was there, or of a voter's votes, and of a share; and a share is a      *)
(* number because the total of the votes is not 0 while there is a voter   *)
(* left to pay, and because a reward was read at line 160, or there was a  *)
(* number in its place.                                                    *)
RewardKnown ==
    pc \in Handling \ {"information"} \/ "refusal" \in Faults =>
        block_reward_number \in Nat

ShareInHand ==
    pc = "update" => /\ voter \in Voters(documents)
                     /\ number \in Nat /\ number >= Share(voter)

TypeInv ==
    /\ TypeOK
    /\ RewardKnown
    /\ ShareInHand
    /\ pc \in {"split", "update"} => left \subseteq Voters(documents)

LEMMA TypeInit == RewardsAreNumbers /\ Init => TypeInv
<1> SUFFICES ASSUME RewardsAreNumbers, Init PROVE TypeInv
  OBVIOUS
<1> USE BlockTimerAssumption
<1>1. chain \in Seq(Blocks) /\ chain # << >>
  BY DEF Init
<1>2. addresses \in Collection /\ before \in Collection
  BY DEF Init, NoCollection, Collection, Document
<1>3. data \in BlockText /\ current_block_height \in BlockText
  <2>1. Len(chain) \in Nat
    BY <1>1
  <2> QED BY <2>1 DEF Init, BlockText, Start, Empty
<1>4. statistics \in [Statistic -> Int] /\ documents \in [Address -> Nat]
  BY DEF Init, NoVotes
<1>5. blocks_found \in Seq([height : Int, reward : Int]) /\ suspects \subseteq Nat
  BY DEF Init
<1>6. /\ votes \in [Address -> Nat]
      /\ failures \in 0 .. MaxFailures /\ restarts \in 0 .. MaxRestarts
      /\ pc = "poll" /\ aborted \in Nat
      /\ left \subseteq Address /\ voter \in Address \cup {NoVoter}
  BY DEF Init
<1>7. /\ block_reward \in Int /\ block_reward_number \in Int /\ number \in Int
      /\ public_address_count \in Int
      /\ "refusal" \in Faults => block_reward_number \in Nat
  BY DEF Init, NoReward, RewardsAreNumbers
<1>8. /\ count \in 0 .. Collections /\ counter \in Int /\ rows \in Int
      /\ handled \in Nat
  BY DEF Init
<1>9. torn \in BOOLEAN
  BY DEF Init
<1> QED BY <1>1, <1>2, <1>3, <1>4, <1>5, <1>6, <1>7, <1>8, <1>9
        DEF TypeInv, TypeOK, RewardKnown, ShareInHand, Steps, Handling

(* The votes of one voter are not more than those of all. *)
LEMMA TotalAtLeast ==
    ASSUME NEW table \in [Address -> Nat], NEW a \in Address
    PROVE  /\ TotalVotes(table) \in Nat /\ table[a] <= TotalVotes(table)
           /\ TotalVotes(table) = table[a] =>
                 \A b \in Address \ {a} : table[b] = 0
<1>1. IsFiniteSet(Address)
  BY BlockTimerAssumption
<1> QED BY <1>1, SumAtLeast DEF TotalVotes

(* Line 269 multiplies the reward by 1, for the only voter, or by 0. *)
LEMMA ShareIsAllOrNothing ==
    ASSUME documents \in [Address -> Nat], block_reward_number \in Nat,
           NEW a \in Voters(documents)
    PROVE  \/ Share(a) = 0
           \/ /\ Share(a) = block_reward_number
              /\ Voters(documents) = {a}
<1> DEFINE T == TotalVotes(documents)
<1>1. a \in Address /\ documents[a] \in Nat /\ documents[a] > 0
  BY DEF Voters
<1>2. /\ T \in Nat /\ documents[a] <= T
      /\ T = documents[a] => \A b \in Address \ {a} : documents[b] = 0
  BY <1>1, TotalAtLeast
<1> HIDE DEF T
<1>3. CASE T = documents[a]
  <2>1. documents[a] \div T = 1
    BY <1>1, <1>3
  <2>2. Voters(documents) = {a}
    BY <1>1, <1>2, <1>3 DEF Voters
  <2> QED BY <2>1, <2>2 DEF Share, T
<1>4. CASE T > documents[a]
  <2>1. documents[a] \div T = 0
    BY <1>1, <1>2, <1>4
  <2> QED BY <2>1 DEF Share, T
<1> QED BY <1>1, <1>2, <1>3, <1>4

LEMMA PollType ==
    ASSUME TypeInv, PollAnswered \/ PollUnanswered
    PROVE  TypeInv'
<1>1. Len(chain) \in Nat
  BY DEF TypeInv, TypeOK
<1>2. CountOver(data) \in BlockText
  BY <1>1 DEF CountOver, BlockText, TypeInv, TypeOK
<1>3. /\ data' \in BlockText /\ current_block_height' \in BlockText
      /\ pc' \in {"poll", "check"}
  BY <1>2 DEF PollAnswered, PollUnanswered, Notice, TypeInv, TypeOK
<1>4. failures' \in 0 .. MaxFailures
  BY BlockTimerAssumption
     DEF PollAnswered, PollUnanswered, Unanswered, Refused, Failure, TypeInv, TypeOK
<1>5. UNCHANGED <<world, collections, reward, number, reading, split, history,
                  aborted>>
  BY DEF PollAnswered, PollUnanswered, Notice
<1> QED BY <1>3, <1>4, <1>5
        DEF TypeInv, TypeOK, RewardKnown, ShareInHand, world, collections, reward,
            reading, split, history, Steps, Handling

(* The rows are given back. *)
LEMMA FreedType ==
    ASSUME EndHandler
    PROVE  /\ documents' \in [Address -> Nat] /\ left' \subseteq Address
           /\ voter' \in Address \cup {NoVoter} /\ before' \in Collection
           /\ count' \in 0 .. Collections /\ counter' \in Int /\ rows' \in Int
           /\ handled' \in Nat /\ torn' \in BOOLEAN
<1>1. /\ count' \in 0 .. Collections /\ counter' \in Int /\ rows' \in Int
      /\ handled' \in Nat
  BY BlockTimerAssumption DEF EndHandler
<1>2. torn' \in BOOLEAN
  BY DEF EndHandler
<1>3. /\ documents' \in [Address -> Nat] /\ left' \subseteq Address
      /\ voter' \in Address \cup {NoVoter} /\ before' \in Collection
  BY DEF EndHandler, NoVotes, NoCollection, Collection
<1> QED BY <1>1, <1>2, <1>3

(* A handler that is given up, whatever its call has done. *)
LEMMA AbortType ==
    ASSUME TypeInv, Abort,
           UNCHANGED <<world, block_reward_number, current_block_height>>,
           failures' \in 0 .. MaxFailures, addresses' \in Collection,
           statistics' \in [Statistic -> Int],
           UNCHANGED <<blocks_found, suspects>>,
           data' \in BlockText, block_reward' \in Int, number' \in Int,
           public_address_count' \in Int
    PROVE  TypeInv'
<1>1. pc' = "poll" /\ aborted' \in Nat
  BY DEF Abort, TypeInv, TypeOK
<1> QED BY <1>1, FreedType DEF Abort, TypeInv, TypeOK, RewardKnown, ShareInHand,
        Steps, Handling, world

LEMMA CheckType ==
    ASSUME TypeInv, CheckFoundBlock
    PROVE  TypeInv'
<1> USE DEF world, collections, height, reward, reading, split, history
<1>1. /\ handled' \in Nat /\ torn' \in BOOLEAN
      /\ pc' \in {"information", "notfound"}
  <2>1. \A h : Recognise(h) => handled' \in Nat /\ pc' \in {"information", "notfound"}
    BY DEF Recognise, TypeInv, TypeOK
  <2> QED BY <2>1 DEF CheckFoundBlock, TypeInv, TypeOK
<1>2. failures' \in 0 .. MaxFailures
  BY BlockTimerAssumption DEF CheckFoundBlock, Unanswered, Refused, Failure, TypeInv, TypeOK
<1>3. UNCHANGED <<world, collections, height, reward, number, reading, split,
                  aborted>>
  BY DEF CheckFoundBlock
<1> QED BY <1>1, <1>2, <1>3
        DEF TypeInv, TypeOK, RewardKnown, ShareInHand, Steps, Handling

(* What is learned of a block, or not.                                     *)
LEMMA LearnType ==
    ASSUME TypeInv, NEW h, Learn(h)
    PROVE  /\ block_reward' \in Int /\ block_reward_number' \in Int
           /\ h = Len(chain) \/ "refusal" \in Faults => block_reward_number' \in Nat
<1>1. Len(chain) \in DOMAIN chain
  BY DEF TypeInv, TypeOK
<1>2. \A i \in DOMAIN chain : chain[i].reward \in Nat
  BY BlockTimerAssumption DEF TypeInv, TypeOK
<1> QED BY <1>1, <1>2 DEF Learn, NoReward, TypeInv, TypeOK, RewardKnown

LEMMA InformationType ==
    ASSUME TypeInv, GetInformation
    PROVE  TypeInv'
<1> USE DEF world, collections, height, reading, split, history
<1>1. /\ UNCHANGED <<world, collections, height, number, public_address_count>>
      /\ pc = "information"
  BY DEF GetInformation
<1>2. failures' \in 0 .. MaxFailures
  BY BlockTimerAssumption, SMTT(30)
  DEF GetInformation, Unanswered, Refused, Failure, TypeInv, TypeOK
<1>3. CASE Abort /\ block_reward' = NoReward /\ UNCHANGED block_reward_number
  BY <1>1, <1>2, <1>3, AbortType, SMTT(30) DEF TypeInv, TypeOK, NoReward
<1>4. ASSUME NEW h, h = Len(chain) \/ "refusal" \in Faults, Learn(h),
             pc' = "height", UNCHANGED <<count, counter, rows, split, handled, aborted>>,
             torn' \in BOOLEAN
      PROVE  TypeInv'
  <2>1. /\ block_reward' \in Int /\ block_reward_number' \in Nat
    BY <1>4, LearnType
  <2> QED BY <1>1, <1>2, <1>4, <2>1
          DEF TypeInv, TypeOK, RewardKnown, ShareInHand, Steps, Handling
<1>5. torn \in BOOLEAN
  BY DEF TypeInv, TypeOK
<1> QED BY <1>3, <1>4, <1>5 DEF GetInformation, Refused, Failure

LEMMA HeightType ==
    ASSUME TypeInv, GetHeight
    PROVE  TypeInv'
<1> USE DEF world, collections, height, reward, reading, split, history
<1>1. /\ UNCHANGED <<world, collections, current_block_height, reward,
                     public_address_count>>
      /\ pc = "height"
  BY DEF GetHeight
<1>2. failures' \in 0 .. MaxFailures
  BY BlockTimerAssumption, SMTT(30)
  DEF GetHeight, Unanswered, Refused, Failure, TypeInv, TypeOK
<1>3. data' \in BlockText /\ number' \in Int
  <2>1. Len(chain) \in Nat /\ number \in Int
    BY DEF TypeInv, TypeOK
  <2>2. Empty \in BlockText /\ CountOver(Empty) \in BlockText
    BY <2>1 DEF BlockText, Empty, CountOver
  <2>3. number' \in {Len(chain) - 1, number - 1, number}
    BY DEF GetHeight
  <2> QED BY <2>1, <2>2, <2>3 DEF GetHeight
<1>4. CASE Abort
  BY <1>1, <1>2, <1>3, <1>4, AbortType DEF TypeInv, TypeOK
<1>5. CASE /\ pc' = "insert" /\ torn' \in BOOLEAN
           /\ UNCHANGED <<count, counter, rows, split, handled, aborted>>
  BY <1>1, <1>2, <1>3, <1>5
     DEF TypeInv, TypeOK, RewardKnown, ShareInHand, Steps, Handling
<1>6. torn \in BOOLEAN
  BY DEF TypeInv, TypeOK
<1> QED BY <1>4, <1>5, <1>6 DEF GetHeight

LEMMA InsertType ==
    ASSUME TypeInv, InsertFoundBlock
    PROVE  TypeInv'
<1> USE DEF world, height, reward, reading, split, history
<1> DEFINE r == [height |-> number, reward |-> block_reward]
<1>1. blocks_found' = Append(blocks_found, r) \/ blocks_found' = blocks_found
  BY DEF InsertFoundBlock, Outcomes
<1>2. r \in [height : Int, reward : Int]
  BY DEF TypeInv, TypeOK
<1> HIDE DEF r
<1>3. blocks_found' \in Seq([height : Int, reward : Int])
  <2>1. Append(blocks_found, r) \in Seq([height : Int, reward : Int])
    BY <1>2 DEF TypeInv, TypeOK
  <2> QED BY <1>1, <2>1 DEF TypeInv, TypeOK
<1>4. suspects' \subseteq Nat
  <2>1. Len(blocks_found') \in Nat /\ suspects \subseteq Nat
    BY <1>3 DEF TypeInv, TypeOK
  <2> QED BY <2>1 DEF InsertFoundBlock
<1>5. data' \in BlockText /\ count' \in 0 .. Collections
  BY BlockTimerAssumption DEF InsertFoundBlock, Json, BlockText, NoCount
<1>6. /\ pc = "insert" /\ pc' = "count"
      /\ UNCHANGED <<world, failures, addresses, statistics,
                     current_block_height, reward, number,
                     public_address_count, counter, rows, split, history, aborted>>
  BY DEF InsertFoundBlock
<1> QED BY <1>3, <1>4, <1>5, <1>6
        DEF TypeInv, TypeOK, RewardKnown, ShareInHand, Steps, Handling

(* A count of voters is a number. *)
LEMMA CountIsInt ==
    ASSUME NEW c, NEW n \in CountsOf(c)
    PROVE  n \in Int
<1>1. IsFiniteSet(VotersIn(c))
  BY BlockTimerAssumption, FS_Subset DEF VotersIn, Voters
<1>2. Cardinality(VotersIn(c)) \in Nat
  BY <1>1, FS_CardinalityType
<1> QED BY <1>2 DEF CountsOf

LEMMA CountType ==
    ASSUME TypeInv, CountVoters
    PROVE  TypeInv'
<1> USE DEF world, collections, height, reward, split, history
<1>1. public_address_count' \in Int
  <2>1. PICK n \in CountsOf(count) : public_address_count' = public_address_count + n
    BY DEF CountVoters
  <2>2. n \in Int
    BY <2>1, CountIsInt
  <2> QED BY <2>1, <2>2 DEF TypeInv, TypeOK
<1>2. pc = "count" /\ UNCHANGED <<world, failures, collections, height,
                                  reward, number>>
  BY DEF CountVoters
<1>3. CASE Abort
  BY <1>1, <1>2, <1>3, AbortType DEF TypeInv, TypeOK
<1>4. CASE /\ pc' \in {"count", "undefined", "recount"}
           /\ count' \in 0 .. Collections /\ rows' \in Int
           /\ UNCHANGED <<counter, split, history, aborted>>
  BY <1>1, <1>2, <1>4 DEF TypeInv, TypeOK, RewardKnown, ShareInHand, Steps, Handling
<1>5. /\ count < Collections => count + 1 \in 0 .. Collections
      /\ 1 \in 0 .. Collections /\ rows \in Int
  BY BlockTimerAssumption DEF TypeInv, TypeOK
<1> QED BY <1>1, <1>2, <1>3, <1>4, <1>5 DEF CountVoters

(* What going on with the loop may leave. *)
LEMMA GoOnType ==
    ASSUME TypeInv, NEW c \in Nat \ {0}, NEW table, GoOnWith(c, table)
    PROVE  /\ count' \in 0 .. Collections
           /\ \/ pc' = "recount" /\ left' = left /\ before' = before
              \/ pc' = "split" /\ left' = Voters(table) /\ before' = addresses
BY BlockTimerAssumption DEF GoOnWith

LEMMA VotersType ==
    ASSUME TypeInv, RecountVoters \/ ReadVoters
    PROVE  TypeInv'
<1> USE DEF world, collections, height, reward, history
<1>1. /\ UNCHANGED <<world, failures, collections, height, reward, number,
                     public_address_count, voter, history, aborted>>
      /\ pc \in {"recount", "read"}
  BY DEF RecountVoters, ReadVoters
<1>2. documents' \in [Address -> Nat]
  <2>1. documents \in [Address -> Nat] /\ votes \in [Address -> Nat]
    BY DEF TypeInv, TypeOK
  <2> QED BY <2>1 DEF RecountVoters, ReadVoters, ReadNothing
<1>3. counter' \in Int
  BY CountIsInt DEF RecountVoters, ReadVoters, TypeInv, TypeOK
<1>4. rows' \in Int
  BY DEF RecountVoters, ReadVoters, ReadNothing, TypeInv, TypeOK
<1>5. /\ count' \in 0 .. Collections
      /\ \/ pc' \in {"undefined", "read", "recount"} /\ left' = left /\ before' = before
         \/ pc' = "split" /\ left' = Voters(documents') /\ before' = addresses
  <2>1. count + 1 \in Nat \ {0} /\ count \in 0 .. Collections
    BY BlockTimerAssumption DEF TypeInv, TypeOK
  <2>2. (IF public_address_count > 0 THEN public_address_count ELSE 0) + 1 \in Nat \ {0}
    BY DEF TypeInv, TypeOK
  <2>3. CASE RecountVoters
    <3>1. documents' = documents
      BY <2>3 DEF RecountVoters
    <3>2. CASE GoOnWith(count + 1, documents)
      BY <2>1, <3>1, <3>2, GoOnType
    <3> QED BY <2>1, <2>3, <3>2 DEF RecountVoters
  <2>4. CASE ReadVoters
    <3>1. CASE pc' = "undefined" /\ UNCHANGED <<count, left, before>>
      BY <2>1, <3>1
    <3>2. CASE GoOnWith(count + 1, documents')
      BY <2>1, <3>2, GoOnType
    <3>3. CASE /\ documents' = documents
               /\ GoOnWith((IF public_address_count > 0
                            THEN public_address_count ELSE 0) + 1, documents)
      BY <2>2, <3>3, GoOnType
    <3> QED BY <2>4, <3>1, <3>2, <3>3 DEF ReadVoters, ReadNothing
  <2> QED BY <2>3, <2>4
<1>6. left' \subseteq Address /\ before' \in Collection
  BY <1>5 DEF Voters, TypeInv, TypeOK
<1> QED BY <1>1, <1>2, <1>3, <1>4, <1>5, <1>6
        DEF TypeInv, TypeOK, RewardKnown, ShareInHand, Steps, Handling

(* A share is a number while a reward is split.                            *)
LEMMA ShareIsNat ==
    ASSUME TypeInv, pc \in {"split", "update"}, NEW a \in Voters(documents)
    PROVE  Share(a) \in Nat
<1>1. documents \in [Address -> Nat] /\ block_reward_number \in Nat
  BY DEF TypeInv, TypeOK, RewardKnown, Handling
<1> QED BY <1>1, ShareIsAllOrNothing

(* What a field of a document may be read as. *)
LEMMA FieldIsNat ==
    ASSUME NEW coll \in Collection, NEW a \in Address, NEW was \in Nat,
           NEW field \in {"current", "total"}
    PROVE  ReadField(coll, VoterFilter(a), field, was) \in Nat
<1>1. coll[a] \in Document \/ coll[a] = NoDocument
  BY DEF Collection
<1> QED BY <1>1 DEF ReadField, VoterFilter, Selects, Document

(* Writing a number to a field of a document keeps the documents. *)
LEMMA UpdateKeepsDocuments ==
    ASSUME NEW coll \in Collection, NEW f, NEW n \in Nat
    PROVE  Update(coll, f, "current", n) \in Collection
<1>1. ASSUME NEW a \in Address
      PROVE  (IF Selects(f, coll, a) THEN [coll[a] EXCEPT !["current"] = n]
              ELSE coll[a]) \in Document \cup {NoDocument}
  <2>1. coll[a] \in Document \/ coll[a] = NoDocument
    BY DEF Collection
  <2> QED BY <2>1 DEF Selects, Document
<1> QED BY <1>1 DEF Update, Collection

(* The calls that read a total and write it back.                          *)
LEMMA SplitType ==
    ASSUME TypeInv, AddShare \/ \E a \in Address : ReadCurrentTotal(a)
    PROVE  TypeInv'
<1> USE DEF world, collections, height, reward, reading, split, history
<1>1. ASSUME NEW a \in Address, ReadCurrentTotal(a) PROVE TypeInv'
  <2>1. /\ pc = "split" /\ pc' = "update" /\ a \in left /\ voter' = a
        /\ left' = left \ {a}
        /\ UNCHANGED <<world, failures, collections, height, reward, reading,
                       documents, before, history, aborted>>
    BY <1>1 DEF ReadCurrentTotal
  <2>2. a \in Voters(documents) /\ documents[a] \in Nat
    BY <2>1 DEF TypeInv, TypeOK
  <2>3. Share(a) \in Nat
    BY <2>1, <2>2, ShareIsNat
  <2>4. TotalReads(a) \subseteq Nat
    BY <2>2, FieldIsNat DEF TotalReads, TypeInv, TypeOK
  <2>5. number' \in Nat /\ number' >= Share(a)
    <3>1. PICK n \in TotalReads(a) : number' = n + Share(a)
      BY <1>1 DEF ReadCurrentTotal
    <3>2. n \in Nat
      BY <2>4
    <3> QED BY <2>3, <3>1, <3>2
  <2>6. ShareInHand'
    <3>1. Share(voter)' = Share(a)
      BY <2>1 DEF Share
    <3> QED BY <2>1, <2>2, <2>5, <3>1 DEF ShareInHand, Voters
  <2> QED BY <2>1, <2>5, <2>6 DEF TypeInv, TypeOK, RewardKnown, Steps, Voters, Handling
<1>2. CASE AddShare
  <2> DEFINE paidFor == Update(addresses, VoterFilter(voter), "current", number)
  <2>1. /\ pc = "update"
        /\ UNCHANGED <<world, failures, statistics, blocks_found, suspects, height,
                       number, reward, public_address_count>>
    BY <1>2 DEF AddShare
  <2>2. paidFor \in Collection
    BY <2>1, UpdateKeepsDocuments DEF TypeInv, TypeOK, ShareInHand
  <2> HIDE DEF paidFor
  <2>3. PICK o \in Outcomes(addresses, paidFor) :
            /\ addresses' = o.result
            /\ \/ /\ pc' = "split" /\ voter' = NoVoter
                  /\ UNCHANGED <<count, counter, rows, documents, left, before,
                                 history, aborted>>
               \/ Abort
    BY <1>2 DEF AddShare, paidFor
  <2>4. addresses' \in Collection
    BY <2>2, <2>3 DEF Outcomes, TypeInv, TypeOK
  <2>5. CASE Abort
    BY <2>1, <2>4, <2>5, AbortType DEF TypeInv, TypeOK
  <2>6. CASE /\ pc' = "split" /\ voter' = NoVoter
             /\ UNCHANGED <<count, counter, rows, documents, left, before,
                                 history, aborted>>
    BY <2>1, <2>4, <2>6 DEF TypeInv, TypeOK, RewardKnown, ShareInHand, Steps, Voters, Handling
  <2> QED BY <2>3, <2>5, <2>6
<1> QED BY <1>1, <1>2

(* The statistics.                                                         *)
LEMMA CounterType ==
    ASSUME TypeInv, CountFoundBlock \/ CountOtherBlock \/ CountBlock
    PROVE  TypeInv'
<1> USE DEF world, collections, height, reward, reading, split, history
<1>1. ASSUME NEW field \in Statistic, NEW next \in {"total", "poll"},
             CountIn(field, next)
      PROVE  TypeInv'
  <2>1. number' \in Int
    BY <1>1 DEF CountIn, TypeInv, TypeOK
  <2> DEFINE raised == [statistics EXCEPT ![field] = number']
  <2>2. raised \in [Statistic -> Int]
    BY <2>1 DEF TypeInv, TypeOK
  <2> HIDE DEF raised
  <2>3. PICK o \in Outcomes(statistics, raised) :
            /\ statistics' = o.result
            /\ (pc' = next /\ EndHandler /\ UNCHANGED aborted) \/ Abort
    BY <1>1 DEF CountIn, raised
  <2>4. statistics' \in [Statistic -> Int]
    BY <2>2, <2>3 DEF Outcomes, TypeInv, TypeOK
  <2>5. EndHandler /\ pc' \in {"total", "poll"} /\ aborted' \in {aborted, aborted + 1}
    BY <2>3 DEF Abort
  <2>6. UNCHANGED <<world, failures, addresses, blocks_found, suspects, height,
                    reward, public_address_count>>
    BY <1>1 DEF CountIn
  <2> QED BY SMTT(30), <2>1, <2>4, <2>5, <2>6, FreedType
          DEF TypeInv, TypeOK, RewardKnown, ShareInHand, Steps, Handling
<1> QED BY <1>1 DEF CountFoundBlock, CountOtherBlock, CountBlock, Statistic

(* The network, the voters and the process itself. *)
LEMMA OutsideType ==
    ASSUME RewardsAreNumbers, TypeInv, NewBlock \/ Vote \/ Restart
    PROVE  TypeInv'
<1> USE DEF world, collections, height, reward, reading, split, history
<1>1. CASE NewBlock
  <2>1. PICK b \in Blocks : chain' = Append(chain, b)
    BY <1>1 DEF NewBlock
  <2>2. chain' \in Seq(Blocks) /\ chain' # << >>
    BY <2>1 DEF TypeInv, TypeOK
  <2>3. /\ UNCHANGED <<votes, failures, restarts, collections, pc, height,
                       reward, number, reading, split, handled, aborted>>
        /\ torn' \in BOOLEAN
    BY <1>1 DEF NewBlock, TypeInv, TypeOK
  <2> QED BY <2>2, <2>3 DEF TypeInv, TypeOK, RewardKnown, ShareInHand, Share, Voters
<1>2. CASE Vote
  BY <1>2, BlockTimerAssumption DEF Vote, TypeInv, TypeOK, RewardKnown, ShareInHand, Share, Voters
<1>3. CASE Restart
  <2>1. data' \in BlockText /\ current_block_height' \in BlockText
    <3>1. Len(chain) \in Nat
      BY DEF TypeInv, TypeOK
    <3> QED BY <1>3, <3>1 DEF Restart, BlockText, Start, Empty
  <2>2. /\ restarts' \in 0 .. MaxRestarts /\ aborted' \in Nat
        /\ block_reward' \in Int /\ block_reward_number' \in Int
        /\ number' \in Int /\ public_address_count' \in Int
        /\ "refusal" \in Faults => block_reward_number' \in Nat
    BY <1>3, BlockTimerAssumption
       DEF Restart, TypeInv, TypeOK, NoReward, RewardsAreNumbers
  <2>3. /\ pc' = "poll" /\ EndHandler
        /\ UNCHANGED <<chain, votes, failures, collections>>
    BY <1>3 DEF Restart
  <2> QED BY <2>1, <2>2, <2>3, FreedType
          DEF TypeInv, TypeOK, RewardKnown, ShareInHand, Steps, Handling
<1> QED BY <1>1, <1>2, <1>3

(* No step spoils a type.                                                  *)
LEMMA TypeStep == RewardsAreNumbers /\ TypeInv /\ [Next]_vars => TypeInv'
<1> SUFFICES ASSUME RewardsAreNumbers, TypeInv, [Next]_vars PROVE TypeInv'
  OBVIOUS
<1>1. CASE UNCHANGED vars
  BY <1>1 DEF vars, TypeInv, TypeOK, RewardKnown, ShareInHand, Share, Voters
<1> QED BY <1>1, PollType, CheckType, InformationType, HeightType, InsertType,
           CountType, VotersType, SplitType, CounterType, OutsideType
        DEF Next, Thread, Handle

(* The documents of the addresses may be written by others, too.           *)
LEMMA WrittenType ==
    ASSUME TypeInv, addresses' \in Collection, restarts' = restarts,
           UNCHANGED <<chain, votes, failures, statistics, blocks_found, suspects,
                       pc, height, reward, number, reading, split, history,
                       aborted>>
    PROVE  TypeInv'
BY DEF TypeInv, TypeOK, RewardKnown, ShareInHand, Share, Voters, height, reward,
       reading, split, history

(* Every buffer, collection and counter of the block timer keeps its type, *)
(* for all blocks and votes: above all, each amount stays a natural        *)
(* number, as long as what is split is one.                                *)
THEOREM BlockTimerTypes ==
    ASSUME RewardsAreNumbers
    PROVE  Spec => []TypeOK
<1>1. TypeInv => TypeOK
  BY DEF TypeInv
<1> QED BY <1>1, TypeInit, TypeStep, PTL DEF Spec

-----------------------------------------------------------------------------
(* Only a voter who has all the votes gets a share at all: no two          *)
(* addresses are paid in one split, and what one gets is the reward.       *)
LEMMA SplitBounded ==
    ASSUME TypeInv, SplitInv, FoundInv
    PROVE  SplitWithinReward
<1>0. pc = "split" /\ ~torn => block_reward_number = chain[handled].reward
  BY DEF FoundInv, KnownInv, Handling
<1> SUFFICES ASSUME pc = "split"
             PROVE  CurrentTotals(addresses) - CurrentTotals(before)
                        <= block_reward_number
  BY <1>0 DEF SplitWithinReward
<1> DEFINE now  == [a \in Address |-> IF addresses[a] = NoDocument THEN 0
                                      ELSE addresses[a].current]
           then == [a \in Address |-> IF before[a] = NoDocument THEN 0
                                      ELSE before[a].current]
<1>1. /\ documents \in [Address -> Nat] /\ block_reward_number \in Nat
      /\ addresses \in Collection /\ before \in Collection
      /\ left \subseteq Voters(documents) /\ IsFiniteSet(Address)
  BY BlockTimerAssumption DEF TypeInv, TypeOK, RewardKnown, Handling
<1>2. Exact(Voters(documents) \ left)
  BY DEF SplitInv
<1>3. \A a \in Address : now[a] \in Nat /\ then[a] \in Nat
  <2> SUFFICES ASSUME NEW a \in Address PROVE now[a] \in Nat /\ then[a] \in Nat
    OBVIOUS
  <2>1. /\ addresses[a] = NoDocument \/ addresses[a] \in Document
        /\ before[a] = NoDocument \/ before[a] \in Document
    BY <1>1 DEF Collection
  <2> QED BY <2>1 DEF Document
<1>4. ASSUME NEW a \in Address
      PROVE  now[a] = then[a] \/ (/\ a \in Voters(documents)
                                  /\ now[a] = then[a] + Share(a))
  <2>1. CASE a \in Voters(documents) \ left /\ before[a] # NoDocument
    <3>1. before[a] \in Document
      BY <1>1, <2>1 DEF Collection
    <3>2. addresses[a] = [before[a] EXCEPT !.current = @ + Share(a)]
      BY <1>2, <2>1 DEF Exact
    <3>3. Share(a) \in Nat
      BY <2>1, ShareIsNat
    <3>4. addresses[a].current = before[a].current + Share(a) /\ addresses[a] # NoDocument
      BY <3>1, <3>2, <3>3 DEF Document, NoDocument
    <3> QED BY <2>1, <3>4
  <2>2. CASE ~(a \in Voters(documents) \ left /\ before[a] # NoDocument)
    <3>1. addresses[a] = before[a]
      BY <1>2, <2>2 DEF Exact
    <3> QED BY <3>1
  <2> QED BY <2>1, <2>2
<1> HIDE DEF now, then
<1>5. CASE \A a \in Address : now[a] = then[a]
  <2>1. Sum(now, Address) = Sum(then, Address) /\ Sum(now, Address) \in Int
    BY <1>1, <1>3, <1>5, SumEqual, SumInt
  <2> QED BY <1>1, <2>1 DEF CurrentTotals, now, then
<1>6. CASE \E a \in Address : now[a] # then[a]
  <2>1. PICK a \in Address : now[a] # then[a]
    BY <1>6
  <2>2. a \in Voters(documents) /\ now[a] = then[a] + Share(a)
    BY <1>4, <2>1
  <2>3. Share(a) = block_reward_number /\ Voters(documents) = {a}
    <3>1. then[a] \in Nat
      BY <1>3
    <3> QED BY <1>1, <2>1, <2>2, <3>1, ShareIsAllOrNothing
  <2>4. \A b \in Address \ {a} : now[b] = then[b]
    BY <1>4, <2>3
  <2>5. Sum(now, Address) - Sum(then, Address) = now[a] - then[a]
    BY <1>1, <1>3, <2>4, SumChange
  <2>6. now[a] - then[a] = block_reward_number
    BY <1>1, <1>3, <2>2, <2>3
  <2> QED BY <1>1, <2>5, <2>6 DEF CurrentTotals, now, then
<1> QED BY <1>5, <1>6

(* While the reads succeed, no split hands out more than the reward of the *)
(* block that was recognised, for any number of voters, any votes and      *)
(* however the chain grows, unless the handler is torn (lines 149-291).    *)
THEOREM SplitsStayWithinReward ==
    ASSUME "cursor" \notin Faults, RewardsAreNumbers
    PROVE  Spec => []SplitWithinReward
<1>1. Init => SplitInv
  BY DEF Init, SplitInv
<1> QED BY <1>1, TypeInit, TypeStep, FoundInit, FoundStep, SplitStep,
           SplitBounded, PTL DEF Spec
==============================================================================
