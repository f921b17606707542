------------------------------ MODULE BlockTimer -----------------------------
(***************************************************************************)
(* block_height_timer_thread: it polls the daemon for the block count; a   *)
(* text that differs from current_block_height is a new block.  When the   *)
(* delegate found that block, the thread records it in blocks_found,       *)
(* splits its reward over the voters' current_total and counts it in the   *)
(* statistics; otherwise it only counts it.  An action is one call that    *)
(* leaves the process, with what the thread does up to the next one.  The  *)
(* statistics have no other writer, so a read and its update are one step; *)
(* a block, once its height is known, does not change, so asking for the   *)
(* count and for the block below it is one step, too.                      *)
(*                                                                         *)
(* The pauses and the minute % 5 window are left out: the thread polls     *)
(* again after an unspecified time.                                        *)
(***************************************************************************)
EXTENDS Documents, Sequences, FiniteSets, Sums

CONSTANTS Blocks,              \* the blocks that may be mined: [ours, reward]
          VoteTables,          \* what the reserve_proofs collections may say
          Documents0,          \* documents public_addresses may hold at first
          Seeded,              \* current_block_height holds the count at the
                               \* start; main leaves it empty
          Recognised,          \* check_found_block can return 2, which it
                               \* cannot: see FoundBlock
          Collections,         \* how many reserve_proofs collections: 50
          Place,               \* the collection that an address's proof is in
          BareFilterAccepted,  \* the BSON parser takes the filter of line 245
          Leftovers,           \* what the uninitialized integers may hold
          Capacity,            \* DATABASE_ARRAY_COUNT
          MaxBlocks,           \* bound: length of the chain
          MaxFailures,         \* bound: requests the daemon does not answer,
                               \* or answers with an error
          MaxRestarts          \* bound: times the process is started again

ASSUME BlockTimerAssumption ==
    /\ Blocks \subseteq [ours : BOOLEAN, reward : Nat]
    /\ VoteTables \subseteq [Address -> Nat]
    /\ Documents0 \subseteq [current : Nat, total : Nat, inactive : Nat]
    /\ Seeded \in BOOLEAN /\ Recognised \in BOOLEAN
    /\ Collections \in Nat \ {0} /\ Place \in [Address -> 1 .. Collections]
    /\ BareFilterAccepted \in BOOLEAN
    /\ Leftovers \subseteq Int
    /\ Capacity \in Nat /\ MaxBlocks \in Nat
    /\ MaxFailures \in Nat /\ MaxRestarts \in Nat
    /\ IsFiniteSet(Address)

VARIABLES
    chain,                   \* external: the blocks of the network
    votes,                   \* external: the votes of each address, 0 for none
    failures, restarts,      \* how many happened so far
    addresses,               \* the collection public_addresses
    statistics,              \* the document of the collection statistics
    blocks_found,            \* the collection blocks_found
    pc,                      \* the next call of the thread
    current_block_height, data,
    block_reward,            \* a number, or NoReward for the empty text
    block_reward_number, number, public_address_count,
    count, counter,          \* of the loops over the collections
    rows,                    \* how many rows of database_data are allocated
    documents, left,         \* database_data: its documents, those left to pay
    voter,                   \* the address of the document being paid
    before,                  \* history: the documents when the split began
    handled,                 \* history: the block that was recognised
    torn,                    \* history: since then an answer was an error, or
                             \* a block came between the three block counts
    suspects,                \* history: records of blocks_found written then
    aborted                  \* history: handlers that did not reach their end

collections == <<addresses, statistics, blocks_found, suspects>>
world   == <<chain, votes, restarts>>
height  == <<current_block_height, data>>
reward  == <<block_reward, block_reward_number>>
reading == <<public_address_count, count, counter, rows>>
split   == <<documents, left, voter, before>>
history == <<handled, torn>>
vars == <<chain, votes, failures, restarts, addresses, statistics,
          blocks_found, pc, current_block_height, data, block_reward,
          block_reward_number, number, public_address_count, count, counter,
          rows, documents, left, voter, before, handled, torn, suspects, aborted>>

(***************************************************************************)
(* The contents of the buffers data and current_block_height: a block      *)
(* count, and whether the rest of an earlier, longer text follows it.      *)
(* parse_json_data copies the count over the start of data, which is not   *)
(* cleared before a poll.  The longer text is always the JSON of lines     *)
(* 200-202.                                                                *)
(***************************************************************************)
NoCount == -1
BlockText == [count : Nat \cup {NoCount}, tail : BOOLEAN]
Empty == [count |-> NoCount, tail |-> FALSE]
Json  == [count |-> NoCount, tail |-> TRUE]

(* Deviation, for the checks: only the lengths are compared. *)
SameLength(text, shown) ==
    \/ shown = Empty
    \/ (text.count = NoCount) = (shown.count = NoCount)

(* memcmp(text, shown, strlen(shown)) == 0 *)
SameText(text, shown) ==
    \/ shown = Empty
    \/ text.count = shown.count /\ (shown.tail => text.tail)

CountOver(text) == [count |-> Len(chain), tail |-> text.tail]

Start == IF Seeded THEN [count |-> Len(chain), tail |-> FALSE] ELSE Empty

NoVoter == NoAddress
NoVotes == [a \in Address |-> 0]
NoReward == -1
Statistic == {"total_blocks", "block_count", "total_blocks_found"}
Steps == {"poll", "check", "information", "height", "insert", "count",
          "recount", "read", "split", "update", "notfound", "total",
          "undefined"}

NoCollection == [a \in Address |-> NoDocument]

(* The end of a handler: the rows of database_data are freed, or left      *)
(* behind by an error, and the loops start anew in the next handler.       *)
EndHandler ==
    /\ count' = 0 /\ counter' = 0 /\ rows' = 0
    /\ documents' = NoVotes /\ left' = {} /\ voter' = NoVoter
    /\ before' = NoCollection
    /\ handled' = 0 /\ torn' = FALSE

Init ==
    /\ \E b \in Blocks : chain = << b >>
    /\ votes \in VoteTables
    /\ addresses \in [Address -> Documents0 \cup {NoDocument}]
    /\ statistics = [s \in Statistic |-> 0]
    /\ blocks_found = << >> /\ suspects = {}
    /\ failures = 0 /\ restarts = 0 /\ aborted = 0
    /\ pc = "poll"
    /\ current_block_height = Start
    /\ data = Empty
    /\ block_reward = NoReward
    /\ block_reward_number \in Leftovers
    /\ number \in Leftovers
    /\ public_address_count \in Leftovers
    /\ count = 0 /\ counter = 0 /\ rows = 0
    /\ documents = NoVotes /\ left = {} /\ voter = NoVoter
    /\ before = NoCollection
    /\ handled = 0 /\ torn = FALSE

-----------------------------------------------------------------------------
(* The network mines a block. *)
NewBlock ==
    /\ Len(chain) < MaxBlocks
    /\ \E b \in Blocks : chain' = Append(chain, b)
    /\ torn' = (torn \/ pc \in {"information", "height"})
    /\ UNCHANGED <<votes, failures, restarts, collections, pc, height, reward,
                   number, reading, split, handled, aborted>>

(* The other programs of the delegate change the reserve proofs. *)
Vote ==
    /\ votes' \in VoteTables
    /\ votes' # votes
    /\ UNCHANGED <<chain, failures, restarts, collections, pc, height, reward,
                   number, reading, split, history, aborted>>

(* The daemon does not answer, or not in time; or it answers with an error *)
(* that does not hold the field asked for: then parse_json_data returns 1  *)
(* and copies nothing.                                                     *)
Failure(kind) ==
    /\ kind \in Faults
    /\ failures < MaxFailures
    /\ failures' = failures + 1
Unanswered == Failure("daemon")
Refused    == Failure("refusal")

(* BLOCK_HEIGHT_TIMER_THREAD_ERROR: the thread goes back to its start. *)
Abort == /\ pc' = "poll"
         /\ aborted' = aborted + 1
         /\ EndHandler

(* Lines 141-146: whatever get_current_block_height returns, its buffer is *)
(* compared, and becomes current_block_height when it differs.             *)
Notice(text) ==
    /\ data' = text
    /\ IF SameText(text, current_block_height)
       THEN UNCHANGED <<pc, current_block_height>>
       ELSE pc' = "check" /\ current_block_height' = text
    /\ UNCHANGED <<world, collections, reward, number, reading, split, history,
                   aborted>>

PollAnswered ==
    /\ pc = "poll"
    /\ Notice(CountOver(data))
    /\ UNCHANGED failures

PollUnanswered ==
    /\ pc = "poll"
    /\ Unanswered \/ Refused
    /\ Notice(data)

Recognise(h) ==
    IF Recognised /\ h \in DOMAIN chain /\ chain[h].ours
    THEN pc' = "information" /\ handled' = h
    ELSE pc' = "notfound" /\ UNCHANGED handled

(* check_found_block compares the finder of the last block with the wallet *)
(* address.  When its block count is refused it looks at the block below   *)
(* an uninitialized integer; when another answer is refused there is no    *)
(* block to look at (0).  The thread takes an error for "not found".       *)
CheckFoundBlock ==
    /\ pc = "check"
    /\ \/ Recognise(Len(chain)) /\ UNCHANGED <<failures, torn>>
       \/ /\ Refused
          /\ \E h \in Leftovers \cup {0} : Recognise(h)
          /\ torn' = (pc' = "information")
       \/ Unanswered /\ pc' = "notfound" /\ UNCHANGED history
    /\ UNCHANGED <<world, collections, height, reward, number, reading, split,
                   aborted>>

(* What get_previous_block_information copies, and sscanf reads, when it   *)
(* asks for the block below the count h.  Without such a block the answer  *)
(* is an error: the text stays empty and the number what it was.           *)
Learn(h) ==
    IF h \in DOMAIN chain
    THEN block_reward' = chain[h].reward /\ block_reward_number' = chain[h].reward
    ELSE block_reward' = NoReward /\ UNCHANGED block_reward_number

(* Deviation, for the checks: the error of line 155 goes unnoticed. *)
GetInformationUnchecked ==
    /\ pc = "information"
    /\ \/ Learn(Len(chain)) /\ UNCHANGED failures
       \/ Unanswered /\ Learn(0)
    /\ pc' = "height"
    /\ UNCHANGED <<world, collections, height, number, reading, split, history,
                   aborted>>

(* Lines 151-160: a second block count, and the block below it.  When the  *)
(* count is refused the count is an uninitialized integer; when the block  *)
(* is refused there is none (0).                                           *)
GetInformation ==
    /\ pc = "information"
    /\ \/ /\ Learn(Len(chain))
          /\ pc' = "height"
          /\ UNCHANGED <<failures, count, counter, rows, split, history, aborted>>
       \/ /\ Refused
          /\ \E h \in Leftovers \cup {0} : Learn(h)
          /\ torn' = TRUE
          /\ pc' = "height"
          /\ UNCHANGED <<count, counter, rows, split, handled, aborted>>
       \/ /\ Unanswered
          /\ Abort
          /\ block_reward' = NoReward
          /\ UNCHANGED block_reward_number
    /\ UNCHANGED <<world, collections, height, number, public_address_count>>

(* Lines 162-174: a third block count, into the cleared data, of which     *)
(* sscanf reads nothing when the answer was an error.                      *)
GetHeight ==
    /\ pc = "height"
    /\ \/ /\ data' = CountOver(Empty)
          /\ number' = Len(chain) - 1
          /\ pc' = "insert"
          /\ UNCHANGED <<failures, count, counter, rows, split, history, aborted>>
       \/ /\ Refused
          /\ data' = Empty
          /\ number' = number - 1
          /\ torn' = TRUE
          /\ pc' = "insert"
          /\ UNCHANGED <<count, counter, rows, split, handled, aborted>>
       \/ Unanswered /\ Abort /\ data' = Empty /\ UNCHANGED number
    /\ UNCHANGED <<world, collections, current_block_height, reward,
                   public_address_count>>

(* Lines 176-202: what the insert returns is not looked at, and the record *)
(* shows the text of the reward, not the number.                           *)
InsertFoundBlock ==
    /\ pc = "insert"
    /\ \E o \in Outcomes(blocks_found,
                         Append(blocks_found, [height |-> number,
                                               reward |-> block_reward])) :
          blocks_found' = o.result
    /\ suspects' = IF torn /\ blocks_found' # blocks_found
                   THEN suspects \cup {Len(blocks_found')} ELSE suspects
    /\ data' = Json
    /\ count' = 1
    /\ pc' = "count"
    /\ UNCHANGED <<world, failures, addresses, statistics, current_block_height,
                   reward, number, public_address_count, counter, rows, split,
                   history, aborted>>

Voters(table) == {a \in Address : table[a] > 0}
VotersIn(c) == {a \in Voters(votes) : Place[a] = c}

(* What a count of the voters in a collection may return. *)
CountsOf(c) == {Cardinality(VotersIn(c))} \cup
               (IF "database" \in Faults THEN {-1} ELSE {})

(* Lines 204-230: the collections are counted one by one, and each failure *)
(* counts for -1; public_address_count is never set to 0.  With nobody to  *)
(* pay, line 217 leaves without the statistics.  The rows of database_data *)
(* are allocated, beyond the end of the array when they are too many.      *)
CountVoters ==
    /\ pc = "count"
    /\ \E n \in CountsOf(count) : public_address_count' = public_address_count + n
    /\ \/ /\ count < Collections
          /\ count' = count + 1
          /\ UNCHANGED <<pc, counter, rows, split, history, aborted>>
       \/ /\ count = Collections /\ public_address_count' = 0
          /\ Abort
       \/ /\ count = Collections /\ public_address_count' # 0
          /\ rows' = public_address_count'
          /\ count' = 1
          /\ pc' = IF rows' > Capacity THEN "undefined" ELSE "recount"
          /\ UNCHANGED <<counter, split, history, aborted>>
    /\ UNCHANGED <<world, failures, collections, height, reward, number>>

(* The loop of lines 239-254 goes on with a collection, or is over and the *)
(* split of what the table holds begins.                                   *)
GoOnWith(c, table) ==
    \/ /\ c <= Collections
       /\ count' = c /\ pc' = "recount"
       /\ UNCHANGED <<left, before>>
    \/ /\ c > Collections
       /\ count' = 0 /\ pc' = "split"
       /\ left' = Voters(table) /\ before' = addresses

(* Line 245: each collection is counted once more, with a filter that is   *)
(* no JSON object.                                                         *)
RecountVoters ==
    /\ pc = "recount"
    /\ counter' \in IF BareFilterAccepted THEN CountsOf(count) ELSE {-1}
    /\ IF counter' > 0
       THEN pc' = "read" /\ UNCHANGED <<count, left, before>>
       ELSE GoOnWith(count + 1, documents)
    /\ UNCHANGED <<world, failures, collections, height, reward, number,
                   public_address_count, rows, documents, voter, history, aborted>>

(* Lines 249-253: nothing was read.  The rows are freed, those read before *)
(* too, which line 260 then uses; and the loop goes on behind the number   *)
(* of the rows, to which freeing them has set its counter.                 *)
ReadNothing ==
    /\ rows' = 0
    /\ IF Voters(documents) # {}
       THEN pc' = "undefined" /\ UNCHANGED <<count, left, before>>
       ELSE GoOnWith((IF public_address_count > 0
                      THEN public_address_count ELSE 0) + 1, documents)
    /\ UNCHANGED documents

(* Line 248: at most as many voters as were counted are read, fewer when   *)
(* there are no more by now, or the cursor fails.  A document without an   *)
(* allocated row is written to an address that is not one.                 *)
ReadVoters ==
    /\ pc = "read"
    /\ \E S \in SUBSET VotersIn(count) :
          /\ Cardinality(S) <= counter
          /\ \/ Cardinality(S) = counter
             \/ S = VotersIn(count)
             \/ "cursor" \in Faults
          /\ \/ S = {} /\ ReadNothing
             \/ /\ S # {}
                /\ documents' = [a \in Address |-> IF a \in S THEN votes[a]
                                                   ELSE documents[a]]
                /\ IF Cardinality(Voters(documents')) > rows
                   THEN pc' = "undefined" /\ UNCHANGED <<count, left, before>>
                   ELSE GoOnWith(count + 1, documents')
                /\ UNCHANGED rows
    /\ UNCHANGED <<world, failures, collections, height, reward, number,
                   public_address_count, counter, voter, history, aborted>>

TotalVotes(table) == Sum(table, Address)

(* Deviation, for the checks: each share is rounded up. *)
ShareRoundedUp(a) ==
    ((documents[a] + TotalVotes(documents) - 1) \div TotalVotes(documents))
        * block_reward_number

(* Line 269: the quotient of the two integers comes first. *)
Share(a) == (documents[a] \div TotalVotes(documents)) * block_reward_number

VoterFilter(a) == [addr |-> a, doc |-> AnyDocument]

(* Deviation, for the checks: line 280 is missing. *)
TotalReadsIgnored(a) == {documents[a]}

(* What a read of current_total may leave in number, which holds the votes *)
(* of the document: nothing is read when the address has no document, or   *)
(* when the cursor fails, and neither is an error.                         *)
TotalReads(a) ==
    {ReadField(addresses, VoterFilter(a), "current", documents[a])} \cup
    (IF "cursor" \in Faults THEN {documents[a]} ELSE {})

(* Lines 265-281: the next document, in the order of the database. *)
ReadCurrentTotal(a) ==
    /\ pc = "split"
    /\ a \in left
    /\ left' = left \ {a}
    /\ voter' = a
    /\ \E n \in TotalReads(a) : number' = n + Share(a)
    /\ pc' = "update"
    /\ UNCHANGED <<world, failures, collections, height, reward, reading,
                   documents, before, history, aborted>>

(* Lines 282-291. *)
AddShare ==
    /\ pc = "update"
    /\ \E o \in Outcomes(addresses,
                         Update(addresses, VoterFilter(voter), "current", number)) :
          /\ addresses' = o.result
          /\ \/ /\ o.ret = 1
                /\ pc' = "split"
                /\ voter' = NoVoter
                /\ UNCHANGED <<count, counter, rows, documents, left, before,
                               history, aborted>>
             \/ o.ret = 0 /\ Abort
    /\ UNCHANGED <<world, failures, statistics, blocks_found, suspects, height,
                   number, reward, public_address_count>>

(* Deviation, for the checks: what the update returns is not looked at. *)
CountInUnchecked(field, next) ==
    /\ \E o \in Outcomes(statistics,
                         [statistics EXCEPT ![field] = statistics[field] + 1]) :
          statistics' = o.result
    /\ number' = statistics[field] + 1
    /\ pc' = next
    /\ EndHandler
    /\ UNCHANGED <<world, failures, addresses, blocks_found, suspects, height,
                   reward, public_address_count, aborted>>

(* A counter of the statistics is read, and written one higher: after a    *)
(* read that failed, one higher than what number held before.              *)
CountIn(field, next) ==
    /\ \E n \in {statistics[field]} \cup
                (IF "cursor" \in Faults THEN {number} ELSE {}) : number' = n + 1
    /\ \E o \in Outcomes(statistics, [statistics EXCEPT ![field] = number']) :
          /\ statistics' = o.result
          /\ \/ o.ret = 1 /\ pc' = next /\ EndHandler /\ UNCHANGED aborted
             \/ o.ret = 0 /\ Abort
    /\ UNCHANGED <<world, failures, addresses, blocks_found, suspects, height,
                   reward, public_address_count>>

(* Lines 293-310.  The second update of line 306, which would reset        *)
(* block_count, is made only after the first one failed, and its text is   *)
(* not JSON: it changes nothing and fails too.                             *)
CountFoundBlock == pc = "split" /\ left = {} /\ CountIn("total_blocks_found", "total")

(* Lines 314-330. *)
CountOtherBlock == pc = "notfound" /\ CountIn("block_count", "total")

(* Lines 332-349. *)
CountBlock == pc = "total" /\ CountIn("total_blocks", "poll")

(* The process ends and is started again. *)
Restart ==
    /\ restarts < MaxRestarts
    /\ restarts' = restarts + 1
    /\ pc' = "poll"
    /\ aborted' = IF pc = "poll" THEN aborted ELSE aborted + 1
    /\ current_block_height' = Start
    /\ data' = Empty
    /\ block_reward' = NoReward
    /\ block_reward_number' \in Leftovers
    /\ number' \in Leftovers
    /\ public_address_count' \in Leftovers
    /\ EndHandler
    /\ UNCHANGED <<chain, votes, failures, collections>>

Handle ==
    \/ CheckFoundBlock \/ GetInformation \/ GetHeight \/ InsertFoundBlock
    \/ CountVoters \/ RecountVoters \/ ReadVoters \/ AddShare
    \/ \E a \in Address : ReadCurrentTotal(a)
    \/ CountFoundBlock \/ CountOtherBlock \/ CountBlock

Thread == PollAnswered \/ PollUnanswered \/ Handle
Next == Thread \/ NewBlock \/ Vote \/ Restart

Spec == Init /\ [][Next]_vars

(* The thread is scheduled; the daemon answers a poll now and then. *)
FairSpec == Spec /\ WF_vars(PollAnswered) /\ WF_vars(Handle)

-----------------------------------------------------------------------------
TypeOK ==
    /\ chain \in Seq(Blocks) /\ chain # << >>
    /\ votes \in [Address -> Nat]
    /\ failures \in 0 .. MaxFailures /\ restarts \in 0 .. MaxRestarts
    /\ addresses \in Collection /\ before \in Collection
    /\ statistics \in [Statistic -> Int]
    /\ blocks_found \in Seq([height : Int, reward : Int])
    /\ pc \in Steps
    /\ data \in BlockText /\ current_block_height \in BlockText
    /\ block_reward \in Int /\ block_reward_number \in Int
    /\ number \in Int
    /\ public_address_count \in Int
    /\ count \in 0 .. Collections /\ counter \in Int /\ rows \in Int
    /\ documents \in [Address -> Nat]
    /\ left \subseteq Address /\ voter \in Address \cup {NoVoter}
    /\ handled \in Nat /\ torn \in BOOLEAN
    /\ suspects \subseteq Nat
    /\ aborted \in Nat

(* What keeps an amount a number: a reward that was never read is not      *)
(* split, or what memory held in its place was a number, too.              *)
RewardsAreNumbers == "refusal" \notin Faults \/ Leftovers \subseteq Nat

(* Lines 149-196: the three block counts of one handler are asked one by   *)
(* one, around lost answers, retries and buffers reused from other blocks; *)
(* what blocks_found shows is still a block of the chain that this         *)
(* delegate found, with the reward of that block, unless the daemon        *)
(* answered with an error, or a block came between the counts.             *)
RecordedBlockIsOurs ==
    \A i \in DOMAIN blocks_found \ suspects :
        LET r == blocks_found[i]
        IN  /\ r.height + 1 \in DOMAIN chain
            /\ chain[r.height + 1] = [ours |-> TRUE, reward |-> r.reward]

(* Lines 265-291: while a reward is split, each address already paid has   *)
(* exactly its share more than when the split began, and nobody else has   *)
(* anything more.                                                          *)
SplitIsExact ==
    pc = "split" =>
        \A a \in Address :
            IF a \in Voters(documents) \ left /\ before[a] # NoDocument
            THEN addresses[a] = [before[a] EXCEPT !.current = @ + Share(a)]
            ELSE addresses[a] = before[a]

CurrentTotals(coll) ==
    Sum([a \in Address |-> IF coll[a] = NoDocument THEN 0 ELSE coll[a].current],
        Address)

(* Lines 149-291: whatever is read of the votes, and however the chain     *)
(* grows since, a split never hands out more than the reward of the block  *)
(* that was recognised, unless the daemon answered with an error, or a     *)
(* block came between the counts.                                          *)
SplitWithinReward ==
    pc = "split" /\ ~torn =>
        CurrentTotals(addresses) - CurrentTotals(before) <= chain[handled].reward

(* Lines 197-348: a record of blocks_found is counted in the statistics    *)
(* and a block found is counted as a block, apart from the handlers that   *)
(* were cut off and the one in progress: the website shows all three.      *)
StatisticsFollowBlocks ==
    /\ Len(blocks_found)
          <= statistics["total_blocks_found"] + aborted
             + (IF pc \in {"count", "recount", "read", "split", "update",
                           "undefined"} THEN 1 ELSE 0)
    /\ statistics["total_blocks_found"]
          <= statistics["total_blocks"] + aborted
             + (IF pc = "total" THEN 1 ELSE 0)

Latest == current_block_height.count = Len(chain)

(* Line 250: the rows are freed and the voters are still being read. *)
ReadsFreedRows == pc \in {"recount", "read"} /\ rows = 0

(* Lines 136-146: as long as current_block_height holds a text, the thread *)
(* notices the last block of the chain again and again, unless the votes   *)
(* keep changing under it after the rows were freed.                       *)
NoticesBlocks ==
    []<>(Latest \/ current_block_height = Empty \/ ReadsFreedRows
         \/ pc = "undefined")

(* thread_functions.c:34: block_height_timer_thread checks for a new block. *)
NewBlocksAreNoticed == []<>(Latest \/ pc = "undefined")

(* thread_functions.c:34 and 148: a block is handled because it is new, so *)
(* none is recorded twice.                                                 *)
BlockRecordedOnce ==
    \A i, j \in DOMAIN blocks_found :
        i # j => blocks_found[i].height # blocks_found[j].height

(* thread_functions.c:264: the block reward is split with all of the       *)
(* public addresses that voted for the delegate.                           *)
EveryVoterGetsAShare ==
    pc = "split" =>
        \A a \in Voters(documents) \ left :
            before[a] # NoDocument /\ block_reward_number > 0
                => addresses[a].current > before[a].current
==============================================================================
