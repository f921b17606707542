# X-CASH shared delegates website server: TLA+ models, checks and proofs

The program in `src/` runs beside the wallet of an X-CASH delegate.  One
detached thread watches the chain and splits the reward of each block the
delegate found over the addresses that voted for it; another pays, at UTC
00:00, what has come together for each address; an HTTP server shows the
numbers.  All three share one MongoDB database.  This directory models the
threads, the server, and the requests they make of the network, checks the
models with TLC and proves their main properties with TLAPS.

## 1. Inventory

| component | state | operations | talks to | hard because of |
|---|---|---|---|---|
| `payment_timer_thread` (thread_functions.c:372-670) with `send_payment` (network_wallet_functions.c:92-153) | C buffers reused from document to document, a cursor, the clock | look at the clock, start a pass, take a document, pay, reset `current_total`, add to `total`, record, update `inactivity_count`, remove, sleep | wallet RPC, MongoDB | lost answers, failures between steps, uncleared buffers, a stale snapshot, time |
| `block_height_timer_thread` (38-361) | `current_block_height`, the buffer `data`, uninitialised integers, `database_data` | poll, check the finder, get the block, record, count and read the voters, split, statistics | daemon RPC, network data nodes, MongoDB | text compared in buffers that are not cleared, three block counts per block, cut-off handlers, integer arithmetic |
| `check_found_block`, `get_previous_block_*`, `get_current_block_height` (network_daemon_functions.c) | none | ask the daemon; ask a random network data node until one answers; verify | daemon, nodes, wallet | unbounded retry, index of the node, late answers |
| sockets (network_functions.c) | the message being received | connect with a timeout, send, receive until an end marker | peers | fragments, split markers, timeouts |
| database functions (database_functions.c) | global client, unused pool | insert, read, update, delete, count | MongoDB | a failing cursor is no error; one client for all threads |
| website server (server_functions.c) | post data per connection | GET requests for five pages and for files, a POST | MongoDB, libmicrohttpd | counts that are stale when used, fixed arrays, memory and responses on every path |
| start-up and shutdown (main) | globals | connect, create `statistics`, start the threads, tear down | all | the client is destroyed under running threads |
| sign / verify, JSON and string helpers | none | pure functions | wallet | return values that say success for an absent field |
| VRF_functions | none | vendored cryptography | - | not modelled |
| tests/ | - | the `--test` mode | - | not modelled |

What makes each part correct:

* payments - nothing owed is wiped without an answered request to pay it; what
  is sent is recorded, and a record shows what was sent; one pass a day; a pass
  ends and leaves no due address out.
* blocks - every new block is noticed, once; what is recorded is a block of
  this delegate with its own reward; a split changes each voter by its share,
  nobody else, and never exceeds the reward; what is recorded is counted.
* both together - a share that arrives during a payment is neither lost nor
  paid twice, outside of two windows that the code leaves open.
* found blocks - only an answer that its sender signed and that knows the block
  is read; a verified answer decides (it never does, run `unrecognised`).
* sockets - whatever call fails, everything is released and the result is not
  touched; what is delivered is what was received; a receive ends.
* website - each GET gets one response; a page shows the collections as they
  were at one moment; what is held for a request is released; no request runs
  without the database client; the statistics have one document.

`PROJECT.json` lists the hazards with the line where each one bites.

## 2. Modules

| module | what it is |
|---|---|
| `Documents` | the collection `public_addresses` and what a find, update, delete or insert does to it, with the ways it may fail |
| `Sums` | the sum of a function over a finite set, what the loops over votes, rewards and collections add up |
| `Numerals` | decimal numbers in C buffers: `sprintf`, `sscanf`, and `memcpy` of a number over an older, longer one |
| `PaymentTimer` | `payment_timer_thread` and `send_payment` |
| `PaymentPromise` | the abstract contract of the payment side: `owed` and one `confirmed` request |
| `BlockTimer` | `block_height_timer_thread` and the daemon functions it calls |
| `SharedDelegates` | both threads, composed from the actions of the two modules, over one collection and one process |
| `Ledger` | the abstract account that the composition implements: what was credited, seen, paid, wiped |
| `FoundBlock` | `check_found_block` with `verify_data` and the search for a network data node that answers |
| `Socket` | `send_http_request` and `send_and_receive_data_socket`, with `send_data` and `receive_data` |
| `WebServer` | `main` and its parameters, `create_server` on each connection, post data, files, and the pages that read collections |
| `MC...` | small instances for TLC |
| `..._proofs` | theorems and proofs about `Sums`, `PaymentTimer`, `BlockTimer`, `Ledger`, `SharedDelegates`, `Socket`, `FoundBlock`, `WebServer` |

`SharedDelegates` takes `PaymentTimer` and `BlockTimer` with `INSTANCE ...
WITH`, so each of their actions is there unchanged, and adds three history
variables, which `Tally` keeps: what was `credited`, and the accounts that are
`late` or `stale`.  `FoundBlock` is one action of `BlockTimer` (`CheckFoundBlock` and
its results), and `Socket` is below every request to the daemon, the wallet and
the nodes: the modules above it know only that a request is answered or not.

**Granularity.** An action is one call that leaves the process (database,
wallet, daemon, clock), with everything the thread does up to the next one.
`pc` names the next call.  In `Socket` it is one system call, in `WebServer`
one call of the database or of libmicrohttpd.  In `BlockTimer` the counters of
`statistics` have no other writer, so a read and the update after it are one
action; so is a block count with the block below it, because a block that is in
the chain does not change.  Each collection of reserve proofs is counted, counted
again and read by actions of its own (`CountVoters`, `RecountVoters`,
`ReadVoters`), and votes may change between any two of them.

**Data.** A string of digits is a number.  Where the *text* matters it is
modelled: in `PaymentTimer` a buffer has a length and a value and `Overlay` is
the `memcpy` that leaves the last digits of a longer number behind; in
`BlockTimer` a buffer has a block count and a flag for the rest of an older
text after it, and `SameText` is the `memcmp` of line 142. `Socket` keeps
texts, as sequences over the constant `Character`, because end strings are found
in them (the run has eleven characters, the proofs any that hold the three of
the end strings); in `FoundBlock` a hash is the number of its block, and a
message has the length that `sign_data` gives it, from which `verify_data` cuts
the signed text again (`SignData`, `SignedText`); in `WebServer` a document is
counted, and only the reward of a block is a value.

**Failures.** `Faults` is the set of those that happen in the timers:

* `database` - a write returns 0, applied or not; a count returns -1;
* `cursor` - a read fails, which the code cannot tell from an empty result;
* `wallet` - an error answer, or no answer, with the transfer made or not;
* `daemon` - no answer;
* `refusal` - an answer of the daemon that does not hold the field asked for:
  `parse_json_data` returns 1 with nothing copied and the caller goes on with
  what its buffers and integers held, or with uninitialised ones (`Leftovers`).

`WebServer.Failing` is the same for the website and main: a call of the start,
a write, a count, a cursor, an allocation.  `FoundBlock.Silent` says who may
not answer and `Refusing` who may answer with an error; whoever is at the address
of a node may send anything (`Answer`): a message without the fields, one that
another delegate signed, one with the setting of the tests, which
network_security_functions.c:277 takes from anybody.  In `Socket` every system call may fail.

**External behaviour as constants.** Four constants stand for what the code
depends on and does not decide at the place where it is used.  The runs state
which value they take:

* `ValuesFound` - whether lines 506-517 find the values of a document.  There is
  one layout of the text that `bson_as_canonical_extended_json` writes, the one
  with blanks around the colon that database_functions.c:317-322 looks for, and
  in it they do not: run `unread` is about the offsets as they are.  TRUE is the
  code with offsets that fit that layout; the runs that take it study the rest
  of a pass, which the offsets as they are never reach.
* `Seeded` - whether `current_block_height` holds the daemon's count when the
  thread starts. main leaves it empty (line 57); run `unseeded` takes that
  value.  The other runs study the handler with the global as the comparison of
  line 142 needs it; with the code as it is, none of that handler is ever
  reached.
* `BareFilterAccepted` - whether the BSON parser takes the fragment of line
  234.
* `Recognised` - whether `check_found_block` ever says that a block is this
  delegate's.  FALSE is the code as it is: run `unrecognised`.  The runs of the
  block thread take TRUE to study the handler of lines 150-310.

Blocks may arrive at any time, also between the three block counts of one
handler, and each count may be refused.  A handler to which that happens is
`torn`, a record it writes is in `suspects`: the properties leave both out, and
say that nothing but this mixes two blocks, and that no later handler does
because of it.

So two facts shadow the whole block side: without a seed no block is noticed,
and without recognition none is split.  The runs of `BlockTimer` and
`SharedDelegates` are about the code that would run if those two were mended,
and say so.

**Restart.** `Restart` may happen between any two actions: the database, wallet
and chain keep their state, the threads start over.  `WebServer` has the start
and the end of the process as actions of main.

**Undefined behaviour.** Uninitialised integers start with any value of
`Indeterminate` / `Leftovers`.  When rows of `database_data` are written that
do not exist, or that were freed after a read of nothing (line 250),
`BlockTimer` goes to `undefined` and stops: nothing is claimed about what
follows.  `Socket`, `FoundBlock` and `WebServer` do the same where
the receive buffer overflows, a header without a brace is stripped, the list of
nodes is read beyond its end, the length of a short message wraps, a pointer is used that was not set, or a detached
timer uses the destroyed client.  What can be claimed is why it came to that
(`OverflowOnlyByRace`, `UndefinedHasACause`).

## 3. Runs

| run | expects | what it shows |
|---|---|---|
| `payments` | pass | two days, two addresses, three kinds of documents, all failures, one restart |
| `unread` | violation | README.md:135, "Payments are sent out daily at UTC 00:00": every field is read as a blank and nobody is paid |
| `refused` | violation | network_wallet_functions.c:88: an error answer counts as success, the amount is wiped and a payment without a hash recorded |
| `blocks` | pass | a chain of up to two blocks of either kind, votes that change between the calls for each collection, failing updates and counts, one request that is refused or not answered, one restart |
| `shared` | pass | both threads, call by call, on one collection, with failing writes, payments that the wallet refuses or does not answer, and a restart at any point |
| `sockets` | pass | both client functions with a failure at each call, and answers that arrive in any pieces, before and between the two looks at each |
| `found` | pass | `check_found_block` with any of three lists of nodes, nodes that lag behind, send anything or nothing, a daemon and a wallet that refuse, and a chain that grows between its requests |
| `unrecognised` | violation | network_daemon_functions.c:229, "1 if you did not find the previous block on the network, 2 if you did": with a verified answer that has the reserve bytes of the block it returns 0 |
| `website` | pass | each page and several bodies of a POST while blocks, payments, addresses and votes change; two starts of main with any parameters, shutdown at any time, every failure |
| `unseeded` | violation | thread_functions.c:34, "checks for a new block": with the empty text of main no block is noticed |
| `twice` | violation | thread_functions.c:34: one unanswered poll after a found block and the block is recorded and split again |
| `division` | violation | thread_functions.c:264: with two voters both shares are 0 |

Bounds, and why they are enough:

* Two addresses: an interaction needs one document before and one after, in
  either order; the buffers carry over from one to the next only.
* Documents: nothing to receive for 30 days; an amount equal to the minimum; a
  longer one whose last digit can stay behind.  `MaxDigits = 3` holds every
  number that arises from them.
* `MinutesPerDay = 2`, `MaxSleep = 2`, `SendMinutes = 1`: a sleep may be exact
  or step over a minute, a payment may cross it, and midnight comes twice
  (`LastDay = 1`).
* Blocks: two, ours or not, with different rewards, so that a stale reward
  shows.  `Capacity = 3` with two voters is exceeded by the second count, as
  100 is after enough blocks.
* `MaxFailures = 1` request refused or not answered and `MaxRestarts = 1`: each
  may come between any two actions, also together.
* `blocks` (1.4 million states, two minutes): `Collections = 2`, one voter in
  each, so that a count or a read of one can fail after those of the other.
  `Leftovers = {1}`: the uninitialised integers are a block's height, a voter's
  count and a reward of their own at once; the proofs take any.
* `shared` (0.7 million states, two minutes): `LastDay = 0`, `MinutesPerDay = 1`,
  `Collections = 1` and `MaxBlocks = 2` give one pass and two splits, which may lie before, across, or
  after one another, and one restart.  One address has all the votes (two would
  make each share 0, see `division`); the other one is there so that the pass
  has a document before or after.  Writes fail, the wallet refuses a payment,
  or its answer is lost with the transfer made or not.  No failure of the
  cursor, which is studied in `payments` and covered by the proof, and nothing
  to remove.  Both windows are reached: without the exemption of `late` or of
  `stale` TLC violates `NoShareLost` or `NothingPaidTwice`.
* `sockets` (14,000 states): `BufferSize = 6` with answers up to that length,
  so that a piece can be as long as the buffer; `Looks = 3` for five looks a
  second, so that an answer may come in several pieces, with looks that find
  nothing between them, or run out of time.  Answers with and without a header,
  with something after the end string, and without one.
* `found` (200,000 states): `Nodes = 3`, of which node 0 is never asked, one may
  be ours and one index is beyond the list; blocks may come at any time up to
  `MaxBlocks = 3`; one signature of the regular length and one longer; two
  lengths of a text, of which the shorter one by itself, without a signature, is
  less than what the cut takes off; `Leftovers = {1, 9}`, a block's
  height and no block's.  `MaxCalls = 1`: a call starts with new buffers, so it
  leaves nothing to the next but `block_height`, which `Leftovers` covers.
* `website` (1.3 million states, under two minutes): `Capacity = 2` for the 100
  rows of `database_data` and the 100 slots for posts, `Collections = 2` for
  the 50 of `reserve_proofs`, so that each is full or exceeded within
  `MaxChanges = 2` changes and a POST of three parts.  One connection:
  connections meet only in the collections, which change in any case, and in
  main, which waits for all of them; the proofs of section 5 are for any
  number.  `MaxRequests = 2` lets what a request leaves behind reach the next
  one, `MaxStarts = 2` what a start leaves.

Deadlock is not checked: the clock stops after `LastDay`, the chain after
`MaxBlocks`, a call is over, main may be gone for good, and `undefined` and
`killed` have no next step.

**Fairness.** `PaymentTimer` assumes weak fairness of the thread: nothing it
calls blocks forever (each request has a timeout).  `BlockTimer` assumes it of
the answered poll and of the handler: the thread polls every 200 ms in the
minutes it looks at, and only `MaxFailures` requests stay unanswered.  `Socket`
assumes it of the receiving thread only, which sleeps for 200 ms between two
looks and counts them; it assumes nothing of the peer.  `FoundBlock` assumes
that the daemon and the wallet answer and that each listed node does when it is
asked, and nothing else: with silent nodes for ever, or a list of empty
entries, the loop does not end, and `CallsEnd` says so.  `WebServer` assumes
that the thread of each connection is scheduled and its calls return.  None
assumes anything of the environment's other actions, and `shared` has no
liveness property.

## 4. Properties

Payments: `OnePassPerDay`, `PassRecordsWhatItSends`, `RecordsMatchTransfers`,
`PassServesEveryDueAddress`, `PassEnds`, and `PromiseKept`, which says that
`PaymentTimer` implements `PaymentPromise` under the mapping

* `owed[a]` = `current_total` of the document of `a`, 0 without one;
* `confirmed` = the address and `number` while the thread is about to reset
  (`pc = "reset"`), none otherwise.

Note what the promise does not say: after a lost answer or a restart the amount
is still owed and will be paid again.  The code prefers paying twice to not
paying; an error answer of the wallet is confirmed all the same (`refused`).

Blocks: `RecordedBlockIsOurs`, `SplitIsExact`, `SplitWithinReward` (the reward
of the block that was recognised, not what `block_reward_number` holds),
`NoticesBlocks`, and `StatisticsFollowBlocks`: what `blocks_found` shows is in
`total_blocks_found`, and that in `total_blocks`, but for the handlers that were
cut off (`aborted`: an error, the `continue` of line 217, the end of the
process).  The sum of the two parts is not a property: whether `block_count` is
reset for a block of this delegate, as line 306 tries in vain, changes it.

Both together: `NoShareLost`, `NothingPaidTwice` and `LedgerKept`, the
refinement of `Ledger`: `owed` is `current_total`, `seen` the cursor's snapshot
of the documents still to be taken, `paid` the amount between the request and
the reset, `reading` what the split has read and not written back, `sent` the
sum of the transfers to an address.  The two invariants except accounts:

* `late` - a share was written after a pass had looked at the amount and before
  it wiped it (or the pass wiped it after a payment that the wallet refused);
* `stale` - a wipe fell between the read and the write of a split, or a payment
  was not followed by a wipe (the answer, the reset or the process was lost),
  or the buffer held more than was seen;
* both - a read of the split came back empty and `number` kept the votes.

The windows are real: thread_functions.c takes no lock, and the reset of lines
549-553 writes 0 whatever the field holds.  `Tally` puts an account into `late`
or `stale` in the step in which that happens and in no other, so the invariants
say that these are all the ways in which an amount can go wrong.

Found blocks: `ReadAnswersKnowTheBlock` (what is read was signed by its sender,
who is listed or uses the setting of the tests, and knew the block or, like the
delegate's own daemon, gave no hash), `RefusedForLengthOnly` (the cut of
network_security_functions.c:195 and 306-307 gives back the text that lines
148-158 signed, so a sender's own signature is refused only when it is not 93
characters long) and `CallsEnd`.  `VerifiedAnswersDecide` is what the function's
comment promises and run `unrecognised` refutes: line 321 cuts the hash out of
the block from the *beginning* of its marker on, and lines 362-363 compare that
with a digest that was not put into hex, so no block ever passes.

Sockets: `EveryPathReleases`, `FailureLeavesResult`, `LastPieceIsDelivered`,
`OverflowOnlyByRace`, `ReceiveEnds`.  `LastPieceIsDelivered` is what the code
does, and not the concatenation that one might expect: each piece is copied to
the start of the buffer, so of an answer in several pieces the last one is
delivered, with the end of a longer earlier piece after it.  `SIGPIPE` is not
ignored: a peer that closes during the writing ends the process (`killed`).

Website: `UndefinedHasACause` names for each page all the ways in which its
rows can be overrun; `RepliesAreCurrent`; `AnsweredExactlyOnce`;
`ConnectionsRelease`; `ClientOutlivesRequests`, which holds because
`MHD_stop_daemon` joins the threads of the connections - nobody joins the
timers, and `TimerWithoutClient` is reached; `OneStatisticsDocument`;
`GetsAreAnswered`.

## 5. Proofs

For every value of the constants, under the assumptions the modules name.  Each
invariant that a passing run checks is the conclusion of a theorem, and so is
each action property and each refinement; section 3 shows them on a small
instance first.

* `Sums_proofs` - what a sum over a finite set is, whatever order the fold of
  the library takes: `SumRemove`, `SumChange`, `SumOfPart` and the rest.
  Induction over an operator is out of the provers' reach, so each lemma looks
  at the *set* of the parts for which it fails and takes a smallest one
  (`SmallestPart`, from the well-foundedness of the strict subsets of a finite
  set), whose own parts are no exceptions.
* `PaymentTimer_proofs` - `TypeCorrect`, `AtMostOnePassPerDay`,
  `RecordsWhatItSends`, `RecordsAreTransfers`, `EveryDueAddressServed`
  (assuming `ValuesFound`) and `PromiseIsKept`.  The inductive invariant `IInv`
  is the type invariant with seven parts.  The one that carries the argument is
  about the buffers: a text copied over a longer one is never a *smaller*
  number than what was copied (`OverlayBound`), so an amount is at least the
  one in the document, which is why nothing due falls below the minimum and why
  a wiped amount is always covered.  `CursorInv` and `CoverInv` carry that from
  the cursor's snapshot to the collection, `HashInv` ties the hash in the
  buffer to the last transfer, `ServedInv` says which documents of the pass are
  settled.
* `BlockTimer_proofs` - `RecordedBlocksAreOurs`, with blocks that arrive at any
  point and any failure: unless it is torn, the handler learns one thing about
  the block it began with (`handled`) with each call (`KnownInv`), and the record
  is written when it knows all.  `StatisticsAddUp` and `SplitsAreExact`
  (assuming no failure of `cursor`): each handler that is cut off leaves a
  counter behind by one at most (`CounterInv`), and a paid address differs from
  the snapshot at the start of the split by its share only.
  `BlockTimerTypes`: an amount stays a natural number because what is about to
  be written is at least the share (`ShareInHand`) and because the reward is one
  (`RewardKnown`).  The latter needs `RewardsAreNumbers`: the daemon does not
  refuse, or what memory holds in place of a reward is a natural number, too.
  `SplitsStayWithinReward` (assuming that and no failure of `cursor`): the
  votes of one voter are at most the total (`TotalAtLeast`), so the quotient of
  line 269 is 1 for a voter who has all the votes and 0 otherwise
  (`ShareIsAllOrNothing`), and a split changes at most one amount, by the reward,
  which is that of the block by `KnownInv`.
* `Ledger_proofs` - `SharesAreKept` and `NoSecondPayment`, for any accounts and
  any number of passes, splits and restarts.  The invariant `LInv` says of each
  account that what is paid was seen (`PaidWasSeen`), that what was seen is
  still owed unless it is late (`SeenIsOwed`), that what was read is still owed
  unless it is stale (`ReadIsOwed`), and that owed and sent balance with
  credited (`Balanced`).
* `SharedDelegates_proofs` - the composition.  `ThreadsKeepTheirInvariants`:
  beside another writer the payment thread no longer knows that the collection
  is what its cursor saw, and `IInv` is not inductive; what it still knows is
  `PassInv` (its types and buffers, that the document in hand does not come
  again, that the amount in the buffer covers the cursor's, and that a document
  it removes had nothing to receive).  The one write of the block thread to a
  document (`AddShare`) keeps that, because it changes an amount only and makes
  no document.  The block thread keeps `TypeInv`, which no write of the payment
  thread disturbs, because its writes are numbers too.  From that, `SharedTypes` and `ThreadsImplementLedger`:
  one lemma for each kind of call says which step of `Ledger` it is, with any
  addresses, votes, days, failures (the cursor's too) and restarts.
  `SharedSharesAreKept` and `SharedNoSecondPayment` follow from the theorems
  about `Ledger`.  All of them assume `RewardsAreNumbers`, which the types of the
  block thread need.  The module instantiates the proofs of its parts, so its
  first lemmas (`SamePaymentTimer`, `SameBlockTimer`, `SameLedger`) state that
  the actions of both instances are the same formulas.
* `Socket_proofs` - `SocketsReleased`, `FailedCallsLeaveResult`,
  `OverflowNeedsARace`, `LastPieceDelivered` and `TypeCorrect`, for answers of
  any length, over any characters, in any pieces.  `HeldInv`, `ReturnInv` and
  `PeekInv` are about control; `DataInv` says that the message is never longer
  than the longest piece read so far, which is why a last piece that is no
  shorter replaces all of it.
* `FoundBlock_proofs` - `TypeCorrect`, `OnlyInformedAnswersAreRead` and
  `RegularAnswersVerify`, for any answers, lists and lengths.  The steps from the
  checks to the claim: past the list an answer has a listed sender or the setting
  of the tests, past the comparison of the hashes its hash is the daemon's, past
  the wallet it is signed by its sender; and `SignedText` undoes the lengths that
  `SignData` adds up.
* `WebServer_proofs` - `EachRequestAnsweredOnce`, `EverythingReleased`,
  `NoRequestWithoutClient`, for any number of connections, requests and
  collections and whatever fails.  `CInv` ties the step of each request to the
  responses queued for it, to what is allocated, and to the steps at which main
  still waits; two facts about a step (`Gives`: it hands on a call in between;
  `OneConnection`: it touches one connection only) make each of the 22 handlers
  a short proof.  `StatisticsOnce` (assuming that the database holds at most
  one document of the statistics at first) rests on `SInv`, which follows the
  document through all the steps of main.

  `RecordsFit` is about data: at each of the steps of a page it says what the
  numbers in the request's record have to do with the collections *now*,
  although they may change before the next step (`BlocksRead`, `VotersCounted`,
  `VotersRead`, `RewardsAdded`, ...: the conjuncts of `Fits`).  Three things
  make it inductive: the blocks and the payments only grow, so a count stays a
  lower bound; a vote that changes sets `touched` in every request for the
  voters, an address that comes or goes in every request for the address; and
  what a loop over the collections has so far is the sum over those before
  `at`.  A request that met undefined behaviour is no longer described by
  `Fits` but by the cause (`Stuck`).  From it `WebTypesOK`, `UndefinedIsCaused`
  and `RepliesShowOneMoment`.

The assumptions on the constants say that sets are finite where the code counts
them, that bounds are numbers, and that the values for "none" (`NoAddress`,
`"nobody"`, `"timer"`) are not addresses or connections.  `SharedDelegates`
states those of its two parts for its own constants.  A theorem with an
assumption of its own (`ValuesFound`, `RewardsAreNumbers`,
`"cursor" \notin Faults`, the documents at first) names it, and the run of the
same property has it.

Only model-checked:

* liveness: `PassEnds`, `NoticesBlocks`, `ReceiveEnds`, `CallsEnd`,
  `GetsAreAnswered`.  It needs ENABLED and a measure, which the provers do not
  do;
* that the expected violations of section 3 are reached: a counterexample is
  shown by a run, a proof can only show its absence.

## 6. Plan

Done, in this order: `PaymentTimer` with `PaymentPromise`, `BlockTimer`,
`SharedDelegates` with `Ledger`, `Socket`, `FoundBlock`, `WebServer`, the
invariants of each, `Sums`, and the refinement of `Ledger`.

What is left:

1. the part of liveness that is safety: a measure that each call of a receive
   or of a pass decreases and nothing else increases, so that `ReceiveEnds` and
   `PassEnds` rest on the scheduling alone;
2. the action properties of the composition: that a step of one thread changes
   what is owed to one account at most, and that only the three writes of the
   two threads change it;
3. `check_found_block` in one step, as `BlockTimer` has it, as an abstract
   specification that `FoundBlock` implements.

## 7. Not modelled, and why

* Formatting character by character: replacing, base64, hex, the text of the
  replies and of the JSON documents.  Where a copy or a cut of a text changes
  what happens it is modelled (section 2, Data).
* Parsing of documents field by field in the database functions: a field is
  found or not.  The arrays of fields they build are data.
* The functions of database_functions.c for the connection pool: a pool is
  created, and every call passes `THREAD_SETTINGS` 0. `update_all` has no
  caller in the running service.
* What the driver does when several threads use one client at the same moment,
  which it does not support: each call is taken as atomic.
* An allocation that fails in the timers and in a row of a page: the process
  exits or the page replies with 400. Those at the start of a page and in
  `create_server` are modelled.
* The vendored cryptography, and the tests of `--test`, which only call
  helpers.
* MongoDB, the wallet, the daemon, libmicrohttpd and the network are external
  and are modelled by how the code uses them.
