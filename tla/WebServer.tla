------------------------------- MODULE WebServer ------------------------------
(***************************************************************************)
(* The website: main's life cycle, the threads libmicrohttpd starts for    *)
(* each connection, create_server with the post data, and the GET requests *)
(* that read the collections while the timers and other programs change    *)
(* them.  An action is one call of the database (or of libmicrohttpd) with *)
(* what the handler does up to the next one.                               *)
(*                                                                         *)
(* All threads share one mongoc client; each call of it is taken as        *)
(* atomic.  `undefined` names who did something C does not define; the     *)
(* model stops there.                                                      *)
(***************************************************************************)
EXTENDS Sequences, FiniteSets, SequencesExt, Sums

CONSTANTS Connection,      \* the connections libmicrohttpd has threads for
          Requests,        \* what a client may ask: records [method, url, parts]
          Failing,         \* the calls that may fail: see Failure
          IndexExists,     \* the directory holds index.html
          Rewards,         \* the rewards of blocks
          TestReward,      \* the reward of the blocks in the test data: 15
          TestVotes,       \* the collections it has votes in: <<5, 10, 10, 15>>
          Contents,        \* what the collections may hold at the start
          Collections,     \* how many collections reserve_proofs_i there are: 50
          Capacity,        \* DATABASE_ARRAY_COUNT, and the slots for post data
          MaxRequests,     \* bound: requests
          MaxChanges,      \* bound: changes of the collections
          MaxStarts        \* bound: starts of the program

Failure == {"start", "write", "count", "cursor", "memory"}
Method == {"GET", "POST", "PUT"}
Url == {"statistics", "blocks", "address", "noaddress", "voters", "payments",
        "file", "nofile", "form"}
Part == {"known", "unknown", "empty", "full", "long"}

ASSUME WebServerAssumption ==
    /\ Requests \subseteq [method : Method, url : Url, parts : Seq(Part)]
    /\ Failing \subseteq Failure
    /\ IndexExists \in BOOLEAN
    /\ Rewards \subseteq Nat /\ TestReward \in Nat \ Rewards
    /\ TestVotes \in Seq(1 .. Collections)
    /\ Contents \subseteq [statistics : Nat, blocks : Seq(Rewards), listed : BOOLEAN,
                           payments : Nat, proofs : [1 .. Collections -> Nat]]
    /\ Collections \in Nat \ {0} /\ Capacity \in Nat
    /\ MaxRequests \in Nat /\ MaxChanges \in Nat /\ MaxStarts \in Nat \ {0}
    /\ "nobody" \notin Connection /\ "timer" \notin Connection

VARIABLES
    pc,              \* main's next call
    client,          \* database_client: "none", "open" or "destroyed"
    timers,          \* the detached threads that run
    starts, changes, requests,  \* how many happened so far
    badStart,        \* history: a call on the statistics failed in some start,
                     \* or the test data came on top of them
    statistics,      \* how many documents that collection has
    blocks_found,    \* collection: the rewards
    listed,          \* the address asked for has a document in public_addresses
    payments,        \* documents it has in public_addresses_payments
    proofs,          \* documents for this delegate in each reserve_proofs_i
    call,            \* what each connection's thread is doing
    settings,        \* *settings of each connection is not NULL
    processors,      \* post processors created and not destroyed
    files,           \* files opened and not closed
    undefined        \* who met undefined behaviour, or "nobody"

main == <<pc, client, timers, starts, badStart>>
collections == <<statistics, blocks_found, listed, payments, proofs>>
web  == <<call, settings, processors, files, requests>>
vars == <<pc, client, timers, starts, changes, requests, badStart, statistics,
          blocks_found, listed, payments, proofs, call, settings, processors,
          files, undefined>>

MainSteps == {"gone", "connect", "address", "parameters", "count", "insert", "blocks",
              "payments", "server", "serving", "stopping", "destroy",
              "cleanup"}

Proof == 1 .. Collections

(***************************************************************************)
(* What a connection's thread holds: its next call, the request, the parts *)
(* of a POST still to come and the slots used, document_count, the rows of *)
(* database_data written, the next collection, and the numbers of a reply. *)
(***************************************************************************)
NoCall == [step |-> "idle", method |-> "GET", url |-> "file", parts |-> << >>,
           slots |-> 0, count |-> 0, rows |-> 0, at |-> 1, now |-> 0,
           total |-> 0, status |-> 0, answers |-> 0,
           before |-> 0,        \* history: what the collection held at first
           touched |-> FALSE]   \* history: a read was cut short, or documents
                                \* that are read were removed or added
Steps == {"idle", "called", "statistics", "read", "paid", "votes", "totals",
          "count", "again", "rows", "sending", "answered", "refused", "waiting",
          "starved"}

Init ==
    /\ pc = "connect"
    /\ client = "none"
    /\ timers = {}
    /\ starts = 1 /\ changes = 0 /\ requests = 0
    /\ badStart = FALSE
    /\ \E d \in Contents : /\ statistics = d.statistics
                          /\ blocks_found = d.blocks
                          /\ listed = d.listed
                          /\ payments = d.payments
                          /\ proofs = d.proofs
    /\ call = [c \in Connection |-> NoCall]
    /\ settings = [c \in Connection |-> FALSE]
    /\ processors = [c \in Connection |-> 0]
    /\ files = [c \in Connection |-> 0]
    /\ undefined = "nobody"

Fails(f) == f \in Failing

-----------------------------------------------------------------------------
(* main.                                                                   *)

(* exit, or the end of main: the threads end with the process. *)
Exit ==
    /\ pc' = "gone"
    /\ client' = "none"
    /\ timers' = {}
    /\ call' = [c \in Connection |-> NoCall]
    /\ settings' = [c \in Connection |-> FALSE]
    /\ processors' = [c \in Connection |-> 0]
    /\ files' = [c \in Connection |-> 0]
    /\ UNCHANGED <<starts, changes, requests, undefined>>

Gone == Exit /\ UNCHANGED collections

(* The program is started, again. *)
StartProgram ==
    /\ pc = "gone"
    /\ starts < MaxStarts
    /\ starts' = starts + 1
    /\ pc' = "connect"
    /\ UNCHANGED <<client, timers, changes, badStart, collections, web, undefined>>

(* create_database_connection, and the pool that nobody uses. *)
Connect ==
    /\ pc = "connect"
    /\ \/ /\ client' = "open"
          /\ pc' = "address"
          /\ UNCHANGED <<timers, starts, changes, collections, web, undefined>>
       \/ Fails("start") /\ Gone
    /\ UNCHANGED badStart

(* get_public_address: the wallet is asked, once. *)
GetAddress ==
    /\ pc = "address"
    /\ \/ /\ pc' = "parameters"
          /\ UNCHANGED <<client, timers, starts, changes, collections, web,
                         undefined>>
       \/ Fails("start") /\ Gone
    /\ UNCHANGED badStart

(* --fee and --minimum_amount with a number each. *)
ReadParameters ==
    /\ pc = "parameters"
    /\ pc' = "count"
    /\ UNCHANGED <<client, timers, starts, changes, badStart, collections, web,
                   undefined>>

(* Any others; and --test, once the tests are over. *)
InvalidParameters == pc = "parameters" /\ Gone /\ UNCHANGED badStart

(* How many of at most n writes one after the other have an effect: what   *)
(* they return is not looked at.                                           *)
Written(n) == IF Fails("write") THEN 0 .. n ELSE {n}

TestVotesIn(i) == Cardinality({j \in DOMAIN TestVotes : TestVotes[j] = i})

(***************************************************************************)
(* --test_data_add and --test_data_remove: documents that look like those  *)
(* of the program, whatever the collections hold.  The documents of        *)
(* public_addresses and public_addresses_payments are the delegate's own;  *)
(* `listed` and `payments` are about another address.  The statistics and  *)
(* the votes are removed by fields that the real documents have, too.      *)
(***************************************************************************)
AddTestData ==
    /\ pc = "parameters"
    /\ \E n \in Written(1) :
          /\ statistics' = statistics + n
          /\ badStart' = (badStart \/ statistics + n > 1)
    /\ \E n \in Written(2) :
          blocks_found' = blocks_found \o [k \in 1 .. n |-> TestReward]
    /\ \E n \in [Proof -> 0 .. Len(TestVotes)] :
          /\ \A i \in Proof : n[i] \in Written(TestVotesIn(i))
          /\ proofs' = [i \in Proof |-> proofs[i] + n[i]]
    /\ UNCHANGED <<listed, payments>>
    /\ Exit

RemoveTestData ==
    /\ pc = "parameters"
    /\ \E n \in Written(1) : statistics' = Max({0, statistics - n})
    /\ \E n \in Written(2) :
          blocks_found' = LET once == RemoveFirst(blocks_found, TestReward)
                          IN  <<blocks_found, once,
                                RemoveFirst(once, TestReward)>>[n + 1]
    /\ \E n \in [Proof -> 0 .. Len(TestVotes)] :
          /\ \A i \in Proof : n[i] \in Written(TestVotesIn(i))
          /\ proofs' = [i \in Proof |-> Max({0, proofs[i] - n[i]})]
    /\ UNCHANGED <<listed, payments, badStart>>
    /\ Exit

(* What count_documents_in_collection may return for n documents. *)
Counts(n) == {n} \cup (IF Fails("count") THEN {-1} ELSE {})

(* Deviation, for the checks: the document is inserted at each start. *)
CountStatisticsAlways ==
    /\ pc = "count"
    /\ \E n \in Counts(statistics) : badStart' = (badStart \/ n < 0)
    /\ pc' = "insert"
    /\ UNCHANGED <<client, timers, starts, changes, collections, web, undefined>>

CountStatistics ==
    /\ pc = "count"
    /\ \E n \in Counts(statistics) :
          /\ pc' = IF n <= 0 THEN "insert" ELSE "blocks"
          /\ badStart' = (badStart \/ n < 0)
    /\ UNCHANGED <<client, timers, starts, changes, collections, web, undefined>>

(* What the insert returns is not looked at. *)
InsertStatistics ==
    /\ pc = "insert"
    /\ \/ statistics' = statistics + 1 /\ UNCHANGED badStart
       \/ Fails("write") /\ badStart' = TRUE /\ UNCHANGED statistics
    /\ pc' = "blocks"
    /\ UNCHANGED <<client, timers, starts, changes, blocks_found, listed,
                   payments, proofs, web, undefined>>

StartThread(step, thread, next) ==
    /\ pc = step
    /\ \/ /\ timers' = timers \cup {thread}
          /\ pc' = next
          /\ UNCHANGED <<client, starts, changes, collections, web, undefined>>
       \/ Fails("start") /\ Gone
    /\ UNCHANGED badStart

StartBlockTimer == StartThread("blocks", "block", "payments")
StartPaymentTimer == StartThread("payments", "payment", "server")

(* MHD_start_daemon; when it fails the client goes while the timers run. *)
StartServer ==
    /\ pc = "server"
    /\ \/ pc' = "serving" /\ UNCHANGED client
       \/ Fails("start") /\ client' = "destroyed" /\ pc' = "cleanup"
    /\ UNCHANGED <<timers, starts, changes, badStart, collections, web, undefined>>

(* A key is pressed: MHD_stop_daemon stops listening. *)
KeyPressed ==
    /\ pc = "serving"
    /\ pc' = "stopping"
    /\ UNCHANGED <<client, timers, starts, changes, badStart, collections, web,
                   undefined>>

(* Deviation, for the checks: the threads are not waited for. *)
ServerStoppedAtOnce ==
    /\ pc = "stopping"
    /\ pc' = "destroy"
    /\ UNCHANGED <<client, timers, starts, changes, badStart, collections, web,
                   undefined>>

(* MHD_stop_daemon has joined the threads of the connections. *)
ServerStopped ==
    /\ pc = "stopping"
    /\ \A c \in Connection : call[c].step = "idle"
    /\ pc' = "destroy"
    /\ UNCHANGED <<client, timers, starts, changes, badStart, collections, web,
                   undefined>>

DestroyClient ==
    /\ pc = "destroy"
    /\ client' = "destroyed"
    /\ pc' = "cleanup"
    /\ UNCHANGED <<timers, starts, changes, badStart, collections, web, undefined>>

Cleanup == pc = "cleanup" /\ Gone /\ UNCHANGED badStart

Main ==
    \/ StartProgram \/ Connect \/ GetAddress \/ ReadParameters
    \/ InvalidParameters \/ AddTestData \/ RemoveTestData \/ CountStatistics
    \/ InsertStatistics \/ StartBlockTimer \/ StartPaymentTimer \/ StartServer
    \/ KeyPressed \/ ServerStopped \/ DestroyClient \/ Cleanup

-----------------------------------------------------------------------------
(* The timers and the other programs of the delegate.                      *)

(* Bound: changes while there is no request are left to Contents. *)
Change == /\ changes < MaxChanges
          /\ \E c \in Connection : call[c].step \notin {"idle", "answered", "refused"}
          /\ changes' = changes + 1

(* The requests for `url` in progress have been disturbed. *)
Disturb(url) ==
    call' = [c \in Connection |->
                [call[c] EXCEPT !.touched = @ \/ call[c].url = url]]

(* The block timer records a block. *)
BlockFound ==
    /\ "block" \in timers /\ client = "open"
    /\ Change
    /\ \E r \in Rewards : blocks_found' = Append(blocks_found, r)
    /\ UNCHANGED <<main, statistics, listed, payments, proofs, web, undefined>>

PaymentMade ==
    /\ "payment" \in timers /\ client = "open" /\ listed
    /\ Change
    /\ payments' = payments + 1
    /\ UNCHANGED <<main, statistics, blocks_found, listed, proofs, web, undefined>>

(* The payment timer removes an inactive address, another program adds it. *)
AddressChanges ==
    /\ Change
    /\ listed => "payment" \in timers /\ client = "open"
    /\ listed' = ~listed
    /\ Disturb("address")
    /\ UNCHANGED <<main, statistics, blocks_found, payments, proofs, settings,
                   processors, files, requests, undefined>>

(* A vote for this delegate comes or goes. *)
VoteChanges(i) ==
    /\ Change
    /\ \E d \in {-1, 1} :
          /\ proofs[i] + d >= 0
          /\ proofs' = [proofs EXCEPT ![i] = @ + d]
    /\ Disturb("voters")
    /\ UNCHANGED <<main, statistics, blocks_found, listed, payments, settings,
                   processors, files, requests, undefined>>

(* A detached timer uses the client that main has destroyed. *)
TimerWithoutClient ==
    /\ timers # {}
    /\ client = "destroyed"
    /\ undefined' = "timer"
    /\ UNCHANGED <<main, changes, collections, web>>

Others ==
    \/ BlockFound \/ PaymentMade \/ AddressChanges
    \/ \E i \in Proof : VoteChanges(i)
    \/ TimerWithoutClient

-----------------------------------------------------------------------------
(* create_server, once for each call libmicrohttpd makes of it.            *)

Go(c, r) == call' = [call EXCEPT ![c] = r]
Only(c, r) == /\ Go(c, r)
              /\ UNCHANGED <<settings, processors, files, undefined>>
Undefined(c, r) == /\ Go(c, r)
                   /\ undefined' = c
                   /\ UNCHANGED <<settings, processors, files>>
Rest == UNCHANGED <<main, changes, collections, requests>>

(* Deviation, for the checks: HTTP_RESULTS without its return, so that the *)
(* file of that name is sent as well.                                      *)
ReplyFallingThrough(r, status) ==
    [r EXCEPT !.step = IF r.url = "statistics" THEN "sending" ELSE "answered",
              !.status = status,
              !.answers = IF r.url = "statistics" THEN @ + 2 ELSE @ + 1]

(* HTTP_RESULTS: the response is queued and the handler returns. *)
Reply(r, status) == [r EXCEPT !.step = "answered", !.status = status,
                              !.answers = @ + 1]

(* A request arrives on a connection. *)
RequestArrives(c) ==
    /\ pc = "serving"
    /\ call[c].step = "idle"
    /\ requests < MaxRequests
    /\ requests' = requests + 1
    /\ \E q \in Requests :
          Go(c, [NoCall EXCEPT !.step = "called", !.method = q.method,
                               !.url = q.url, !.parts = q.parts])
    /\ UNCHANGED <<main, changes, collections, settings, processors, files,
                   undefined>>

OtherMethod(c) ==
    /\ call[c].step = "called"
    /\ call[c].method \notin {"GET", "POST"}
    /\ Only(c, [call[c] EXCEPT !.step = "refused"])
    /\ Rest

(* Deviation, for the checks: *settings is not looked at. *)
PostBeginsAgain(c) ==
    /\ call[c].step = "called" /\ call[c].method = "POST"
    /\ processors' = [processors EXCEPT ![c] = @ + 1]
    /\ settings' = [settings EXCEPT ![c] = TRUE]
    /\ UNCHANGED <<call, files, undefined>>
    /\ Rest

(* The first call for a POST creates the post processor. *)
PostBegins(c) ==
    /\ call[c].step = "called" /\ call[c].method = "POST" /\ ~settings[c]
    /\ \/ /\ processors' = [processors EXCEPT ![c] = @ + 1]
          /\ settings' = [settings EXCEPT ![c] = TRUE]
          /\ UNCHANGED <<call, files, undefined>>
       \/ /\ Fails("memory")
          /\ Only(c, [call[c] EXCEPT !.step = "refused"])
    /\ Rest

(***************************************************************************)
(* post_result, for the next part of the body.  A known field takes a slot *)
(* of the 100, without looking whether there is one; a value as long as    *)
(* the buffer has no room for its terminator; a field without a name that  *)
(* is known returns a variable that was never set.  After MHD_NO the post  *)
(* processor leaves out the rest of the body.                              *)
(***************************************************************************)
PostPart(c) ==
    /\ call[c].step = "called" /\ call[c].method = "POST" /\ settings[c]
    /\ call[c].parts # << >>
    /\ LET part == Head(call[c].parts)
           more == [call[c] EXCEPT !.parts = Tail(@)]
           over == [call[c] EXCEPT !.parts = << >>]
       IN  \/ part = "known" /\ call[c].slots < Capacity
                  /\ Only(c, [more EXCEPT !.slots = @ + 1])
           \/ part = "known" /\ call[c].slots >= Capacity /\ Undefined(c, call[c])
           \/ part = "full" /\ Undefined(c, call[c])
           \/ part = "unknown" /\ \E r \in {more, over} : Only(c, r)
           \/ part \in {"empty", "long"} /\ Only(c, over)
    /\ Rest

(* The last call for a POST reaches the end of create_server: no response  *)
(* is queued and what it returns is left open.  After MHD_YES it is called *)
(* again, to the same end, until the client gives up.                      *)
PostEnds(c) ==
    /\ call[c].step = "called" /\ call[c].method = "POST" /\ settings[c]
    /\ call[c].parts = << >>
    /\ \E s \in {"waiting", "refused"} : Only(c, [call[c] EXCEPT !.step = s])
    /\ Rest

(* The body of the request does not arrive, or nobody waits for a reply. *)
ClientGivesUp(c) ==
    /\ call[c].step = "waiting" \/ (call[c].step = "called" /\ settings[c])
    /\ Only(c, [call[c] EXCEPT !.step = "refused"])
    /\ Rest

(* Deviation, for the checks: the post processor stays behind. *)
RequestCompletedKeeping(c) ==
    /\ call[c].step \in {"answered", "refused"}
    /\ settings' = [settings EXCEPT ![c] = FALSE]
    /\ Go(c, NoCall)
    /\ UNCHANGED <<processors, files, undefined>>
    /\ Rest

(* post_request_completed. *)
RequestCompleted(c) ==
    /\ call[c].step \in {"answered", "refused"}
    /\ IF settings[c]
       THEN /\ processors' = [processors EXCEPT ![c] = @ - 1]
            /\ settings' = [settings EXCEPT ![c] = FALSE]
       ELSE UNCHANGED <<processors, settings>>
    /\ Go(c, NoCall)
    /\ UNCHANGED <<files, undefined>>
    /\ Rest

(* The choice of the GET request by its url. *)
FirstStep == [statistics |-> "count", blocks |-> "count", address |-> "count",
              payments |-> "count", voters |-> "votes"]

Dispatch(c) ==
    /\ call[c].step = "called" /\ call[c].method = "GET"
    /\ \/ /\ call[c].url \in DOMAIN FirstStep
          /\ Only(c, [call[c] EXCEPT !.step = FirstStep[call[c].url]])
       \/ /\ call[c].url = "noaddress"
          /\ Only(c, Reply(call[c], 400))
    /\ Rest

(* An allocation at the start of a page fails.  The statistics then free   *)
(* ten pointers that have not been set; the other pages reply with 400.    *)
PageWithoutMemory(c) ==
    /\ call[c].method = "GET" /\ call[c].url \in DOMAIN FirstStep
    /\ IF call[c].url = "statistics"
       THEN Undefined(c, [call[c] EXCEPT !.step = "starved"])
       ELSE Only(c, Reply([call[c] EXCEPT !.touched = TRUE], 400))

(* One of create_server's own does: without its buffer the request is      *)
(* refused; connection_info, which is made for each GET, too, is not       *)
(* looked at before it is used.                                            *)
OutOfMemory(c) ==
    /\ Fails("memory")
    /\ call[c].step = "called"
    /\ \/ Only(c, [call[c] EXCEPT !.step = "refused"])
       \/ /\ call[c].method \in {"GET", "POST"} /\ ~settings[c]
          /\ Undefined(c, [call[c] EXCEPT !.step = "starved"])
       \/ PageWithoutMemory(c)
    /\ Rest

(* A file: fopen of the name, or of index.html.  Without either, fseek is  *)
(* called with NULL.                                                       *)
OpenFile(c) ==
    /\ call[c].step = "called" /\ call[c].method = "GET"
    /\ call[c].url \in {"file", "nofile"}
    /\ IF call[c].url = "nofile" /\ ~IndexExists
       THEN Undefined(c, call[c])
       ELSE \/ /\ files' = [files EXCEPT ![c] = @ + 1]
               /\ Go(c, [Reply(call[c], 200) EXCEPT !.step = "sending"])
               /\ UNCHANGED <<settings, processors, undefined>>
            \/ /\ Fails("memory")
               /\ Only(c, [call[c] EXCEPT !.step = "refused"])
    /\ Rest

(* read_file_server gives libmicrohttpd the pieces and callback_reset      *)
(* closes the file, also when the client has gone.                         *)
SendFile(c) ==
    /\ call[c].step = "sending"
    /\ files' = [files EXCEPT ![c] = @ - 1]
    /\ Go(c, [call[c] EXCEPT !.step = "answered"])
    /\ UNCHANGED <<settings, processors, undefined>>
    /\ Rest

-----------------------------------------------------------------------------
(* The GET requests that read collections.                                 *)

(* Deviation, for the checks: all the documents are read. *)
ReadRowsAll(n, limit) == {n} \cup (IF Fails("cursor") THEN 0 .. n ELSE {})

(* read_multiple_documents_all_fields_from_collection: how many of the n   *)
(* documents it puts into rows.  It stops when it has read `limit`, which  *)
(* a count of 0 or of -1 never equals; a cursor that fails ends it early.  *)
ReadRows(n, limit) ==
    LET most == IF limit \in 1 .. n THEN limit ELSE n
    IN  {most} \cup (IF Fails("cursor") THEN 0 .. most ELSE {})

(* The record of a call that has counted n of `there` documents. *)
Counted(r, n, there) ==
    [r EXCEPT !.count = n, !.before = there, !.touched = @ \/ n < 0]

(* get_statistics allocates a row for each document of blocks_found, and   *)
(* get_blocks_found one more, for the totals.                              *)
Allocated(r) == IF r.url = "blocks" THEN r.count + 1 ELSE r.count

CountBlocks(c) ==
    /\ call[c].step = "count" /\ call[c].url \in {"statistics", "blocks"}
    /\ \E n \in Counts(Len(blocks_found)) :
          LET r    == Counted(call[c], n, Len(blocks_found))
              next == IF r.url = "blocks" THEN "read" ELSE "statistics"
          IN  IF Allocated(r) > Capacity THEN Undefined(c, r)
              ELSE Only(c, [r EXCEPT !.step = next])
    /\ Rest

(* Without a document database_data.count, never set, is the next index. *)
ReadStatistics(c) ==
    /\ call[c].step = "statistics"
    /\ \/ statistics > 0 /\ Only(c, [call[c] EXCEPT !.step = "read"])
       \/ statistics = 0 /\ Undefined(c, call[c])
       \/ Fails("cursor") /\ Undefined(c, [call[c] EXCEPT !.touched = TRUE])
    /\ Rest

(* Deviation, for the checks: the loop starts at the second row. *)
SumOfRowsFromSecond(k, n) ==
    Sum(blocks_found, 2 .. k) + (n - k) * blocks_found[k]

(* sscanf finds no number in a row that was not read, and the reward of    *)
(* the last row that was is added again.                                   *)
SumOfRows(k, n) == Sum(blocks_found, 1 .. k) + (n - k) * blocks_found[k]

ReadBlocks(c) ==
    /\ call[c].step = "read"
    /\ \E k \in ReadRows(Len(blocks_found), call[c].count) :
          LET r == [call[c] EXCEPT !.rows = k, !.touched = @ \/ k < call[c].before]
          IN  \/ k = 0 /\ Only(c, Reply(r, 400))
              \/ k > 0 /\ k > Allocated(r) /\ Undefined(c, r)
              \/ /\ k > 0 /\ k <= Allocated(r) /\ r.url = "statistics"
                 /\ Only(c, [r EXCEPT !.step = "paid",
                                      !.total = SumOfRows(k, r.count)])
              \/ /\ k > 0 /\ k <= Allocated(r) /\ r.url = "blocks"
                 /\ Only(c, [r EXCEPT !.step = "totals"])
    /\ Rest

CountPayments(c) ==
    /\ call[c].step = "paid"
    /\ \E n \in Counts(payments) : Only(c, [call[c] EXCEPT !.step = "votes"])
    /\ Rest

(* The votes in the 50 collections, one count for each; a failed one       *)
(* counts for -1.                                                          *)
CountVotes(c) ==
    /\ call[c].step = "votes" /\ call[c].url = "statistics"
    /\ \E n \in Counts(proofs[call[c].at]) :
          LET r == [call[c] EXCEPT !.now = @ + n]
          IN  Only(c, IF r.at = Collections THEN Reply(r, 200)
                      ELSE [r EXCEPT !.at = @ + 1])
    /\ Rest

(* The totals of the statistics go into one more row. *)
ReadTotals(c) ==
    /\ call[c].step = "totals"
    /\ IF call[c].rows + 1 > Allocated(call[c])
       THEN Undefined(c, call[c])
       ELSE Only(c, Reply(call[c], 200))
    /\ Rest

(* get_public_address_information. *)
CountAddress(c) ==
    /\ call[c].step = "count" /\ call[c].url = "address"
    /\ LET there == IF listed THEN 1 ELSE 0
       IN  \E n \in Counts(there) :
              LET r == Counted(call[c], n, there)
              IN  Only(c, IF n <= 0 THEN Reply(r, 400)
                          ELSE [r EXCEPT !.step = "rows"])
    /\ Rest

(* A document that is not found leaves a reply without any field. *)
ReadAddress(c) ==
    /\ call[c].step = "rows" /\ call[c].url = "address"
    /\ \/ listed /\ Only(c, Reply([call[c] EXCEPT !.rows = 1], 200))
       \/ ~listed /\ Only(c, Reply(call[c], 200))
       \/ /\ Fails("cursor")
          /\ Only(c, Reply([call[c] EXCEPT !.touched = TRUE], 200))
    /\ Rest

(* get_voters_list: the counts that decide how many rows are allocated. *)
CountVoters(c) ==
    /\ call[c].step = "votes" /\ call[c].url = "voters"
    /\ \E n \in Counts(proofs[call[c].at]) :
          LET r == Counted(call[c], call[c].count + n,
                           call[c].before + proofs[call[c].at])
          IN  \/ n < 0 /\ Only(c, Reply([r EXCEPT !.touched = TRUE], 400))
              \/ /\ n >= 0 /\ r.at < Collections
                 /\ Only(c, [r EXCEPT !.at = @ + 1])
              \/ /\ n >= 0 /\ r.at = Collections
                 /\ \/ r.count <= 0 /\ Only(c, Reply(r, 400))
                    \/ r.count > Capacity /\ Undefined(c, r)
                    \/ /\ r.count \in 1 .. Capacity
                       /\ Only(c, [r EXCEPT !.step = "again", !.at = 1])
    /\ Rest

NextCollection(r) == IF r.at = Collections THEN Reply(r, 200)
                     ELSE [r EXCEPT !.step = "again", !.at = @ + 1]

(* Each collection is counted again; one that fails is passed over. *)
CountAgain(c) ==
    /\ call[c].step = "again"
    /\ \E n \in Counts(proofs[call[c].at]) :
          LET r == [call[c] EXCEPT !.now = n, !.touched = @ \/ n < 0]
          IN  Only(c, IF n > 0 THEN [r EXCEPT !.step = "rows"]
                      ELSE NextCollection(r))
    /\ Rest

(* Deviation, for the checks: the first collection is read over and over. *)
ReadVotersForEver(c) ==
    /\ call[c].step = "rows" /\ call[c].url = "voters"
    /\ \E k \in ReadRows(proofs[call[c].at], call[c].now) :
          Only(c, [call[c] EXCEPT !.step = "again"])
    /\ Rest

ReadVoters(c) ==
    /\ call[c].step = "rows" /\ call[c].url = "voters"
    /\ \E k \in ReadRows(proofs[call[c].at], call[c].now) :
          LET r == [call[c] EXCEPT !.rows = @ + k,
                                   !.touched = @ \/ k < call[c].now]
          IN  \/ k = 0 /\ Only(c, Reply(r, 400))
              \/ k > 0 /\ r.rows > r.count /\ Undefined(c, r)
              \/ k > 0 /\ r.rows <= r.count /\ Only(c, NextCollection(r))
    /\ Rest

(* get_public_address_payment_information. *)
CountAddressPayments(c) ==
    /\ call[c].step = "count" /\ call[c].url = "payments"
    /\ \E n \in Counts(payments) :
          LET r == Counted(call[c], n, payments)
          IN  \/ n <= 0 /\ Only(c, Reply(r, 400))
              \/ n > Capacity /\ Undefined(c, r)
              \/ n \in 1 .. Capacity /\ Only(c, [r EXCEPT !.step = "rows"])
    /\ Rest

ReadPayments(c) ==
    /\ call[c].step = "rows" /\ call[c].url = "payments"
    /\ \E k \in ReadRows(payments, call[c].count) :
          LET r == [call[c] EXCEPT !.rows = k, !.touched = @ \/ k < call[c].count]
          IN  \/ k = 0 /\ Only(c, Reply(r, 400))
              \/ k > r.count /\ Undefined(c, r)
              \/ k \in 1 .. r.count /\ Only(c, Reply(r, 200))
    /\ Rest

Handle(c) ==
    \/ OtherMethod(c) \/ PostBegins(c) \/ PostPart(c) \/ PostEnds(c)
    \/ RequestCompleted(c) \/ Dispatch(c) \/ OutOfMemory(c)
    \/ OpenFile(c) \/ SendFile(c)
    \/ CountBlocks(c) \/ ReadStatistics(c) \/ ReadBlocks(c)
    \/ CountPayments(c) \/ CountVotes(c) \/ ReadTotals(c)
    \/ CountAddress(c) \/ ReadAddress(c)
    \/ CountVoters(c) \/ CountAgain(c) \/ ReadVoters(c)
    \/ CountAddressPayments(c) \/ ReadPayments(c)

Client(c) == RequestArrives(c) \/ ClientGivesUp(c)

Next ==
    /\ undefined = "nobody"
    /\ \/ Main \/ Others
       \/ \E c \in Connection : Handle(c) \/ Client(c)

Spec == Init /\ [][Next]_vars

(* The thread of a connection is scheduled, and its calls return. *)
FairSpec ==
    Spec /\ \A c \in Connection :
                WF_vars(undefined = "nobody" /\ Handle(c))

-----------------------------------------------------------------------------
TypeOK ==
    /\ pc \in MainSteps
    /\ client \in {"none", "open", "destroyed"}
    /\ timers \subseteq {"block", "payment"}
    /\ starts \in 0 .. MaxStarts /\ changes \in 0 .. MaxChanges
    /\ requests \in 0 .. MaxRequests
    /\ badStart \in BOOLEAN
    /\ statistics \in Nat /\ blocks_found \in Seq(Rewards \cup {TestReward})
    /\ listed \in BOOLEAN /\ payments \in Nat /\ proofs \in [Proof -> Nat]
    /\ \A c \in Connection :
          /\ call[c].step \in Steps
          /\ call[c].at \in Proof
          /\ call[c].slots \in 0 .. Capacity
          /\ call[c].status \in {0, 200, 400}
    /\ settings \in [Connection -> BOOLEAN]
    /\ processors \in [Connection -> 0 .. 1] /\ files \in [Connection -> 0 .. 1]
    /\ undefined \in Connection \cup {"nobody", "timer"}

(* What must have happened before the request of r meets something that C  *)
(* does not define.                                                        *)
HasACause(r) ==
    /\ r.method \in {"GET", "POST"}
    /\ r.method = "POST" => r.slots = Capacity \/ Head(r.parts) = "full"
    /\ r.method = "GET" =>
          CASE r.url = "payments" -> r.count > Capacity
            [] r.url = "voters" -> r.count > Capacity \/ r.touched
            [] r.url = "statistics" ->
                   \/ r.count > Capacity \/ r.touched
                   \/ statistics = 0 /\ badStart
                   \/ r.before = 0 /\ blocks_found # << >>
            [] r.url = "blocks" ->
                   \/ r.count >= Capacity \/ r.touched
                   \/ r.before = 0 /\ blocks_found # << >>
            [] r.url = "nofile" -> ~IndexExists
            [] OTHER -> FALSE

(* Lines 269-290, 441-471, 667-717 and 803-827: rows are allocated for one *)
(* count and filled by a later read.  What is read does not fit only when  *)
(* there are more than 100 documents, when the count failed, when a block  *)
(* is found between the two while there was none before, or when a vote    *)
(* comes in between; never in the list of an address's payments, although  *)
(* it grows at any time.  Memory that runs out is another matter.          *)
UndefinedHasACause ==
    \A c \in Connection :
        undefined = c /\ call[c].step # "starved" => HasACause(call[c])

(* The reply to r shows the documents of one moment since the request.     *)
IsCurrent(r) ==
    IF r.status = 400 THEN r.url = "noaddress" \/ r.before = 0
    ELSE CASE r.url = "statistics" ->
                  \E k \in r.before .. Len(blocks_found) :
                      r.total = Sum(blocks_found, 1 .. k)
           [] r.url = "blocks" -> r.rows \in r.before .. Len(blocks_found)
           [] r.url = "address" -> r.rows = 1
           [] r.url = "voters" -> r.rows = Sum(proofs, Proof)
           [] r.url = "payments" -> r.rows \in r.before .. payments
           [] OTHER -> TRUE

(* Lines 295-299, 720, 576 and 833: a reply shows the documents as they    *)
(* were at one moment between the request and the reply, unless a call     *)
(* failed or documents went away meanwhile, and an error is sent only when *)
(* there was nothing to show.                                              *)
RepliesAreCurrent ==
    \A c \in Connection :
        call[c].step = "answered" /\ ~call[c].touched => IsCurrent(call[c])

(* Lines 883-1020: every path of a GET queues exactly one response before  *)
(* it returns MHD_YES, and none before it returns MHD_NO.                  *)
AnsweredExactlyOnce ==
    \A c \in Connection :
        call[c].answers = IF call[c].step \in {"sending", "answered"} THEN 1 ELSE 0

(* Lines 911-921, 172-188 and 57-62: when a request is over, its post      *)
(* processor has been destroyed and its file closed, once, however the     *)
(* request ended.                                                          *)
ConnectionsRelease ==
    \A c \in Connection :
        IF call[c].step = "idle"
        THEN ~settings[c] /\ processors[c] = 0 /\ files[c] = 0
        ELSE settings[c] = (processors[c] = 1)

(* main, lines 306-320: no thread of a connection is left when the client  *)
(* is destroyed, and none starts before it is there.                       *)
ClientOutlivesRequests ==
    \A c \in Connection : call[c].step # "idle" => client = "open"

(* main, lines 161-303: when the timers run there is one document of the   *)
(* statistics, over all the starts, unless one of them met a failure or    *)
(* the test data was added where there was a document already.             *)
OneStatisticsDocument ==
    timers # {} => badStart \/ statistics = 1

(* A GET is answered, or refused, however the collections change; only     *)
(* undefined behaviour or the end of the process can keep it from that.    *)
GetsAreAnswered ==
    \A c \in Connection :
        call[c].step = "called" /\ call[c].method = "GET" ~>
            \/ call[c].step \in {"answered", "refused", "idle"}
            \/ undefined # "nobody"
==============================================================================
