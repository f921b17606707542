-------------------------- MODULE WebServer_proofs --------------------------
(***************************************************************************)
(* What holds of the website for any number of connections and requests,   *)
(* however the collections change and whatever fails.                      *)
(***************************************************************************)
EXTENDS WebServer, Sums_proofs

Fields == {"step", "method", "url", "parts", "slots", "count", "rows", "at",
           "now", "total", "status", "answers", "before", "touched"}

(* The record of a call has its fields, and counts its replies.            *)
IsCall(r) ==
    /\ DOMAIN r = Fields
    /\ r.answers = IF r.step \in {"sending", "answered"} THEN 1 ELSE 0

(* What is held for a connection, and how long main waits for it.          *)
ConnectionOK(c) ==
    /\ IsCall(call[c])
    /\ files[c] = IF call[c].step = "sending" THEN 1 ELSE 0
    /\ processors[c] = IF settings[c] THEN 1 ELSE 0
    /\ call[c].step = "idle" => ~settings[c]
    /\ call[c].step # "idle" => pc \in {"serving", "stopping"}

ConnectedSteps == {"address", "parameters", "count", "insert", "blocks",
                   "payments", "server", "serving", "stopping", "destroy"}

Domains ==
    /\ DOMAIN call = Connection /\ DOMAIN files = Connection
    /\ DOMAIN processors = Connection
    /\ settings \in [Connection -> BOOLEAN]

CInv ==
    /\ Domains
    /\ \A c \in Connection : ConnectionOK(c)
    /\ pc \in ConnectedSteps => client = "open"

-----------------------------------------------------------------------------
LEMMA NoCallIsCall == IsCall(NoCall) /\ NoCall.step = "idle"
  BY DEF IsCall, NoCall, Fields

LEMMA InitInv == Init => CInv
<1> SUFFICES ASSUME Init PROVE CInv
  OBVIOUS
<1>1. Domains
  BY DEF Init, Domains
<1>2. ASSUME NEW c \in Connection PROVE ConnectionOK(c)
  BY NoCallIsCall DEF Init, ConnectionOK
<1> QED
  BY <1>1, <1>2 DEF Init, CInv, ConnectedSteps

(* A record that a step between the arrival and the reply leaves.          *)
Between(r) == IsCall(r) /\ r.step \notin {"idle", "sending"}

LEMMA StepKeeps ==
  ASSUME CInv, NEW c \in Connection, NEW r, Between(r), Rest,
         Only(c, r) \/ Undefined(c, r),
         call[c].step \notin {"idle", "sending"}
  PROVE  CInv'
<1>1. /\ call' = [call EXCEPT ![c] = r]
      /\ UNCHANGED <<settings, processors, files, pc, client>>
  BY DEF Only, Undefined, Go, Rest, main
<1>2. Domains'
  BY <1>1 DEF CInv, Domains
<1>3. ASSUME NEW b \in Connection PROVE ConnectionOK(b)'
  <2>1. CASE b = c
    <3>1. call'[c] = r
      BY <1>1 DEF CInv, Domains
    <3> QED
      BY <1>1, <2>1, <3>1 DEF CInv, ConnectionOK, IsCall, Between
  <2>2. CASE b # c
    <3>1. call'[b] = call[b]
      BY <1>1, <2>2 DEF CInv, Domains
    <3> QED
      BY <1>1, <3>1 DEF CInv, ConnectionOK, IsCall
  <2> QED
    BY <2>1, <2>2
<1> QED
  BY <1>1, <1>2, <1>3 DEF CInv, ConnectedSteps

LEMMA ReplyIsBetween ==
  ASSUME NEW r, DOMAIN r = Fields, r.answers = 0, NEW s
  PROVE  Between(Reply(r, s))
  BY DEF Between, IsCall, Fields, Reply

(* The next call of a handler that is under way.                           *)
Working(c) == call[c].step \notin {"idle", "sending", "answered"}

LEMMA WorkingCall ==
  ASSUME CInv, NEW c \in Connection, Working(c)
  PROVE  /\ DOMAIN call[c] = Fields /\ call[c].answers = 0
         /\ call[c].step \notin {"idle", "sending"}
  BY DEF CInv, ConnectionOK, IsCall, Working

(* A record that differs from the call's in its step and its numbers only. *)
Moved(r) == /\ DOMAIN r = Fields /\ r.answers = 0
            /\ r.step \notin {"idle", "sending", "answered"}

LEMMA MovedIsBetween == ASSUME NEW r, Moved(r) PROVE Between(r)
  BY DEF Moved, Between, IsCall

Gives(c) == \E r : Between(r) /\ (Only(c, r) \/ Undefined(c, r))

LEMMA GivesKeeps ==
  ASSUME CInv, NEW c \in Connection, Rest, Gives(c), Working(c)
  PROVE  CInv'
<1>1. PICK r : Between(r) /\ (Only(c, r) \/ Undefined(c, r))
  BY DEF Gives
<1> QED
  BY <1>1, StepKeeps DEF Working

LEMMA OtherMethodKeeps ==
  ASSUME CInv, NEW c \in Connection, OtherMethod(c) PROVE CInv'
<1> DEFINE r == [call[c] EXCEPT !.step = "refused"]
<1>1. Working(c) /\ Only(c, r) /\ Rest
  BY DEF OtherMethod, Working
<1>2. Moved(r)
  BY <1>1, WorkingCall DEF Moved, Fields
<1>3. Gives(c)
  BY <1>1, <1>2, MovedIsBetween DEF Gives
<1> QED
  BY <1>1, <1>3, GivesKeeps

LEMMA CountBlocksKeeps ==
  ASSUME CInv, NEW c \in Connection, CountBlocks(c) PROVE CInv'
<1>1. Working(c) /\ Rest
  BY DEF CountBlocks, Working
<1>2. PICK n \in Counts(Len(blocks_found)) :
        LET r    == Counted(call[c], n, Len(blocks_found))
            next == IF r.url = "blocks" THEN "read" ELSE "statistics"
        IN  IF Allocated(r) > Capacity THEN Undefined(c, r)
            ELSE Only(c, [r EXCEPT !.step = next])
  BY DEF CountBlocks
<1> DEFINE r == Counted(call[c], n, Len(blocks_found))
           next == IF r.url = "blocks" THEN "read" ELSE "statistics"
           s == [r EXCEPT !.step = next]
<1>3. Moved(r)
  BY <1>1, WorkingCall DEF Moved, Fields, Counted, Working
<1>4. Moved(s)
  <2> HIDE DEF r
  <2> QED BY <1>3 DEF Moved, Fields
<1>5. Undefined(c, r) \/ Only(c, s)
  BY <1>2
<1>6. Gives(c)
  <2> HIDE DEF r, s
  <2> QED BY <1>3, <1>4, <1>5, MovedIsBetween DEF Gives
<1> QED
  BY <1>1, <1>6, GivesKeeps

LEMMA PostPartKeeps ==
  ASSUME CInv, NEW c \in Connection, PostPart(c) PROVE CInv'
<1> DEFINE more == [call[c] EXCEPT !.parts = Tail(@)]
           over == [call[c] EXCEPT !.parts = << >>]
           slot == [more EXCEPT !.slots = @ + 1]
<1>1. Working(c) /\ Rest
  BY DEF PostPart, Working
<1>2. Moved(call[c]) /\ Moved(more) /\ Moved(over)
  BY <1>1, WorkingCall DEF Moved, Fields, Working
<1>3. Moved(slot)
  <2> HIDE DEF more
  <2> QED BY <1>2 DEF Moved, Fields
<1>4. \E r \in {more, over, slot, call[c]} : Only(c, r) \/ Undefined(c, r)
  BY DEF PostPart
<1>5. Gives(c)
  <2> HIDE DEF more, over, slot
  <2> QED BY <1>2, <1>3, <1>4, MovedIsBetween DEF Gives
<1> QED
  BY <1>1, <1>5, GivesKeeps

LEMMA PostEndsKeeps ==
  ASSUME CInv, NEW c \in Connection, PostEnds(c) PROVE CInv'
<1>1. Working(c) /\ Rest
  BY DEF PostEnds, Working
<1>2. PICK s \in {"waiting", "refused"} : Only(c, [call[c] EXCEPT !.step = s])
  BY DEF PostEnds
<1>3. Moved([call[c] EXCEPT !.step = s])
  BY <1>1, WorkingCall DEF Moved, Fields
<1>4. Gives(c)
  BY <1>2, <1>3, MovedIsBetween DEF Gives
<1> QED
  BY <1>1, <1>4, GivesKeeps

LEMMA ClientGivesUpKeeps ==
  ASSUME CInv, NEW c \in Connection, ClientGivesUp(c) PROVE CInv'
<1> DEFINE r == [call[c] EXCEPT !.step = "refused"]
<1>1. Working(c) /\ Only(c, r) /\ Rest
  BY DEF ClientGivesUp, Working
<1>2. Moved(r)
  BY <1>1, WorkingCall DEF Moved, Fields
<1>3. Gives(c)
  BY <1>1, <1>2, MovedIsBetween DEF Gives
<1> QED
  BY <1>1, <1>3, GivesKeeps

LEMMA DispatchKeeps ==
  ASSUME CInv, NEW c \in Connection, Dispatch(c) PROVE CInv'
<1> DEFINE r == [call[c] EXCEPT !.step = FirstStep[call[c].url]]
           s == Reply(call[c], 400)
<1>1. Working(c) /\ Rest
  BY DEF Dispatch, Working
<1>2. call[c].url \in DOMAIN FirstStep => Moved(r)
  <2>1. SUFFICES ASSUME call[c].url \in DOMAIN FirstStep PROVE Moved(r)
    OBVIOUS
  <2>2. FirstStep[call[c].url] \in {"count", "votes"}
    BY <2>1 DEF FirstStep
  <2> QED
    BY <1>1, <2>2, WorkingCall DEF Moved, Fields
<1>3. Between(s)
  BY <1>1, WorkingCall, ReplyIsBetween
<1>4. (call[c].url \in DOMAIN FirstStep /\ Only(c, r)) \/ Only(c, s)
  BY DEF Dispatch
<1>5. Gives(c)
  <2> HIDE DEF r, s
  <2> QED BY <1>2, <1>3, <1>4, MovedIsBetween DEF Gives
<1> QED
  BY <1>1, <1>5, GivesKeeps

LEMMA OutOfMemoryKeeps ==
  ASSUME CInv, NEW c \in Connection, OutOfMemory(c) PROVE CInv'
<1> DEFINE refused == [call[c] EXCEPT !.step = "refused"]
           starved == [call[c] EXCEPT !.step = "starved"]
           touched == [call[c] EXCEPT !.touched = TRUE]
<1>1. Working(c) /\ Rest
  BY DEF OutOfMemory, Working
<1>2. Moved(refused) /\ Moved(starved) /\ Moved(touched)
  BY <1>1, WorkingCall DEF Moved, Fields, Working
<1>3. \/ Only(c, refused) \/ Undefined(c, starved)
      \/ Only(c, Reply(touched, 400))
  BY DEF OutOfMemory, PageWithoutMemory
<1>4. Gives(c)
  <2> HIDE DEF refused, starved, touched
  <2>1. Between(Reply(touched, 400))
    BY <1>2, ReplyIsBetween DEF Moved
  <2> QED BY <1>2, <1>3, <2>1, MovedIsBetween DEF Gives
<1> QED
  BY <1>1, <1>4, GivesKeeps

LEMMA ReadStatisticsKeeps ==
  ASSUME CInv, NEW c \in Connection, ReadStatistics(c) PROVE CInv'
<1> DEFINE r == [call[c] EXCEPT !.step = "read"]
           touched == [call[c] EXCEPT !.touched = TRUE]
<1>1. Working(c) /\ Rest
  BY DEF ReadStatistics, Working
<1>2. Moved(call[c]) /\ Moved(r) /\ Moved(touched)
  BY <1>1, WorkingCall DEF Moved, Fields, Working
<1>3. Only(c, r) \/ Undefined(c, call[c]) \/ Undefined(c, touched)
  BY DEF ReadStatistics
<1>4. Gives(c)
  <2> HIDE DEF r, touched
  <2> QED BY <1>2, <1>3, MovedIsBetween DEF Gives
<1> QED
  BY <1>1, <1>4, GivesKeeps

LEMMA ReadBlocksKeeps ==
  ASSUME CInv, NEW c \in Connection, ReadBlocks(c) PROVE CInv'
<1>1. Working(c) /\ Rest
  BY DEF ReadBlocks, Working
<1>2. PICK k \in ReadRows(Len(blocks_found), call[c].count) :
        LET r == [call[c] EXCEPT !.rows = k, !.touched = @ \/ k < call[c].before]
        IN  \/ Only(c, Reply(r, 400))
            \/ Undefined(c, r)
            \/ Only(c, [r EXCEPT !.step = "paid", !.total = SumOfRows(k, r.count)])
            \/ Only(c, [r EXCEPT !.step = "totals"])
  BY DEF ReadBlocks
<1> DEFINE r == [call[c] EXCEPT !.rows = k, !.touched = @ \/ k < call[c].before]
           paidFor == [r EXCEPT !.step = "paid", !.total = SumOfRows(k, r.count)]
           totals == [r EXCEPT !.step = "totals"]
<1>3. Moved(r)
  BY <1>1, WorkingCall DEF Moved, Fields, Working
<1>4. Moved(paidFor) /\ Moved(totals) /\ Between(Reply(r, 400))
  <2> HIDE DEF r
  <2>1. Moved(totals)
    BY <1>3 DEF Moved, Fields
  <2>2. \A n : Moved([r EXCEPT !.step = "paid", !.total = n])
    BY <1>3 DEF Moved, Fields
  <2> QED BY <1>3, <2>1, <2>2, ReplyIsBetween DEF Moved
<1>5. \/ Only(c, Reply(r, 400)) \/ Undefined(c, r)
      \/ Only(c, paidFor) \/ Only(c, totals)
  BY <1>2
<1>6. Gives(c)
  <2> HIDE DEF r, paidFor, totals
  <2> QED BY <1>3, <1>4, <1>5, MovedIsBetween DEF Gives
<1> QED
  BY <1>1, <1>6, GivesKeeps

LEMMA CountPaymentsKeeps ==
  ASSUME CInv, NEW c \in Connection, CountPayments(c) PROVE CInv'
<1> DEFINE r == [call[c] EXCEPT !.step = "votes"]
<1>1. Working(c) /\ Only(c, r) /\ Rest
  BY DEF CountPayments, Working
<1>2. Moved(r)
  BY <1>1, WorkingCall DEF Moved, Fields
<1>3. Gives(c)
  BY <1>1, <1>2, MovedIsBetween DEF Gives
<1> QED
  BY <1>1, <1>3, GivesKeeps

LEMMA CountVotesKeeps ==
  ASSUME CInv, NEW c \in Connection, CountVotes(c) PROVE CInv'
<1>1. Working(c) /\ Rest
  BY DEF CountVotes, Working
<1>2. PICK n \in Counts(proofs[call[c].at]) :
        LET r == [call[c] EXCEPT !.now = @ + n]
        IN  Only(c, IF r.at = Collections THEN Reply(r, 200)
                    ELSE [r EXCEPT !.at = @ + 1])
  BY DEF CountVotes
<1> DEFINE r == [call[c] EXCEPT !.now = @ + n]
           next == [r EXCEPT !.at = @ + 1]
<1>3. Moved(r)
  BY <1>1, WorkingCall DEF Moved, Fields, Working
<1>4. Moved(next) /\ Between(Reply(r, 200))
  <2> HIDE DEF r
  <2>1. Moved(next)
    BY <1>3 DEF Moved, Fields
  <2> QED BY <1>3, <2>1, ReplyIsBetween DEF Moved
<1>5. Only(c, Reply(r, 200)) \/ Only(c, next)
  BY <1>2
<1>6. Gives(c)
  <2> HIDE DEF r, next
  <2> QED BY <1>4, <1>5, MovedIsBetween DEF Gives
<1> QED
  BY <1>1, <1>6, GivesKeeps

LEMMA ReadTotalsKeeps ==
  ASSUME CInv, NEW c \in Connection, ReadTotals(c) PROVE CInv'
<1>1. Working(c) /\ Rest
  BY DEF ReadTotals, Working
<1>2. Moved(call[c]) /\ Between(Reply(call[c], 200))
  BY <1>1, WorkingCall, ReplyIsBetween DEF Moved, Working
<1>3. Undefined(c, call[c]) \/ Only(c, Reply(call[c], 200))
  BY DEF ReadTotals
<1>4. Gives(c)
  BY <1>2, <1>3, MovedIsBetween DEF Gives
<1> QED
  BY <1>1, <1>4, GivesKeeps

LEMMA CountAddressKeeps ==
  ASSUME CInv, NEW c \in Connection, CountAddress(c) PROVE CInv'
<1> DEFINE there == IF listed THEN 1 ELSE 0
<1>1. Working(c) /\ Rest
  BY DEF CountAddress, Working
<1>2. PICK n \in Counts(there) :
        LET r == Counted(call[c], n, there)
        IN  Only(c, IF n <= 0 THEN Reply(r, 400) ELSE [r EXCEPT !.step = "rows"])
  BY DEF CountAddress
<1> DEFINE r == Counted(call[c], n, there)
           next == [r EXCEPT !.step = "rows"]
<1>3. Moved(r)
  BY <1>1, WorkingCall DEF Moved, Fields, Counted, Working
<1>4. Moved(next) /\ Between(Reply(r, 400))
  <2> HIDE DEF r
  <2>1. Moved(next)
    BY <1>3 DEF Moved, Fields
  <2> QED BY <1>3, <2>1, ReplyIsBetween DEF Moved
<1>5. Only(c, Reply(r, 400)) \/ Only(c, next)
  BY <1>2
<1>6. Gives(c)
  <2> HIDE DEF r, next
  <2> QED BY <1>4, <1>5, MovedIsBetween DEF Gives
<1> QED
  BY <1>1, <1>6, GivesKeeps

LEMMA ReadAddressKeeps ==
  ASSUME CInv, NEW c \in Connection, ReadAddress(c) PROVE CInv'
<1> DEFINE found == [call[c] EXCEPT !.rows = 1]
           touched == [call[c] EXCEPT !.touched = TRUE]
<1>1. Working(c) /\ Rest
  BY DEF ReadAddress, Working
<1>2. Moved(call[c]) /\ Moved(found) /\ Moved(touched)
  BY <1>1, WorkingCall DEF Moved, Fields, Working
<1>3. \E r \in {call[c], found, touched} : Only(c, Reply(r, 200))
  BY DEF ReadAddress
<1>4. Gives(c)
  <2> HIDE DEF found, touched
  <2>1. \A r \in {call[c], found, touched} : Between(Reply(r, 200))
    BY <1>2, ReplyIsBetween DEF Moved
  <2> QED BY <1>3, <2>1 DEF Gives
<1> QED
  BY <1>1, <1>4, GivesKeeps

LEMMA CountVotersKeeps ==
  ASSUME CInv, NEW c \in Connection, CountVoters(c) PROVE CInv'
<1>1. Working(c) /\ Rest
  BY DEF CountVoters, Working
<1> DEFINE R(n) == Counted(call[c], call[c].count + n,
                           call[c].before + proofs[call[c].at])
<1>2. PICK n \in Counts(proofs[call[c].at]) :
        \/ Only(c, Reply([R(n) EXCEPT !.touched = TRUE], 400))
        \/ Only(c, [R(n) EXCEPT !.at = @ + 1])
        \/ Only(c, Reply(R(n), 400))
        \/ Undefined(c, R(n))
        \/ Only(c, [R(n) EXCEPT !.step = "again", !.at = 1])
  BY ZenonT(60) DEF CountVoters
<1> DEFINE r == R(n)
           touched == [r EXCEPT !.touched = TRUE]
           next == [r EXCEPT !.at = @ + 1]
           again == [r EXCEPT !.step = "again", !.at = 1]
<1>3. Moved(r)
  BY <1>1, WorkingCall DEF Moved, Fields, Counted, Working
<1>4. /\ Moved(touched) /\ Moved(next) /\ Moved(again)
      /\ Between(Reply(r, 400)) /\ Between(Reply(touched, 400))
  <2> HIDE DEF r
  <2>1. Moved(touched) /\ Moved(next) /\ Moved(again)
    BY <1>3 DEF Moved, Fields
  <2> HIDE DEF touched, next, again
  <2> QED BY <1>3, <2>1, ReplyIsBetween DEF Moved
<1>5. \/ Only(c, Reply(touched, 400)) \/ Only(c, next) \/ Only(c, Reply(r, 400))
      \/ Undefined(c, r) \/ Only(c, again)
  BY <1>2
<1>6. Gives(c)
  <2> HIDE DEF r, touched, next, again
  <2> QED BY <1>3, <1>4, <1>5, MovedIsBetween DEF Gives
<1> QED
  BY <1>1, <1>6, GivesKeeps

LEMMA NextCollectionIsBetween ==
  ASSUME NEW r, Moved(r) PROVE Between(NextCollection(r))
<1>1. Moved([r EXCEPT !.step = "again", !.at = @ + 1])
  BY DEF Moved, Fields
<1>2. Between(Reply(r, 200))
  BY ReplyIsBetween DEF Moved
<1> QED
  BY <1>1, <1>2, MovedIsBetween DEF NextCollection

LEMMA CountAgainKeeps ==
  ASSUME CInv, NEW c \in Connection, CountAgain(c) PROVE CInv'
<1>1. Working(c) /\ Rest
  BY DEF CountAgain, Working
<1>2. PICK n \in Counts(proofs[call[c].at]) :
        LET r == [call[c] EXCEPT !.now = n, !.touched = @ \/ n < 0]
        IN  Only(c, IF n > 0 THEN [r EXCEPT !.step = "rows"]
                    ELSE NextCollection(r))
  BY DEF CountAgain
<1> DEFINE r == [call[c] EXCEPT !.now = n, !.touched = @ \/ n < 0]
           rows == [r EXCEPT !.step = "rows"]
<1>3. Moved(r)
  BY <1>1, WorkingCall DEF Moved, Fields, Working
<1>4. Moved(rows) /\ Between(NextCollection(r))
  <2> HIDE DEF r
  <2>1. Moved(rows)
    BY <1>3 DEF Moved, Fields
  <2> QED BY <1>3, <2>1, NextCollectionIsBetween
<1>5. Only(c, rows) \/ Only(c, NextCollection(r))
  BY <1>2
<1>6. Gives(c)
  <2> HIDE DEF r, rows
  <2> QED BY <1>4, <1>5, MovedIsBetween DEF Gives
<1> QED
  BY <1>1, <1>6, GivesKeeps

LEMMA ReadVotersKeeps ==
  ASSUME CInv, NEW c \in Connection, ReadVoters(c) PROVE CInv'
<1>1. Working(c) /\ Rest
  BY DEF ReadVoters, Working
<1> DEFINE R(k) == [call[c] EXCEPT !.rows = @ + k,
                                   !.touched = @ \/ k < call[c].now]
<1>2. PICK k \in ReadRows(proofs[call[c].at], call[c].now) :
        \/ Only(c, Reply(R(k), 400)) \/ Undefined(c, R(k))
        \/ Only(c, NextCollection(R(k)))
  BY DEF ReadVoters
<1> DEFINE r == R(k)
<1>3. Moved(r)
  BY <1>1, WorkingCall DEF Moved, Fields, Working
<1>4. Between(NextCollection(r)) /\ Between(Reply(r, 400))
  <2> HIDE DEF r
  <2> QED BY <1>3, NextCollectionIsBetween, ReplyIsBetween DEF Moved
<1>5. Gives(c)
  <2> HIDE DEF R
  <2> QED BY <1>2, <1>3, <1>4, MovedIsBetween DEF Gives
<1> QED
  BY <1>1, <1>5, GivesKeeps

LEMMA CountAddressPaymentsKeeps ==
  ASSUME CInv, NEW c \in Connection, CountAddressPayments(c) PROVE CInv'
<1>1. Working(c) /\ Rest
  BY DEF CountAddressPayments, Working
<1> DEFINE R(n) == Counted(call[c], n, payments)
<1>2. PICK n \in Counts(payments) :
        \/ Only(c, Reply(R(n), 400)) \/ Undefined(c, R(n))
        \/ Only(c, [R(n) EXCEPT !.step = "rows"])
  BY DEF CountAddressPayments
<1> DEFINE r == R(n)
           rows == [r EXCEPT !.step = "rows"]
<1>3. Moved(r)
  BY <1>1, WorkingCall DEF Moved, Fields, Counted, Working
<1>4. Moved(rows) /\ Between(Reply(r, 400))
  <2> HIDE DEF r
  <2>1. Moved(rows)
    BY <1>3 DEF Moved, Fields
  <2> QED BY <1>3, <2>1, ReplyIsBetween DEF Moved
<1>5. Gives(c)
  <2> HIDE DEF R
  <2> QED BY <1>2, <1>3, <1>4, MovedIsBetween DEF Gives
<1> QED
  BY <1>1, <1>5, GivesKeeps

LEMMA ReadPaymentsKeeps ==
  ASSUME CInv, NEW c \in Connection, ReadPayments(c) PROVE CInv'
<1>1. Working(c) /\ Rest
  BY DEF ReadPayments, Working
<1>2. PICK k \in ReadRows(payments, call[c].count) :
        LET r == [call[c] EXCEPT !.rows = k, !.touched = @ \/ k < call[c].count]
        IN  \/ k = 0 /\ Only(c, Reply(r, 400))
            \/ k > r.count /\ Undefined(c, r)
            \/ k \in 1 .. r.count /\ Only(c, Reply(r, 200))
  BY DEF ReadPayments
<1> DEFINE r == [call[c] EXCEPT !.rows = k, !.touched = @ \/ k < call[c].count]
<1>3. Moved(r)
  BY <1>1, WorkingCall DEF Moved, Fields, Working
<1>4. Between(Reply(r, 200)) /\ Between(Reply(r, 400))
  <2> HIDE DEF r
  <2> QED BY <1>3, ReplyIsBetween DEF Moved
<1>5. Only(c, Reply(r, 400)) \/ Undefined(c, r) \/ Only(c, Reply(r, 200))
  BY <1>2
<1>6. Gives(c)
  <2> HIDE DEF r
  <2> QED BY <1>3, <1>4, <1>5, MovedIsBetween DEF Gives
<1> QED
  BY <1>1, <1>6, GivesKeeps

-----------------------------------------------------------------------------
(* The steps that take or release something.                               *)

(* A step of one connection that main and the other connections do not     *)
(* notice.                                                                 *)
LEMMA OneConnection ==
  ASSUME CInv, NEW c \in Connection, UNCHANGED <<pc, client>>, Domains',
         ConnectionOK(c)',
         \A b \in Connection \ {c} :
            /\ call'[b] = call[b] /\ files'[b] = files[b]
            /\ settings'[b] = settings[b] /\ processors'[b] = processors[b]
  PROVE  CInv'
<1>1. ASSUME NEW b \in Connection \ {c} PROVE ConnectionOK(b)'
  BY <1>1 DEF CInv, ConnectionOK, IsCall
<1> QED
  BY <1>1 DEF CInv, ConnectedSteps

LEMMA PostBeginsKeeps ==
  ASSUME CInv, NEW c \in Connection, PostBegins(c) PROVE CInv'
<1>1. Working(c) /\ Rest /\ call[c].step = "called" /\ ~settings[c]
  BY DEF PostBegins, Working
<1>2. CASE /\ processors' = [processors EXCEPT ![c] = @ + 1]
           /\ settings' = [settings EXCEPT ![c] = TRUE]
           /\ UNCHANGED <<call, files, undefined>>
  <2>1. Domains' /\ UNCHANGED <<pc, client>>
    BY <1>1, <1>2 DEF CInv, Domains, Rest, main
  <2>2. settings'[c] /\ processors'[c] = processors[c] + 1
    BY <1>2 DEF CInv, Domains
  <2>3. ConnectionOK(c)'
    BY <1>1, <1>2, <2>1, <2>2 DEF CInv, ConnectionOK, IsCall
  <2>4. \A b \in Connection \ {c} :
           settings'[b] = settings[b] /\ processors'[b] = processors[b]
    BY <1>2 DEF CInv, Domains
  <2> QED
    BY <1>2, <2>1, <2>3, <2>4, OneConnection
<1> DEFINE r == [call[c] EXCEPT !.step = "refused"]
<1>3. CASE Only(c, r)
  <2>1. Moved(r)
    BY <1>1, WorkingCall DEF Moved, Fields
  <2>2. Gives(c)
    BY <1>3, <2>1, MovedIsBetween DEF Gives
  <2> QED
    BY <1>1, <2>2, GivesKeeps
<1> QED
  BY <1>2, <1>3 DEF PostBegins

LEMMA RequestCompletedKeeps ==
  ASSUME CInv, NEW c \in Connection, RequestCompleted(c) PROVE CInv'
<1>1. Rest /\ call[c].step \in {"answered", "refused"}
  BY DEF RequestCompleted
<1>2. call' = [call EXCEPT ![c] = NoCall] /\ UNCHANGED files
  BY DEF RequestCompleted, Go
<1>3. Domains' /\ UNCHANGED <<pc, client>>
  BY <1>1, <1>2 DEF CInv, Domains, Rest, main, RequestCompleted
<1>4. call'[c] = NoCall
  BY <1>2 DEF CInv, Domains
<1>5. ~settings'[c] /\ processors'[c] = 0
  BY DEF RequestCompleted, CInv, Domains, ConnectionOK
<1>6. files'[c] = 0
  BY <1>1, <1>2 DEF CInv, ConnectionOK
<1>7. ConnectionOK(c)'
  BY <1>4, <1>5, <1>6, NoCallIsCall DEF ConnectionOK, IsCall
<1>8. \A b \in Connection \ {c} :
         /\ call'[b] = call[b] /\ files'[b] = files[b]
         /\ settings'[b] = settings[b] /\ processors'[b] = processors[b]
  BY <1>2 DEF CInv, Domains, RequestCompleted
<1> QED
  BY <1>3, <1>7, <1>8, OneConnection

LEMMA OpenFileKeeps ==
  ASSUME CInv, NEW c \in Connection, OpenFile(c) PROVE CInv'
<1> DEFINE sending == [Reply(call[c], 200) EXCEPT !.step = "sending"]
           refused == [call[c] EXCEPT !.step = "refused"]
<1>1. Working(c) /\ Rest /\ call[c].step = "called"
  BY DEF OpenFile, Working
<1>2. CASE /\ files' = [files EXCEPT ![c] = @ + 1]
           /\ Go(c, sending)
           /\ UNCHANGED <<settings, processors, undefined>>
  <2>1. call' = [call EXCEPT ![c] = sending]
    BY <1>2 DEF Go
  <2>2. Domains' /\ UNCHANGED <<pc, client>>
    BY <1>1, <1>2, <2>1 DEF CInv, Domains, Rest, main
  <2>3. call'[c] = sending
    BY <2>1 DEF CInv, Domains
  <2>4. IsCall(sending) /\ sending.step = "sending"
    BY <1>1, WorkingCall DEF IsCall, Fields, Reply
  <2>5. files'[c] = 1
    BY <1>1, <1>2 DEF CInv, Domains, ConnectionOK
  <2>6. ConnectionOK(c)'
    <3> HIDE DEF sending
    <3> QED
      BY <1>1, <1>2, <2>2, <2>3, <2>4, <2>5 DEF CInv, ConnectionOK, IsCall
  <2>7. \A b \in Connection \ {c} : call'[b] = call[b] /\ files'[b] = files[b]
    BY <1>2, <2>1 DEF CInv, Domains
  <2> QED
    BY <1>2, <2>2, <2>6, <2>7, OneConnection
<1>3. CASE Undefined(c, call[c]) \/ Only(c, refused)
  <2>1. Moved(call[c]) /\ Moved(refused)
    BY <1>1, WorkingCall DEF Moved, Fields, Working
  <2>2. Gives(c)
    BY <1>3, <2>1, MovedIsBetween DEF Gives
  <2> QED
    BY <1>1, <2>2, GivesKeeps
<1> QED
  BY <1>2, <1>3 DEF OpenFile

LEMMA SendFileKeeps ==
  ASSUME CInv, NEW c \in Connection, SendFile(c) PROVE CInv'
<1> DEFINE answered == [call[c] EXCEPT !.step = "answered"]
<1>1. /\ Rest /\ call[c].step = "sending"
      /\ files' = [files EXCEPT ![c] = @ - 1]
      /\ call' = [call EXCEPT ![c] = answered]
      /\ UNCHANGED <<settings, processors, undefined>>
  BY DEF SendFile, Go
<1>2. Domains' /\ UNCHANGED <<pc, client>>
  BY <1>1 DEF CInv, Domains, Rest, main
<1>3. call'[c] = answered /\ IsCall(answered) /\ answered.step = "answered"
  BY <1>1 DEF CInv, Domains, ConnectionOK, IsCall, Fields
<1>4. files'[c] = 0
  BY <1>1 DEF CInv, Domains, ConnectionOK
<1>5. ConnectionOK(c)'
  <2> HIDE DEF answered
  <2> QED BY <1>1, <1>2, <1>3, <1>4 DEF CInv, ConnectionOK, IsCall
<1>6. \A b \in Connection \ {c} : call'[b] = call[b] /\ files'[b] = files[b]
  BY <1>1 DEF CInv, Domains
<1> QED
  BY <1>1, <1>2, <1>5, <1>6, OneConnection

LEMMA RequestArrivesKeeps ==
  ASSUME CInv, NEW c \in Connection, RequestArrives(c) PROVE CInv'
<1>1. /\ pc = "serving" /\ call[c].step = "idle"
      /\ UNCHANGED <<pc, client, settings, processors, files>>
  BY DEF RequestArrives, main
<1>2. PICK q \in Requests :
        call' = [call EXCEPT ![c] =
                   [NoCall EXCEPT !.step = "called", !.method = q.method,
                                  !.url = q.url, !.parts = q.parts]]
  BY DEF RequestArrives, Go
<1> DEFINE r == [NoCall EXCEPT !.step = "called", !.method = q.method,
                               !.url = q.url, !.parts = q.parts]
<1>3. IsCall(r) /\ r.step = "called"
  BY DEF IsCall, Fields, NoCall
<1>4. call'[c] = r
  BY <1>2 DEF CInv, Domains
<1>5. Domains'
  BY <1>1, <1>2 DEF CInv, Domains
<1>6. ConnectionOK(c)'
  <2> HIDE DEF r
  <2> QED BY <1>1, <1>3, <1>4 DEF CInv, ConnectionOK, IsCall
<1>7. \A b \in Connection \ {c} : call'[b] = call[b]
  BY <1>2 DEF CInv, Domains
<1> QED
  BY <1>1, <1>5, <1>6, <1>7, OneConnection

LEMMA HandleKeeps ==
  ASSUME CInv, NEW c \in Connection, Handle(c) \/ Client(c) PROVE CInv'
  BY OtherMethodKeeps, PostBeginsKeeps, PostPartKeeps, PostEndsKeeps,
     ClientGivesUpKeeps, RequestCompletedKeeps, DispatchKeeps,
     OutOfMemoryKeeps, OpenFileKeeps, SendFileKeeps, CountBlocksKeeps,
     ReadStatisticsKeeps, ReadBlocksKeeps, CountPaymentsKeeps,
     CountVotesKeeps, ReadTotalsKeeps, CountAddressKeeps, ReadAddressKeeps,
     CountVotersKeeps, CountAgainKeeps, ReadVotersKeeps,
     CountAddressPaymentsKeeps, ReadPaymentsKeeps, RequestArrivesKeeps
     DEF Handle, Client

-----------------------------------------------------------------------------
(* The timers and the other programs, and main.                            *)

LEMMA DisturbKeeps ==
  ASSUME CInv, NEW url, Disturb(url),
         UNCHANGED <<pc, client, settings, processors, files>>
  PROVE  CInv'
<1>1. Domains'
  BY DEF Disturb, CInv, Domains
<1>2. ASSUME NEW b \in Connection PROVE ConnectionOK(b)'
  <2>1. call'[b] = [call[b] EXCEPT !.touched = @ \/ call[b].url = url]
    BY DEF Disturb
  <2>2. /\ DOMAIN call'[b] = Fields /\ call'[b].step = call[b].step
        /\ call'[b].answers = call[b].answers
    BY <2>1 DEF CInv, ConnectionOK, IsCall, Fields
  <2> QED
    BY <2>2 DEF CInv, ConnectionOK, IsCall
<1> QED
  BY <1>1, <1>2 DEF CInv, ConnectedSteps

(* What the website holds is as before.                                    *)
LEMMA WebUnchanged ==
  ASSUME CInv, UNCHANGED <<call, settings, processors, files>>,
         \A c \in Connection :
            call[c].step # "idle" => pc' \in {"serving", "stopping"},
         pc' \in ConnectedSteps => client' = "open"
  PROVE  CInv'
<1>1. Domains'
  BY DEF CInv, Domains
<1>2. ASSUME NEW b \in Connection PROVE ConnectionOK(b)'
  BY DEF CInv, ConnectionOK, IsCall
<1> QED
  BY <1>1, <1>2 DEF CInv

LEMMA OthersKeep == ASSUME CInv, Others PROVE CInv'
<1>1. CASE BlockFound \/ PaymentMade \/ TimerWithoutClient
  <2>1. UNCHANGED <<pc, client, call, settings, processors, files>>
    BY <1>1 DEF BlockFound, PaymentMade, TimerWithoutClient, main, web
  <2> QED
    BY <2>1, WebUnchanged DEF CInv, ConnectionOK
<1>2. CASE AddressChanges
  <2>1. Disturb("address") /\ UNCHANGED <<pc, client, settings, processors, files>>
    BY <1>2 DEF AddressChanges, main
  <2> QED
    BY <2>1, DisturbKeeps
<1>3. ASSUME NEW i \in Proof, VoteChanges(i) PROVE CInv'
  <2>1. Disturb("voters") /\ UNCHANGED <<pc, client, settings, processors, files>>
    BY <1>3 DEF VoteChanges, main
  <2> QED
    BY <2>1, DisturbKeeps
<1> QED
  BY <1>1, <1>2, <1>3 DEF Others

LEMMA ExitKeeps == ASSUME CInv, Exit PROVE CInv'
<1>1. Domains'
  BY DEF Exit, Domains
<1>2. ASSUME NEW b \in Connection PROVE ConnectionOK(b)'
  BY NoCallIsCall DEF Exit, ConnectionOK, IsCall
<1> QED
  BY <1>1, <1>2 DEF CInv, Exit, ConnectedSteps

(* While main is at another step no connection is at work.                 *)
LEMMA NobodyAtWork ==
  ASSUME CInv, pc \notin {"serving", "stopping"}, NEW c \in Connection
  PROVE  call[c].step = "idle"
  BY DEF CInv, ConnectionOK

LEMMA MainKeeps == ASSUME CInv, Main PROVE CInv'
<1>1. CASE Exit
  BY <1>1, ExitKeeps
<1>2. CASE \/ StartProgram \/ CountStatistics \/ InsertStatistics
           \/ ReadParameters \/ DestroyClient
  <2>1. /\ pc \notin {"serving", "stopping"}
        /\ UNCHANGED <<call, settings, processors, files>>
    BY <1>2 DEF StartProgram, CountStatistics, InsertStatistics,
                ReadParameters, DestroyClient, web
  <2>2. pc' \in ConnectedSteps => client' = "open"
    BY <1>2 DEF StartProgram, CountStatistics, InsertStatistics,
                ReadParameters, DestroyClient, CInv, ConnectedSteps
  <2> QED
    BY <2>1, <2>2, NobodyAtWork, WebUnchanged
<1>3. CASE (Connect \/ GetAddress \/ StartBlockTimer \/ StartPaymentTimer) /\ ~Exit
  <2>1. /\ pc \notin {"serving", "stopping"}
        /\ UNCHANGED <<call, settings, processors, files>>
    BY <1>3 DEF Connect, GetAddress, StartBlockTimer, StartPaymentTimer,
                StartThread, Gone, web
  <2>2. pc' \in ConnectedSteps => client' = "open"
    BY <1>3 DEF Connect, GetAddress, StartBlockTimer, StartPaymentTimer,
                StartThread, Gone, CInv, ConnectedSteps
  <2> QED
    BY <2>1, <2>2, NobodyAtWork, WebUnchanged
<1>4. CASE StartServer
  <2>1. pc = "server" /\ UNCHANGED <<call, settings, processors, files>>
    BY <1>4 DEF StartServer, web
  <2>2. pc' \in ConnectedSteps => client' = "open"
    BY <1>4 DEF StartServer, CInv, ConnectedSteps
  <2> QED
    BY <2>1, <2>2, NobodyAtWork, WebUnchanged
<1>5. CASE KeyPressed
  BY <1>5, WebUnchanged DEF KeyPressed, web, CInv, ConnectedSteps
<1>6. CASE ServerStopped
  BY <1>6, WebUnchanged DEF ServerStopped, web, CInv, ConnectedSteps
<1> QED
  BY <1>1, <1>2, <1>3, <1>4, <1>5, <1>6
     DEF Main, InvalidParameters, AddTestData, RemoveTestData, Cleanup, Gone

LEMMA NextKeeps == CInv /\ [Next]_vars => CInv'
<1>1. ASSUME CInv, UNCHANGED vars PROVE CInv'
  BY <1>1, WebUnchanged DEF vars, CInv, ConnectionOK
<1> QED
  BY <1>1, MainKeeps, OthersKeep, HandleKeeps DEF Next

THEOREM Invariant == Spec => []CInv
<1>1. Init => CInv
  BY InitInv
<1>2. CInv /\ [Next]_vars => CInv'
  BY NextKeeps
<1> QED BY <1>1, <1>2, PTL DEF Spec

(* Lines 883-1020: one response for each GET that returns MHD_YES.         *)
THEOREM EachRequestAnsweredOnce == Spec => []AnsweredExactlyOnce
<1>1. CInv => AnsweredExactlyOnce
  BY DEF CInv, ConnectionOK, IsCall, AnsweredExactlyOnce
<1> QED BY <1>1, Invariant, PTL

(* Lines 911-921, 172-188 and 57-62: post processors and files are         *)
(* released once.                                                          *)
THEOREM EverythingReleased == Spec => []ConnectionsRelease
<1>1. CInv => ConnectionsRelease
  BY DEF CInv, Domains, ConnectionOK, ConnectionsRelease
<1> QED BY <1>1, Invariant, PTL

(* main, lines 306-320: no request is left when the client is destroyed.   *)
THEOREM NoRequestWithoutClient == Spec => []ClientOutlivesRequests
<1>1. CInv => ClientOutlivesRequests
  BY DEF CInv, ConnectionOK, ConnectedSteps, ClientOutlivesRequests
<1> QED BY <1>1, Invariant, PTL

-----------------------------------------------------------------------------
(* The statistics over the starts of the program.                          *)

RunningSteps == {"blocks", "payments", "server", "serving", "stopping",
                 "destroy", "cleanup"}

SInv ==
    /\ statistics \in Nat
    /\ ~badStart => statistics <= 1
    /\ pc = "insert" /\ ~badStart => statistics = 0
    /\ pc \in RunningSteps /\ ~badStart => statistics = 1
    /\ timers # {} => pc \in RunningSteps

LEMMA MaxWithZero ==
  ASSUME NEW n \in Int
  PROVE  Max({0, n}) \in Nat /\ (n <= 1 => Max({0, n}) <= 1)
<1>1. \E m \in {0, n} : \A k \in {0, n} : m >= k
  OBVIOUS
<1>2. Max({0, n}) \in {0, n} /\ \A k \in {0, n} : Max({0, n}) >= k
  BY <1>1 DEF Max
<1> QED
  BY <1>2

LEMMA WrittenOnce == Written(1) \subseteq {0, 1}
  BY DEF Written

LEMMA SInvInit ==
  ASSUME \A d \in Contents : d.statistics <= 1
  PROVE  Init => SInv
  BY WebServerAssumption DEF WebServerAssumption, Init, SInv, RunningSteps

LEMMA SInvMain == ASSUME SInv, Main PROVE SInv'
<1>1. CASE Exit /\ UNCHANGED <<statistics, badStart>>
  BY <1>1 DEF Exit, SInv, RunningSteps
<1>2. CASE AddTestData
  <2>1. PICK n \in Written(1) : /\ statistics' = statistics + n
                                /\ badStart' = (badStart \/ statistics + n > 1)
    BY <1>2 DEF AddTestData
  <2>2. statistics' \in Nat
    BY <2>1, WrittenOnce DEF SInv
  <2>3. ~badStart' => statistics' <= 1
    <3>1. statistics + n > 1 => badStart'
      BY <2>1, Zenon
    <3> QED
      BY <3>1, <2>1, <2>2
  <2> QED
    BY <1>2, <2>2, <2>3 DEF AddTestData, Exit, SInv, RunningSteps
<1>3. CASE RemoveTestData
  <2>1. PICK n \in Written(1) : statistics' = Max({0, statistics - n})
    BY <1>3 DEF RemoveTestData
  <2>2. n \in {0, 1} /\ statistics - n \in Int
    BY WrittenOnce DEF SInv
  <2>3. statistics' \in Nat /\ (statistics - n <= 1 => statistics' <= 1)
    BY <2>1, <2>2, MaxWithZero
  <2>4. UNCHANGED badStart /\ pc' = "gone" /\ timers' = {}
    BY <1>3 DEF RemoveTestData, Exit
  <2>5. ~badStart' => statistics' <= 1
    BY <2>2, <2>3, <2>4 DEF SInv
  <2> QED
    BY <2>3, <2>4, <2>5 DEF SInv, RunningSteps
<1>4. CASE CountStatistics
  <2>1. PICK n \in Counts(statistics) :
           /\ pc' = IF n <= 0 THEN "insert" ELSE "blocks"
           /\ badStart' = (badStart \/ n < 0)
    BY <1>4 DEF CountStatistics
  <2>2. n = statistics \/ n = -1
    BY DEF Counts
  <2>3. UNCHANGED <<statistics, timers>> /\ pc = "count"
    BY <1>4 DEF CountStatistics, collections
  <2>4. ~badStart' => ~badStart /\ ~(n < 0)
    BY <2>1, Zenon
  <2>5. n \in Int /\ statistics \in Nat
    BY <2>2 DEF SInv
  <2>6. ~badStart' => statistics' <= 1 /\ n = statistics
    BY <2>2, <2>3, <2>4 DEF SInv
  <2>7. timers' = {}
    BY <2>3 DEF SInv, RunningSteps
  <2>8. pc' = "insert" => n <= 0
    BY <2>1
  <2>9. pc' # "insert" => n > 0 /\ pc' = "blocks"
    BY <2>1, <2>5
  <2>10. pc' = "insert" /\ ~badStart' => statistics' = 0
    BY <2>3, <2>5, <2>6, <2>8
  <2>11. pc' \in RunningSteps /\ ~badStart' => statistics' = 1
    BY <2>3, <2>5, <2>6, <2>9, <2>1 DEF RunningSteps
  <2> QED
    BY <2>3, <2>5, <2>6, <2>7, <2>10, <2>11 DEF SInv
<1>5. CASE InsertStatistics
  BY <1>5 DEF InsertStatistics, SInv, RunningSteps
<1>6. CASE \/ StartProgram \/ ReadParameters \/ StartServer \/ KeyPressed
           \/ ServerStopped \/ DestroyClient
  BY <1>6 DEF StartProgram, ReadParameters, StartServer, KeyPressed,
              ServerStopped, DestroyClient, collections, SInv, RunningSteps
<1>7. CASE (Connect \/ GetAddress) /\ ~Exit
  BY <1>7 DEF Connect, GetAddress, Gone, collections, SInv, RunningSteps
<1>8. CASE (StartBlockTimer \/ StartPaymentTimer) /\ ~Exit
  BY <1>8 DEF StartBlockTimer, StartPaymentTimer, StartThread, Gone,
              collections, SInv, RunningSteps
<1>9. /\ Connect \/ GetAddress \/ StartBlockTimer \/ StartPaymentTimer
      /\ Exit
      => UNCHANGED <<statistics, badStart>>
  BY DEF Connect, GetAddress, StartBlockTimer, StartPaymentTimer,
         StartThread, Gone, collections
<1>10. InvalidParameters \/ Cleanup => Exit /\ UNCHANGED <<statistics, badStart>>
  BY DEF InvalidParameters, Cleanup, Gone, collections
<1> QED
  BY <1>1, <1>2, <1>3, <1>4, <1>5, <1>6, <1>7, <1>8, <1>9, <1>10 DEF Main

LEMMA HandleLeavesMain == ASSUME NEW c \in Connection, Handle(c) PROVE Rest
<1>1. OtherMethod(c) \/ PostBegins(c) \/ PostPart(c) \/ PostEnds(c) => Rest
  BY DEF OtherMethod, PostBegins, PostPart, PostEnds
<1>2. RequestCompleted(c) \/ Dispatch(c) \/ OutOfMemory(c) => Rest
  BY DEF RequestCompleted, Dispatch, OutOfMemory
<1>3. OpenFile(c) \/ SendFile(c) => Rest
  BY DEF OpenFile, SendFile
<1>4. CountBlocks(c) \/ ReadStatistics(c) \/ ReadBlocks(c) => Rest
  BY DEF CountBlocks, ReadStatistics, ReadBlocks
<1>5. CountPayments(c) \/ CountVotes(c) \/ ReadTotals(c) => Rest
  BY DEF CountPayments, CountVotes, ReadTotals
<1>6. CountAddress(c) \/ ReadAddress(c) => Rest
  BY DEF CountAddress, ReadAddress
<1>7. CountVoters(c) \/ CountAgain(c) \/ ReadVoters(c) => Rest
  BY DEF CountVoters, CountAgain, ReadVoters
<1>8. CountAddressPayments(c) \/ ReadPayments(c) => Rest
  BY DEF CountAddressPayments, ReadPayments
<1> QED
  BY <1>1, <1>2, <1>3, <1>4, <1>5, <1>6, <1>7, <1>8 DEF Handle

LEMMA SInvElse ==
  ASSUME SInv, Others \/ (\E c \in Connection : Handle(c) \/ Client(c))
  PROVE  SInv'
<1>1. Others => UNCHANGED <<main, statistics>>
  BY DEF Others, BlockFound, PaymentMade, AddressChanges, VoteChanges,
         TimerWithoutClient, collections
<1>2. ASSUME NEW c \in Connection, Handle(c)
      PROVE  UNCHANGED <<main, statistics>>
  BY <1>2, HandleLeavesMain DEF Rest, collections
<1>3. ASSUME NEW c \in Connection, Client(c)
      PROVE  UNCHANGED <<main, statistics>>
  BY <1>3 DEF Client, RequestArrives, ClientGivesUp, Rest, collections
<1>4. UNCHANGED <<main, statistics>>
  BY <1>1, <1>2, <1>3
<1> QED
  BY <1>4 DEF main, SInv

(* main, lines 161-303: when the database has at most one document at      *)
(* first, the timers find exactly one, unless a start met a failure or the *)
(* test data came on top of it.                                            *)
THEOREM StatisticsOnce ==
  ASSUME \A d \in Contents : d.statistics <= 1
  PROVE  Spec => []OneStatisticsDocument
<1>1. Init => SInv
  BY SInvInit
<1>2. SInv /\ [Next]_vars => SInv'
  <2>1. ASSUME SInv, UNCHANGED vars PROVE SInv'
    BY <2>1 DEF vars, SInv
  <2> QED
    BY <2>1, SInvMain, SInvElse DEF Next
<1>3. SInv => OneStatisticsDocument
  BY DEF SInv, OneStatisticsDocument
<1> QED BY <1>1, <1>2, <1>3, PTL DEF Spec
-----------------------------------------------------------------------------
(* What each call record holds on its way: the types, which page is at     *)
(* which step, and how its numbers relate to the collections.              *)

CallType ==
    [step : Steps, method : Method, url : Url, parts : Seq(Part),
     slots : 0 .. Capacity, count : Int, rows : Nat, at : Proof, now : Int,
     total : Int, status : {0, 200, 400}, answers : Int, before : Nat,
     touched : BOOLEAN]

StateTypes ==
    /\ pc \in MainSteps
    /\ client \in {"none", "open", "destroyed"}
    /\ timers \subseteq {"block", "payment"}
    /\ starts \in 0 .. MaxStarts /\ changes \in 0 .. MaxChanges
    /\ requests \in 0 .. MaxRequests
    /\ badStart \in BOOLEAN
    /\ statistics \in Nat /\ blocks_found \in Seq(Rewards \cup {TestReward})
    /\ listed \in BOOLEAN /\ payments \in Nat /\ proofs \in [Proof -> Nat]

WebTypes ==
    /\ call \in [Connection -> CallType]
    /\ settings \in [Connection -> BOOLEAN]
    /\ processors \in [Connection -> Int] /\ files \in [Connection -> Int]
    /\ undefined \in Connection \cup {"nobody", "timer"}

(* Which requests come to a step.                                          *)
Pages ==
    [count |-> {"statistics", "blocks", "address", "payments"},
     statistics |-> {"statistics"}, read |-> {"statistics", "blocks"},
     paid |-> {"statistics"}, votes |-> {"statistics", "voters"},
     totals |-> {"blocks"}, again |-> {"voters"},
     rows |-> {"address", "voters", "payments"}, sending |-> {"file", "nofile"},
     answered |-> Url]

OnPage(r) == r.step \in DOMAIN Pages =>
                r.method = "GET" /\ r.url \in Pages[r.step]

NothingYet(r) == r.step \in {"called", "count"} =>
                    r.count = 0 /\ r.rows = 0 /\ r.at = 1 /\ r.before = 0

(* The reply that is being sent is about a file.                           *)
FileSent(r) == r.step = "sending" => r.status = 200

(* The blocks have been counted, and not read.                             *)
BlocksCounted(r) ==
    r.step \in {"statistics", "read"} =>
        /\ r.before <= Len(blocks_found)
        /\ ~r.touched => r.count = r.before

(* The rewards have been added.                                            *)
RewardsAdded(r) ==
    r.step = "paid" \/ (r.step = "votes" /\ r.url = "statistics") =>
        r.touched \/ \E k \in r.before .. Len(blocks_found) :
                        r.total = Sum(blocks_found, 1 .. k)

(* The rows of the blocks are there, and the totals are not.               *)
BlocksRead(r) ==
    r.step = "totals" /\ ~r.touched =>
        /\ r.rows \in r.before .. Len(blocks_found)
        /\ r.rows > 0 /\ r.count = r.before
        /\ r.before > 0 => r.rows = r.count

(* The votes of the collections before `at` have been counted.             *)
VotersCounted(r) ==
    r.step = "votes" /\ r.url = "voters" =>
        /\ r.rows = 0 /\ r.count = r.before
        /\ ~r.touched => r.count = Sum(proofs, 1 .. r.at - 1)

(* The votes of the collections before `at` have been read.                *)
VotersRead(r) ==
    r.step \in {"again", "rows"} /\ r.url = "voters" =>
        \/ r.touched
        \/ /\ r.count = Sum(proofs, Proof)
           /\ r.rows = Sum(proofs, 1 .. r.at - 1)

VotersCountedAgain(r) ==
    r.step = "rows" /\ r.url = "voters" =>
        r.now > 0 /\ (~r.touched => r.now = proofs[r.at])

AddressCounted(r) ==
    r.step = "rows" /\ r.url = "address" => r.touched \/ listed

PaymentsCounted(r) ==
    r.step = "rows" /\ r.url = "payments" =>
        r.count = r.before /\ r.count \in 1 .. payments

Answered(r) == r.step = "answered" /\ ~r.touched => IsCurrent(r)

Fits(r) ==
    /\ OnPage(r) /\ NothingYet(r) /\ FileSent(r)
    /\ BlocksCounted(r) /\ RewardsAdded(r) /\ BlocksRead(r)
    /\ VotersCounted(r) /\ VotersRead(r) /\ VotersCountedAgain(r)
    /\ AddressCounted(r) /\ PaymentsCounted(r)
    /\ Answered(r)

(* Where a call met undefined behaviour it stays.                          *)
Stuck(r) == r.step # "answered" /\ (r.step = "starved" \/ HasACause(r))

WInv ==
    /\ \A c \in Connection :
          IF undefined = c THEN Stuck(call[c]) ELSE Fits(call[c])
    /\ pc \in RunningSteps /\ ~badStart => statistics > 0
    /\ \A c \in Connection : call[c].step # "idle" => pc \in RunningSteps

(* What the steps of a handler start from.                                 *)
Ready == StateTypes /\ WebTypes /\ WInv /\ undefined = "nobody"

LEMMA ReadyCall ==
  ASSUME Ready, NEW c \in Connection
  PROVE  call[c] \in CallType /\ Fits(call[c])
<1>1. undefined # c
  BY WebServerAssumption DEF WebServerAssumption, Ready
<1> QED
  BY <1>1 DEF Ready, WebTypes, WInv

-----------------------------------------------------------------------------
(* Changes of a record.                                                    *)

(* Everything but the step, the status and the replies.                    *)
Same(q, r) ==
    /\ q.method = r.method /\ q.url = r.url /\ q.parts = r.parts
    /\ q.slots = r.slots /\ q.count = r.count /\ q.rows = r.rows
    /\ q.at = r.at /\ q.now = r.now /\ q.total = r.total
    /\ q.before = r.before /\ q.touched = r.touched

LEMMA StepTo ==
  ASSUME NEW r \in CallType, NEW s \in Steps
  PROVE  /\ [r EXCEPT !.step = s] \in CallType
         /\ [r EXCEPT !.step = s].step = s
         /\ [r EXCEPT !.step = s].status = r.status
         /\ Same([r EXCEPT !.step = s], r)
  BY DEF CallType, Same

LEMMA ReplyFields ==
  ASSUME NEW r \in CallType, NEW s \in {200, 400}
  PROVE  /\ Reply(r, s) \in CallType /\ Reply(r, s).step = "answered"
         /\ Reply(r, s).status = s /\ Same(Reply(r, s), r)
<1>1. r.answers + 1 \in Int /\ "answered" \in Steps /\ s \in {0, 200, 400}
  BY DEF CallType, Steps
<1>2. Reply(r, s) \in CallType
  BY ZenonT(60), <1>1 DEF CallType, Reply
<1>3. Reply(r, s).step = "answered" /\ Reply(r, s).status = s
  BY DEF CallType, Reply
<1>4. Same(Reply(r, s), r)
  BY DEF CallType, Reply, Same
<1> QED
  BY <1>2, <1>3, <1>4

LEMMA CountedFields ==
  ASSUME NEW r \in CallType, NEW n \in Int, NEW there \in Nat
  PROVE  LET q == Counted(r, n, there)
         IN  /\ q \in CallType /\ q.step = r.step /\ q.method = r.method
             /\ q.url = r.url /\ q.count = n /\ q.before = there
             /\ q.rows = r.rows /\ q.at = r.at /\ q.status = r.status
             /\ q.touched <=> (r.touched \/ n < 0)
  BY ZenonT(60) DEF CallType, Counted

LEMMA FitsRefused ==
  ASSUME NEW r, r.step \in {"refused", "waiting", "starved", "idle"}
  PROVE  Fits(r)
  BY DEF Fits, OnPage, Pages, NothingYet, FileSent, BlocksCounted, RewardsAdded,
         BlocksRead, VotersCounted, VotersRead, VotersCountedAgain,
         AddressCounted, PaymentsCounted, Answered

LEMMA FitsAnswered ==
  ASSUME NEW r \in CallType, r.step = "answered", r.method = "GET",
         ~r.touched => IsCurrent(r)
  PROVE  Fits(r)
  BY DEF Fits, OnPage, Pages, NothingYet, FileSent, BlocksCounted, RewardsAdded,
         BlocksRead, VotersCounted, VotersRead, VotersCountedAgain,
         AddressCounted, PaymentsCounted, Answered, CallType

LEMMA FitsMoves ==
  ASSUME NEW r, Fits(r), NEW c, call'[c] = r, UNCHANGED collections
  PROVE  Fits(call[c])'
  BY DEF Fits, OnPage, Pages, NothingYet, FileSent, BlocksCounted, RewardsAdded,
         BlocksRead, VotersCounted, VotersRead, VotersCountedAgain,
         AddressCounted, PaymentsCounted, Answered, IsCurrent, collections

LEMMA StuckMoves ==
  ASSUME NEW r, Stuck(r), NEW c, call'[c] = r, UNCHANGED <<collections, badStart>>
  PROVE  Stuck(call[c])'
  BY DEF Stuck, HasACause, collections

(* A step of the handler that changes its own record only.                 *)
Goes(c) == \E r \in CallType : \/ Only(c, r) /\ Fits(r)
                               \/ Undefined(c, r) /\ Stuck(r)

LEMMA GoesKeeps ==
  ASSUME Ready, NEW c \in Connection, Rest, Goes(c), call[c].step # "idle"
  PROVE  WebTypes' /\ WInv'
<1>1. PICK r \in CallType : \/ Only(c, r) /\ Fits(r)
                            \/ Undefined(c, r) /\ Stuck(r)
  BY DEF Goes
<1>2. /\ call' = [call EXCEPT ![c] = r]
      /\ UNCHANGED <<settings, processors, files>>
      /\ undefined' \in {undefined, c}
  BY <1>1 DEF Only, Undefined, Go
<1>3. WebTypes'
  BY <1>2 DEF Ready, WebTypes
<1>4. call'[c] = r /\ \A b \in Connection \ {c} : call'[b] = call[b]
  BY <1>2 DEF Ready, WebTypes
<1>5. UNCHANGED <<collections, badStart, pc>>
  BY DEF Rest, main
<1>6. ASSUME NEW b \in Connection
      PROVE  IF undefined' = b THEN Stuck(call[b])' ELSE Fits(call[b])'
  <2>1. CASE b # c
    <3>1. undefined' # b
      BY <1>2, <2>1, WebServerAssumption DEF WebServerAssumption, Ready
    <3>2. Fits(call[b])'
      BY <1>4, <1>5, <2>1, ReadyCall, FitsMoves
    <3> QED BY <3>1, <3>2
  <2>2. CASE b = c /\ Only(c, r) /\ Fits(r)
    <3>1. undefined' # b
      BY <2>2, WebServerAssumption DEF WebServerAssumption, Ready, Only
    <3>2. Fits(call[b])'
      BY <1>4, <1>5, <2>2, FitsMoves
    <3> QED BY <3>1, <3>2
  <2>3. CASE b = c /\ Undefined(c, r) /\ Stuck(r)
    <3>1. undefined' = b
      BY <2>3 DEF Undefined
    <3>2. Stuck(call[b])'
      BY <1>4, <1>5, <2>3, StuckMoves
    <3> QED BY <3>1, <3>2
  <2> QED BY <1>1, <2>1, <2>2, <2>3
<1>7. \A b \in Connection : call'[b].step # "idle" => pc' \in RunningSteps
  BY <1>4, <1>5 DEF Ready, WInv
<1>8. pc' \in RunningSteps /\ ~badStart' => statistics' > 0
  BY <1>5 DEF Ready, WInv, collections
<1> QED
  BY <1>3, <1>6, <1>7, <1>8 DEF WInv

-----------------------------------------------------------------------------
(* What a record must hold to be at a step.                                *)

(* A request that has arrived.                                             *)
LEMMA FitsCalled ==
  ASSUME NEW r \in CallType, r.step \in {"called", "count"}, OnPage(r),
         r.count = 0, r.rows = 0, r.at = 1, r.before = 0
  PROVE  Fits(r)
  BY DEF Fits, OnPage, Pages, NothingYet, FileSent, BlocksCounted, RewardsAdded,
         BlocksRead, VotersCounted, VotersRead, VotersCountedAgain,
         AddressCounted, PaymentsCounted, Answered, CallType

(* The pages of the blocks.                                                *)
LEMMA FitsBlocks ==
  ASSUME NEW r \in CallType, r.step \in {"statistics", "read", "paid", "totals"},
         OnPage(r), BlocksCounted(r), RewardsAdded(r), BlocksRead(r)
  PROVE  Fits(r)
  BY DEF Fits, OnPage, Pages, NothingYet, FileSent, BlocksCounted, RewardsAdded,
         BlocksRead, VotersCounted, VotersRead, VotersCountedAgain,
         AddressCounted, PaymentsCounted, Answered, CallType

(* The counts of the votes.                                                *)
LEMMA FitsVotes ==
  ASSUME NEW r \in CallType, r.step = "votes", OnPage(r), RewardsAdded(r),
         VotersCounted(r)
  PROVE  Fits(r)
  BY DEF Fits, OnPage, Pages, NothingYet, FileSent, BlocksCounted, RewardsAdded,
         BlocksRead, VotersCounted, VotersRead, VotersCountedAgain,
         AddressCounted, PaymentsCounted, Answered, CallType

(* The list of the voters.                                                 *)
LEMMA FitsVoters ==
  ASSUME NEW r \in CallType, r.step \in {"again", "rows"}, r.url = "voters",
         r.method = "GET", VotersRead(r), VotersCountedAgain(r)
  PROVE  Fits(r)
  BY DEF Fits, OnPage, Pages, NothingYet, FileSent, BlocksCounted, RewardsAdded,
         BlocksRead, VotersCounted, VotersRead, VotersCountedAgain,
         AddressCounted, PaymentsCounted, Answered, CallType

(* The rows of an address.                                                 *)
LEMMA FitsRows ==
  ASSUME NEW r \in CallType, r.step = "rows", r.url \in {"address", "payments"},
         r.method = "GET", AddressCounted(r), PaymentsCounted(r)
  PROVE  Fits(r)
  BY DEF Fits, OnPage, Pages, NothingYet, FileSent, BlocksCounted, RewardsAdded,
         BlocksRead, VotersCounted, VotersRead, VotersCountedAgain,
         AddressCounted, PaymentsCounted, Answered, CallType

(* The file that is sent.                                                  *)
LEMMA FitsSending ==
  ASSUME NEW r \in CallType, r.step = "sending", r.url \in {"file", "nofile"},
         r.method = "GET", r.status = 200
  PROVE  Fits(r)
  BY DEF Fits, OnPage, Pages, NothingYet, FileSent, BlocksCounted, RewardsAdded,
         BlocksRead, VotersCounted, VotersRead, VotersCountedAgain,
         AddressCounted, PaymentsCounted, Answered, CallType

-----------------------------------------------------------------------------
(* Sums over the collections.                                              *)

LEMMA CountsAre ==
  ASSUME NEW n \in Nat, NEW m \in Counts(n)
  PROVE  m \in Int /\ (m = n \/ m = -1)
  BY DEF Counts

LEMMA RowsAre ==
  ASSUME NEW n \in Nat, NEW limit \in Int, NEW k \in ReadRows(n, limit)
  PROVE  /\ k \in Nat /\ k <= n
         /\ limit \in 1 .. n => k <= limit
  BY DEF ReadRows

LEMMA VotesUpTo ==
  ASSUME StateTypes, NEW i \in Proof
  PROVE  /\ proofs[i] \in Nat
         /\ Sum(proofs, 1 .. i - 1) \in Nat /\ Sum(proofs, Proof) \in Nat
         /\ Sum(proofs, 1 .. i) = Sum(proofs, 1 .. i - 1) + proofs[i]
         /\ Sum(proofs, 1 .. i) <= Sum(proofs, Proof)
<1>1. Collections \in Nat /\ \A j \in Proof : proofs[j] \in Nat
  BY WebServerAssumption DEF WebServerAssumption, StateTypes
<1>2. IsFiniteSet(Proof) /\ IsFiniteSet(1 .. i) /\ IsFiniteSet(1 .. i - 1)
  BY <1>1, FS_Interval DEF Proof
<1>3. 1 .. i \in SUBSET Proof /\ i \in 1 .. i /\ (1 .. i) \ {i} = 1 .. i - 1
  BY <1>1 DEF Proof
<1>4. Sum(proofs, 1 .. i - 1) \in Nat /\ Sum(proofs, Proof) \in Nat
  BY <1>1, <1>2, <1>3, SumNat DEF Proof
<1>5. Sum(proofs, 1 .. i) <= Sum(proofs, Proof)
  BY <1>1, <1>2, <1>3, SumOfPart
<1>6. Sum(proofs, 1 .. i) = proofs[i] + Sum(proofs, (1 .. i) \ {i})
  <2>1. \A j \in 1 .. i : proofs[j] \in Int
    BY <1>1, <1>3
  <2> QED BY <1>2, <1>3, <2>1, SumRemove
<1>7. proofs[i] \in Nat
  BY <1>1
<1>8. Sum(proofs, 1 .. i) = proofs[i] + Sum(proofs, 1 .. i - 1)
  BY <1>3, <1>6
<1>9. Sum(proofs, 1 .. i) = Sum(proofs, 1 .. i - 1) + proofs[i]
  BY <1>4, <1>7, <1>8
<1> QED
  BY <1>4, <1>5, <1>7, <1>9

LEMMA RewardsUpTo ==
  ASSUME StateTypes, NEW k \in 1 .. Len(blocks_found)
  PROVE  Sum(blocks_found, 1 .. k) \in Int /\ blocks_found[k] \in Int
<1>1. Rewards \cup {TestReward} \subseteq Int
  BY WebServerAssumption DEF WebServerAssumption
<1>2. Len(blocks_found) \in Nat /\ \A j \in 1 .. k : blocks_found[j] \in Int
  BY <1>1 DEF StateTypes
<1>3. IsFiniteSet(1 .. k)
  BY <1>2, FS_Interval
<1> QED
  BY <1>2, <1>3, SumInt

LEMMA ZeroTimes == ASSUME NEW x \in Int PROVE 0 * x = 0
  OBVIOUS

-----------------------------------------------------------------------------
(* The end of a handler.                                                   *)

LEMMA Refuses ==
  ASSUME Ready, NEW c \in Connection, NEW s \in {"refused", "waiting"},
         Only(c, [call[c] EXCEPT !.step = s])
  PROVE  Goes(c)
<1> DEFINE r == [call[c] EXCEPT !.step = s]
<1>1. s \in Steps
  BY DEF Steps
<1>2. r \in CallType /\ r.step = s
  BY <1>1, ReadyCall, StepTo
<1> HIDE DEF r
<1>3. Fits(r)
  BY <1>2, FitsRefused
<1> QED
  BY <1>2, <1>3 DEF Goes, r

LEMMA Replies ==
  ASSUME NEW c \in Connection, NEW r \in CallType, r.method = "GET",
         NEW s \in {200, 400}, Only(c, Reply(r, s)),
         r.touched \/ IsCurrent(Reply(r, s))
  PROVE  Goes(c)
<1>1. /\ Reply(r, s) \in CallType /\ Reply(r, s).step = "answered"
      /\ Same(Reply(r, s), r)
  BY ReplyFields
<1>2. Fits(Reply(r, s))
  BY <1>1, FitsAnswered DEF Same
<1> QED
  BY <1>1, <1>2 DEF Goes

(* An error tells that there was nothing to show.                          *)
LEMMA RepliesNothing ==
  ASSUME NEW c \in Connection, NEW r \in CallType, r.method = "GET",
         Only(c, Reply(r, 400)),
         r.touched \/ r.url = "noaddress" \/ r.before = 0
  PROVE  Goes(c)
<1>1. Reply(r, 400).status = 400 /\ Same(Reply(r, 400), r)
  BY ReplyFields
<1>2. r.touched \/ IsCurrent(Reply(r, 400))
  BY <1>1 DEF IsCurrent, Same
<1> QED
  BY <1>2, Replies

-----------------------------------------------------------------------------
(* The handlers, one after the other.                                      *)

LEMMA FieldTypes ==
  ASSUME NEW r \in CallType
  PROVE  /\ r.method \in Method /\ r.url \in Url /\ r.parts \in Seq(Part)
         /\ r.slots \in 0 .. Capacity /\ r.count \in Int /\ r.rows \in Nat
         /\ r.at \in Proof /\ r.now \in Int /\ r.total \in Int
         /\ r.before \in Nat /\ r.touched \in BOOLEAN
  BY DEF CallType

LEMMA OtherMethodGoes ==
  ASSUME Ready, NEW c \in Connection, OtherMethod(c) PROVE Goes(c)
  BY Refuses DEF OtherMethod

LEMMA PostEndsGoes ==
  ASSUME Ready, NEW c \in Connection, PostEnds(c) PROVE Goes(c)
  BY Refuses DEF PostEnds

LEMMA ClientGivesUpGoes ==
  ASSUME Ready, NEW c \in Connection, ClientGivesUp(c) PROVE Goes(c)
  BY Refuses DEF ClientGivesUp

LEMMA PartsTo ==
  ASSUME NEW r \in CallType, NEW p \in Seq(Part), NEW n \in 0 .. Capacity
  PROVE  LET q == [r EXCEPT !.parts = p]
             t == [q EXCEPT !.slots = n]
         IN  /\ q \in CallType /\ t \in CallType
             /\ q.step = r.step /\ t.step = r.step
             /\ q.slots = r.slots
             /\ q.count = r.count /\ q.rows = r.rows /\ q.at = r.at
             /\ q.before = r.before
             /\ t.count = r.count /\ t.rows = r.rows /\ t.at = r.at
             /\ t.before = r.before
<1> DEFINE q == [r EXCEPT !.parts = p]
<1>1. /\ q \in CallType /\ q.step = r.step /\ q.slots = r.slots
      /\ q.count = r.count /\ q.rows = r.rows /\ q.at = r.at
      /\ q.before = r.before
  BY DEF CallType
<1> DEFINE t == [q EXCEPT !.slots = n]
<1>2. /\ t \in CallType /\ t.step = q.step
      /\ t.count = q.count /\ t.rows = q.rows /\ t.at = q.at
      /\ t.before = q.before
  <2> HIDE DEF q
  <2> QED BY ZenonT(60), <1>1 DEF CallType
<1> HIDE DEF q, t
<1>3. t.step = r.step /\ t.count = r.count /\ t.rows = r.rows
      /\ t.at = r.at /\ t.before = r.before
  BY <1>1, <1>2
<1> QED
  BY <1>1, <1>2, <1>3 DEF q, t

LEMMA PostPartGoes ==
  ASSUME Ready, NEW c \in Connection, PostPart(c) PROVE Goes(c)
<1> DEFINE r == call[c]
           more == [r EXCEPT !.parts = Tail(@)]
           over == [r EXCEPT !.parts = << >>]
           slot == [more EXCEPT !.slots = @ + 1]
<1>1. /\ r \in CallType /\ r.step = "called" /\ r.method = "POST"
      /\ r.parts # << >>
      /\ r.count = 0 /\ r.rows = 0 /\ r.at = 1 /\ r.before = 0
  BY ReadyCall DEF PostPart, Fits, NothingYet
<1>2. r.parts \in Seq(Part) /\ r.slots \in 0 .. Capacity /\ Capacity \in Nat
  BY <1>1, FieldTypes, WebServerAssumption DEF WebServerAssumption
<1>3. Tail(r.parts) \in Seq(Part) /\ << >> \in Seq(Part)
  BY <1>1, <1>2
<1>4. /\ more \in CallType /\ over \in CallType
      /\ Fits(more) /\ Fits(over) /\ more.slots = r.slots
  <2>1. \A p \in Seq(Part) :
           LET q == [r EXCEPT !.parts = p]
           IN  q \in CallType /\ Fits(q) /\ q.slots = r.slots
    <3> SUFFICES ASSUME NEW p \in Seq(Part)
                 PROVE  LET q == [r EXCEPT !.parts = p]
                        IN  q \in CallType /\ Fits(q) /\ q.slots = r.slots
      OBVIOUS
    <3> DEFINE q == [r EXCEPT !.parts = p]
    <3>1. /\ q \in CallType /\ q.step = "called" /\ q.slots = r.slots
          /\ q.count = 0 /\ q.rows = 0 /\ q.at = 1 /\ q.before = 0
      <4> HIDE DEF r
      <4> QED BY <1>1, <1>2, PartsTo
    <3>2. Fits(q)
      <4> HIDE DEF q
      <4> QED BY <3>1, FitsCalled DEF OnPage, Pages
    <3> QED BY <3>1, <3>2
  <2> QED BY <1>3, <2>1
<1>5. ASSUME r.slots < Capacity PROVE slot \in CallType /\ Fits(slot)
  <2>1. more.slots + 1 \in 0 .. Capacity
    BY <1>2, <1>4, <1>5
  <2>2. /\ slot \in CallType /\ slot.step = "called"
        /\ slot.count = 0 /\ slot.rows = 0 /\ slot.at = 1 /\ slot.before = 0
    <3> HIDE DEF r
    <3> QED BY ZenonT(60), <1>1, <1>3, <2>1, PartsTo
  <2> QED
    <3> HIDE DEF slot
    <3> QED BY <2>2, FitsCalled DEF OnPage, Pages
<1>6. ASSUME r.slots >= Capacity \/ Head(r.parts) = "full"
      PROVE  Stuck(r)
  BY <1>1, <1>2, <1>6 DEF Stuck, HasACause
<1>7. \/ r.slots < Capacity /\ Only(c, slot)
      \/ (r.slots >= Capacity \/ Head(r.parts) = "full") /\ Undefined(c, r)
      \/ Only(c, more) \/ Only(c, over)
  BY DEF PostPart
<1> HIDE DEF r, more, over, slot
<1> QED
  BY <1>1, <1>4, <1>5, <1>6, <1>7 DEF Goes

LEMMA DispatchGoes ==
  ASSUME Ready, NEW c \in Connection, Dispatch(c) PROVE Goes(c)
<1> DEFINE r == call[c]
           s == FirstStep[r.url]
           q == [r EXCEPT !.step = s]
<1>1. /\ r \in CallType /\ r.step = "called" /\ r.method = "GET"
      /\ r.count = 0 /\ r.rows = 0 /\ r.at = 1 /\ r.before = 0
  BY ReadyCall DEF Dispatch, Fits, NothingYet
<1>2. CASE r.url \in DOMAIN FirstStep /\ Only(c, q)
  <2>1. /\ s \in Steps
        /\ \/ s = "count" /\ r.url \in Pages.count
           \/ s = "votes" /\ r.url = "voters"
    BY <1>2 DEF FirstStep, Steps, Pages
  <2>2. q \in CallType /\ q.step = s /\ Same(q, r)
    <3> HIDE DEF r, s
    <3> QED BY <1>1, <2>1, StepTo
  <2> HIDE DEF q, r
  <2>3. Fits(q)
    <3>1. CASE s = "count"
      BY <1>1, <2>1, <2>2, <3>1, FitsCalled DEF Same, OnPage, Pages
    <3>2. CASE s = "votes"
      <4>1. q.url = "voters" /\ q.method = "GET" /\ q.step = "votes"
        BY <1>1, <2>1, <2>2, <3>2 DEF Same
      <4>2. Sum(proofs, 1 .. q.at - 1) = 0
        <5>1. 1 .. q.at - 1 = {}
          BY <1>1, <2>2 DEF Same
        <5> QED BY <5>1, SumEmpty
      <4>3. VotersCounted(q)
        BY <1>1, <2>2, <4>2 DEF VotersCounted, Same
      <4>4. OnPage(q) /\ RewardsAdded(q)
        BY <4>1 DEF OnPage, Pages, RewardsAdded
      <4> QED BY <2>2, <4>1, <4>3, <4>4, FitsVotes
    <3> QED BY <2>1, <3>1, <3>2
  <2> QED
    BY <1>2, <2>2, <2>3 DEF Goes
<1>3. CASE r.url = "noaddress" /\ Only(c, Reply(r, 400))
  BY <1>1, <1>3, RepliesNothing
<1> QED
  BY <1>2, <1>3 DEF Dispatch

LEMMA OutOfMemoryGoes ==
  ASSUME Ready, NEW c \in Connection, OutOfMemory(c) PROVE Goes(c)
<1> DEFINE r == call[c]
           starved == [r EXCEPT !.step = "starved"]
           touched == [r EXCEPT !.touched = TRUE]
<1>1. r \in CallType
  BY ReadyCall
<1>2. CASE Only(c, [r EXCEPT !.step = "refused"])
  BY <1>2, Refuses
<1>3. CASE Undefined(c, starved)
  <2>1. starved \in CallType /\ starved.step = "starved"
    <3> HIDE DEF r
    <3> QED BY <1>1, StepTo DEF Steps
  <2>2. Stuck(starved)
    <3> HIDE DEF starved
    <3> QED BY <2>1 DEF Stuck
  <2> QED BY <1>3, <2>1, <2>2 DEF Goes
<1>4. CASE r.method = "GET" /\ Only(c, Reply(touched, 400))
  <2>1. touched \in CallType /\ touched.method = "GET" /\ touched.touched
    BY <1>1, <1>4 DEF CallType
  <2> QED
    <3> HIDE DEF touched
    <3> QED BY <1>4, <2>1, RepliesNothing
<1> QED
  BY <1>2, <1>3, <1>4 DEF OutOfMemory, PageWithoutMemory

-----------------------------------------------------------------------------
(* The statistics and the list of the blocks.                              *)

LEMMA BlocksAre ==
  ASSUME StateTypes
  PROVE  /\ Len(blocks_found) \in Nat
         /\ Len(blocks_found) > 0 => blocks_found # << >>
  BY DEF StateTypes

LEMMA CountBlocksGoes ==
  ASSUME Ready, NEW c \in Connection, CountBlocks(c) PROVE Goes(c)
<1> DEFINE r == call[c]
           q(n) == Counted(r, n, Len(blocks_found))
           next == IF r.url = "blocks" THEN "read" ELSE "statistics"
           s(n) == [q(n) EXCEPT !.step = next]
<1>1. /\ r \in CallType /\ r.step = "count" /\ r.method = "GET"
      /\ r.url \in {"statistics", "blocks"}
  BY ReadyCall DEF CountBlocks, Fits, OnPage, Pages
<1>2. Len(blocks_found) \in Nat /\ Capacity \in Nat
  BY BlocksAre, WebServerAssumption DEF WebServerAssumption, Ready
<1>3. PICK n \in Counts(Len(blocks_found)) :
         IF Allocated(q(n)) > Capacity THEN Undefined(c, q(n))
         ELSE Only(c, [q(n) EXCEPT !.step =
                          IF q(n).url = "blocks" THEN "read" ELSE "statistics"])
  BY DEF CountBlocks
<1>4. n \in Int /\ (n = Len(blocks_found) \/ n = -1)
  BY <1>2, CountsAre
<1>5. /\ q(n) \in CallType /\ q(n).step = "count" /\ q(n).method = "GET"
      /\ q(n).url = r.url /\ q(n).count = n
      /\ q(n).before = Len(blocks_found) /\ (q(n).touched <=> (r.touched \/ n < 0))
  <2> HIDE DEF r
  <2> QED BY <1>1, <1>2, <1>4, CountedFields
<1>6. CASE Allocated(q(n)) > Capacity
  <2>1. Undefined(c, q(n))
    BY <1>3, <1>6
  <2>2. Stuck(q(n))
    <3> HIDE DEF q, r
    <3> QED BY <1>1, <1>2, <1>4, <1>5, <1>6 DEF Stuck, HasACause, Allocated
  <2> QED BY <1>5, <2>1, <2>2 DEF Goes
<1>7. CASE ~(Allocated(q(n)) > Capacity)
  <2>1. Only(c, s(n))
    <3>1. Only(c, [q(n) EXCEPT !.step =
                          IF q(n).url = "blocks" THEN "read" ELSE "statistics"])
      BY <1>3, <1>7
    <3>2. q(n).url = r.url
      BY <1>5
    <3> HIDE DEF q, r
    <3> QED BY <3>1, <3>2
  <2>2. next \in {"read", "statistics"} /\ next \in Steps
    BY DEF Steps
  <2>3. s(n) \in CallType /\ s(n).step = next /\ Same(s(n), q(n))
    <3> HIDE DEF q, next
    <3> QED BY <1>5, <2>2, StepTo
  <2>4. Fits(s(n))
    <3>0. next = IF r.url = "blocks" THEN "read" ELSE "statistics"
      OBVIOUS
    <3> HIDE DEF s, q, r, next
    <3>1. BlocksCounted(s(n))
      BY <1>2, <1>4, <1>5, <2>3 DEF BlocksCounted, Same
    <3>2. OnPage(s(n))
      BY <1>1, <1>5, <2>3, <3>0 DEF OnPage, Pages, Same
    <3>3. RewardsAdded(s(n)) /\ BlocksRead(s(n))
      BY <2>2, <2>3 DEF RewardsAdded, BlocksRead
    <3> QED BY <2>2, <2>3, <3>1, <3>2, <3>3, FitsBlocks
  <2> QED
    <3> HIDE DEF s
    <3> QED BY <2>1, <2>3, <2>4 DEF Goes
<1> QED
  BY <1>6, <1>7

LEMMA ReadStatisticsGoes ==
  ASSUME Ready, NEW c \in Connection, ReadStatistics(c) PROVE Goes(c)
<1> DEFINE r == call[c]
           q == [r EXCEPT !.step = "read"]
           touched == [r EXCEPT !.touched = TRUE]
<1>1. /\ r \in CallType /\ r.step = "statistics" /\ r.method = "GET"
      /\ r.url = "statistics" /\ BlocksCounted(r)
  BY ReadyCall DEF ReadStatistics, Fits, OnPage, Pages
<1>2. CASE Only(c, q)
  <2>1. q \in CallType /\ q.step = "read" /\ Same(q, r)
    <3> HIDE DEF r
    <3> QED BY <1>1, StepTo DEF Steps
  <2> HIDE DEF q, r
  <2>2. BlocksCounted(q)
    BY <1>1, <2>1 DEF BlocksCounted, Same
  <2>3. OnPage(q) /\ RewardsAdded(q) /\ BlocksRead(q)
    BY <1>1, <2>1 DEF OnPage, Pages, RewardsAdded, BlocksRead, Same
  <2>4. Fits(q)
    BY <2>1, <2>2, <2>3, FitsBlocks
  <2> QED BY <1>2, <2>1, <2>4 DEF Goes
<1>3. CASE statistics = 0 /\ Undefined(c, r)
  <2>1. pc \in RunningSteps
    BY <1>1 DEF Ready, WInv
  <2>2. badStart
    <3>1. ~badStart => statistics > 0
      BY <2>1 DEF Ready, WInv
    <3> QED BY <1>3, <3>1
  <2>3. Stuck(r)
    BY <1>1, <1>3, <2>2 DEF Stuck, HasACause
  <2> QED BY <1>1, <1>3, <2>3 DEF Goes
<1>4. CASE Undefined(c, touched)
  <2>1. /\ touched \in CallType /\ touched.method = "GET" /\ touched.touched
        /\ touched.url = "statistics" /\ touched.step = "statistics"
    BY <1>1 DEF CallType
  <2>2. Stuck(touched)
    <3> HIDE DEF touched
    <3> QED BY <2>1 DEF Stuck, HasACause
  <2> QED BY <1>4, <2>1, <2>2 DEF Goes
<1> QED
  BY <1>2, <1>3, <1>4 DEF ReadStatistics

(* What the read of the blocks has put into the rows.                      *)
LEMMA ReadBlocksGoes ==
  ASSUME Ready, NEW c \in Connection, ReadBlocks(c) PROVE Goes(c)
<1> DEFINE r == call[c]
           q(k) == [r EXCEPT !.rows = k, !.touched = @ \/ k < r.before]
           paid(k) == [q(k) EXCEPT !.step = "paid",
                                   !.total = SumOfRows(k, q(k).count)]
           totals(k) == [q(k) EXCEPT !.step = "totals"]
<1>1. /\ r \in CallType /\ r.step = "read" /\ r.method = "GET"
      /\ r.url \in {"statistics", "blocks"} /\ BlocksCounted(r)
  BY ReadyCall DEF ReadBlocks, Fits, OnPage, Pages
<1>2. /\ Len(blocks_found) \in Nat /\ Capacity \in Nat
      /\ Len(blocks_found) > 0 => blocks_found # << >>
  BY BlocksAre, WebServerAssumption DEF WebServerAssumption, Ready
<1>3. PICK k \in ReadRows(Len(blocks_found), r.count) :
         \/ k = 0 /\ Only(c, Reply(q(k), 400))
         \/ k > 0 /\ k > Allocated(q(k)) /\ Undefined(c, q(k))
         \/ k > 0 /\ k <= Allocated(q(k)) /\ q(k).url = "statistics" /\ Only(c, paid(k))
         \/ k > 0 /\ k <= Allocated(q(k)) /\ q(k).url = "blocks" /\ Only(c, totals(k))
  BY DEF ReadBlocks
<1>4. r.count \in Int /\ r.before \in Nat /\ r.touched \in BOOLEAN
  BY <1>1, FieldTypes
<1>5. /\ k \in Nat /\ k <= Len(blocks_found)
      /\ r.count \in 1 .. Len(blocks_found) => k <= r.count
  BY <1>2, <1>4, RowsAre
<1>6. /\ q(k) \in CallType /\ q(k).step = "read" /\ q(k).method = "GET"
      /\ q(k).url = r.url /\ q(k).count = r.count /\ q(k).before = r.before
      /\ q(k).rows = k
  BY ZenonT(60), <1>1, <1>4, <1>5 DEF CallType
<1>7. q(k).touched <=> (r.touched \/ k < r.before)
  BY <1>1 DEF CallType
<1> HIDE DEF q
<1>8. /\ r.before <= Len(blocks_found)
      /\ ~q(k).touched => r.count = r.before /\ k >= r.before
  BY <1>1, <1>4, <1>5, <1>7 DEF BlocksCounted
<1>9. CASE k = 0 /\ Only(c, Reply(q(k), 400))
  <2>1. q(k).touched \/ q(k).before = 0
    BY <1>4, <1>6, <1>8, <1>9
  <2> QED BY <1>6, <1>9, <2>1, RepliesNothing
<1>10. CASE k > 0 /\ k > Allocated(q(k)) /\ Undefined(c, q(k))
  <2>1. \/ q(k).touched \/ (q(k).before = 0 /\ blocks_found # << >>)
    <3>1. CASE r.before = 0
      BY <1>2, <1>5, <1>6, <1>10, <3>1
    <3>2. CASE r.before > 0 /\ ~q(k).touched
      <4>1. r.count \in 1 .. Len(blocks_found)
        BY <1>2, <1>4, <1>8, <3>2
      <4>2. k <= Allocated(q(k))
        BY <1>4, <1>5, <1>6, <4>1 DEF Allocated
      <4> QED BY <1>4, <1>5, <1>6, <1>10, <4>1 DEF Allocated
    <3> QED BY <1>4, <3>1, <3>2
  <2>2. Stuck(q(k))
    <3>1. q(k).url = "statistics" \/ q(k).url = "blocks"
      BY <1>1, <1>6
    <3> QED BY <1>6, <2>1, <3>1 DEF Stuck, HasACause
  <2> QED BY <1>6, <1>10, <2>2 DEF Goes
<1>11. CASE k > 0 /\ k <= Allocated(q(k)) /\ r.url = "statistics" /\ Only(c, paid(k))
  <2>1. k \in 1 .. Len(blocks_found)
    BY <1>2, <1>5, <1>11
  <2>2. Sum(blocks_found, 1 .. k) \in Int /\ blocks_found[k] \in Int
    BY <2>1, RewardsUpTo DEF Ready
  <2>3. SumOfRows(k, r.count) \in Int
    <3>1. (r.count - k) * blocks_found[k] \in Int
      BY <1>4, <1>5, <2>2
    <3> QED BY <2>2, <3>1 DEF SumOfRows
  <2>4. ~q(k).touched => SumOfRows(k, r.count) = Sum(blocks_found, 1 .. k)
    <3>1. SUFFICES ASSUME ~q(k).touched
                   PROVE  SumOfRows(k, r.count) = Sum(blocks_found, 1 .. k)
      OBVIOUS
    <3>2. r.count - k = 0
      BY <1>4, <1>5, <1>6, <1>8, <1>11, <3>1 DEF Allocated
    <3>3. (r.count - k) * blocks_found[k] = 0
      BY <2>2, <3>2, ZeroTimes
    <3> QED BY <2>2, <3>3 DEF SumOfRows
  <2>5. /\ paid(k) \in CallType /\ paid(k).step = "paid"
        /\ paid(k).method = "GET" /\ paid(k).url = "statistics"
        /\ paid(k).before = r.before
        /\ paid(k).total = SumOfRows(k, r.count)
        /\ paid(k).touched = q(k).touched
    BY ZenonT(60), <1>6, <1>11, <2>3 DEF CallType, Steps
  <2> HIDE DEF paid
  <2>6. RewardsAdded(paid(k))
    <3>1. k \in r.before .. Len(blocks_found) \/ q(k).touched
      BY <1>2, <1>4, <1>5, <1>8
    <3> QED BY <2>4, <2>5, <3>1 DEF RewardsAdded
  <2>7. OnPage(paid(k)) /\ BlocksCounted(paid(k)) /\ BlocksRead(paid(k))
    BY <2>5 DEF OnPage, Pages, BlocksCounted, BlocksRead
  <2>8. Fits(paid(k))
    BY <2>5, <2>6, <2>7, FitsBlocks
  <2> QED BY <1>11, <2>5, <2>8 DEF Goes
<1>12. CASE k > 0 /\ k <= Allocated(q(k)) /\ r.url = "blocks" /\ Only(c, totals(k))
  <2>1. totals(k) \in CallType /\ totals(k).step = "totals" /\ Same(totals(k), q(k))
    BY <1>6, StepTo DEF Steps
  <2> HIDE DEF totals
  <2>2. BlocksRead(totals(k))
    <3>1. SUFFICES ASSUME ~q(k).touched
                   PROVE  /\ k \in r.before .. Len(blocks_found)
                          /\ k > 0 /\ r.count = r.before
                          /\ r.before > 0 => k = r.count
      BY <1>6, <2>1 DEF BlocksRead, Same
    <3>2. r.count = r.before /\ k >= r.before
      BY <1>8, <3>1
    <3> QED BY <1>2, <1>4, <1>5, <1>8, <1>12, <3>2
  <2>3. OnPage(totals(k)) /\ BlocksCounted(totals(k)) /\ RewardsAdded(totals(k))
    BY <1>6, <1>12, <2>1 DEF OnPage, Pages, BlocksCounted, RewardsAdded, Same
  <2>4. Fits(totals(k))
    BY <2>1, <2>2, <2>3, FitsBlocks
  <2> QED BY <1>12, <2>1, <2>4 DEF Goes
<1> QED
  BY <1>3, <1>6, <1>9, <1>10, <1>11, <1>12

LEMMA CountPaymentsGoes ==
  ASSUME Ready, NEW c \in Connection, CountPayments(c) PROVE Goes(c)
<1> DEFINE r == call[c]
           q == [r EXCEPT !.step = "votes"]
<1>1. /\ r \in CallType /\ r.step = "paid" /\ r.method = "GET"
      /\ r.url = "statistics" /\ RewardsAdded(r)
  BY ReadyCall DEF CountPayments, Fits, OnPage, Pages
<1>2. q \in CallType /\ q.step = "votes" /\ Same(q, r)
  <2> HIDE DEF r
  <2> QED BY <1>1, StepTo DEF Steps
<1>3. Only(c, q)
  BY DEF CountPayments
<1> HIDE DEF q, r
<1>4. RewardsAdded(q)
  BY <1>1, <1>2 DEF RewardsAdded, Same
<1>5. OnPage(q) /\ VotersCounted(q)
  BY <1>1, <1>2 DEF OnPage, Pages, VotersCounted, Same
<1>6. Fits(q)
  BY <1>2, <1>4, <1>5, FitsVotes
<1> QED
  BY <1>2, <1>3, <1>6 DEF Goes

LEMMA CountVotesGoes ==
  ASSUME Ready, NEW c \in Connection, CountVotes(c) PROVE Goes(c)
<1> DEFINE r == call[c]
           q(n) == [r EXCEPT !.now = @ + n]
           next(n) == [q(n) EXCEPT !.at = @ + 1]
<1>1. /\ r \in CallType /\ r.step = "votes" /\ r.method = "GET"
      /\ r.url = "statistics" /\ RewardsAdded(r)
  BY ReadyCall DEF CountVotes, Fits, OnPage, Pages
<1>2. r.at \in Proof /\ r.now \in Int /\ Collections \in Nat
  BY <1>1, FieldTypes, WebServerAssumption DEF WebServerAssumption
<1>3. PICK n \in Counts(proofs[r.at]) :
         Only(c, IF q(n).at = Collections THEN Reply(q(n), 200) ELSE next(n))
  BY DEF CountVotes
<1>4. n \in Int
  BY <1>2, CountsAre, VotesUpTo DEF Ready
<1>5. /\ q(n) \in CallType /\ q(n).step = "votes" /\ q(n).method = "GET"
      /\ q(n).url = "statistics" /\ q(n).at = r.at /\ q(n).before = r.before
      /\ q(n).total = r.total /\ q(n).touched = r.touched
  <2>1. r.now + n \in Int
    BY <1>2, <1>4
  <2> HIDE DEF r
  <2> QED BY <1>1, <2>1 DEF CallType
<1> HIDE DEF q
<1>6. \/ r.touched
      \/ \E k \in r.before .. Len(blocks_found) : r.total = Sum(blocks_found, 1 .. k)
  BY <1>1 DEF RewardsAdded
<1>7. CASE q(n).at = Collections
  <2>1. Reply(q(n), 200).status = 200 /\ Same(Reply(q(n), 200), q(n))
    BY <1>5, ReplyFields
  <2>2. q(n).touched \/ IsCurrent(Reply(q(n), 200))
    BY <1>5, <1>6, <2>1 DEF IsCurrent, Same
  <2>3. Only(c, Reply(q(n), 200))
    BY <1>3, <1>7
  <2> QED BY <1>5, <2>2, <2>3, Replies
<1>8. CASE q(n).at # Collections
  <2>1. q(n).at + 1 \in Proof
    BY <1>2, <1>5, <1>8 DEF Proof
  <2>2. /\ next(n) \in CallType /\ next(n).step = "votes"
        /\ next(n).method = "GET" /\ next(n).url = "statistics"
        /\ next(n).before = r.before /\ next(n).total = r.total
        /\ next(n).touched = r.touched
    BY <1>5, <2>1 DEF CallType
  <2>3. Only(c, next(n))
    BY <1>3, <1>8
  <2> HIDE DEF next
  <2>4. RewardsAdded(next(n)) /\ OnPage(next(n)) /\ VotersCounted(next(n))
    BY <1>6, <2>2 DEF RewardsAdded, OnPage, Pages, VotersCounted
  <2>5. Fits(next(n))
    BY <2>2, <2>4, FitsVotes
  <2> QED BY <2>2, <2>3, <2>5 DEF Goes
<1> QED
  BY <1>7, <1>8

LEMMA ReadTotalsGoes ==
  ASSUME Ready, NEW c \in Connection, ReadTotals(c) PROVE Goes(c)
<1> DEFINE r == call[c]
<1>1. /\ r \in CallType /\ r.step = "totals" /\ r.method = "GET"
      /\ r.url = "blocks" /\ BlocksRead(r)
  BY ReadyCall DEF ReadTotals, Fits, OnPage, Pages
<1>2. r.rows \in Nat /\ r.count \in Int /\ r.before \in Nat
  BY <1>1, FieldTypes
<1>3. CASE r.rows + 1 > Allocated(r) /\ Undefined(c, r)
  <2>1. r.touched \/ (r.before = 0 /\ blocks_found # << >>)
    <3>1. SUFFICES ASSUME ~r.touched PROVE r.before = 0 /\ blocks_found # << >>
      OBVIOUS
    <3>2. /\ r.rows \in r.before .. Len(blocks_found)
          /\ r.rows > 0 /\ r.count = r.before
          /\ r.before > 0 => r.rows = r.count
      BY <1>1, <3>1 DEF BlocksRead
    <3>3. Allocated(r) = r.count + 1
      BY <1>1 DEF Allocated
    <3>4. r.before = 0
      BY <1>2, <1>3, <3>2, <3>3
    <3>5. Len(blocks_found) > 0
      BY <1>2, <3>2, BlocksAre DEF Ready
    <3> QED BY <3>4, <3>5, BlocksAre DEF Ready
  <2>2. Stuck(r)
    BY <1>1, <2>1 DEF Stuck, HasACause
  <2> QED BY <1>1, <1>3, <2>2 DEF Goes
<1>4. CASE Only(c, Reply(r, 200))
  <2>1. Reply(r, 200).status = 200 /\ Same(Reply(r, 200), r)
    BY <1>1, ReplyFields
  <2>2. ~r.touched => r.rows \in r.before .. Len(blocks_found)
    BY <1>1 DEF BlocksRead
  <2>3. r.touched \/ IsCurrent(Reply(r, 200))
    BY <1>1, <2>1, <2>2 DEF IsCurrent, Same
  <2> QED BY <1>1, <1>4, <2>3, Replies
<1> QED
  BY <1>3, <1>4 DEF ReadTotals

-----------------------------------------------------------------------------
(* An address and its payments.                                            *)

LEMMA CountAddressGoes ==
  ASSUME Ready, NEW c \in Connection, CountAddress(c) PROVE Goes(c)
<1> DEFINE r == call[c]
           there == IF listed THEN 1 ELSE 0
           q(n) == Counted(r, n, there)
           s(n) == [q(n) EXCEPT !.step = "rows"]
<1>1. /\ r \in CallType /\ r.step = "count" /\ r.method = "GET"
      /\ r.url = "address"
  BY ReadyCall DEF CountAddress, Fits, OnPage, Pages
<1>2. PICK n \in Counts(there) :
         Only(c, IF n <= 0 THEN Reply(q(n), 400) ELSE s(n))
  BY DEF CountAddress
<1>3. there \in {0, 1} /\ (there = 1 => listed)
  OBVIOUS
<1> HIDE DEF there
<1>4. n \in Int /\ (n = there \/ n = -1)
  BY <1>3, CountsAre
<1>5. /\ q(n) \in CallType /\ q(n).step = "count" /\ q(n).method = "GET"
      /\ q(n).url = "address" /\ q(n).before = there
      /\ q(n).touched <=> (r.touched \/ n < 0)
  <2> HIDE DEF r
  <2> QED BY <1>1, <1>3, <1>4, CountedFields
<1> HIDE DEF q
<1>6. CASE n <= 0
  <2>1. q(n).touched \/ q(n).before = 0
    BY <1>3, <1>4, <1>5, <1>6
  <2>2. Only(c, Reply(q(n), 400))
    BY <1>2, <1>6
  <2> QED BY <1>5, <2>1, <2>2, RepliesNothing
<1>7. CASE ~(n <= 0)
  <2>1. listed
    BY <1>3, <1>4, <1>7
  <2>2. s(n) \in CallType /\ s(n).step = "rows" /\ Same(s(n), q(n))
    BY <1>5, StepTo DEF Steps
  <2>3. Only(c, s(n))
    BY <1>2, <1>7
  <2> HIDE DEF s
  <2>4. AddressCounted(s(n)) /\ PaymentsCounted(s(n))
    BY <1>5, <2>1, <2>2 DEF AddressCounted, PaymentsCounted, Same
  <2>5. Fits(s(n))
    BY <1>5, <2>2, <2>4, FitsRows DEF Same
  <2> QED BY <2>2, <2>3, <2>5 DEF Goes
<1> QED
  BY <1>6, <1>7

LEMMA ReadAddressGoes ==
  ASSUME Ready, NEW c \in Connection, ReadAddress(c) PROVE Goes(c)
<1> DEFINE r == call[c]
           found == [r EXCEPT !.rows = 1]
           touched == [r EXCEPT !.touched = TRUE]
<1>1. /\ r \in CallType /\ r.step = "rows" /\ r.method = "GET"
      /\ r.url = "address" /\ (r.touched \/ listed)
  BY ReadyCall DEF ReadAddress, Fits, OnPage, Pages, AddressCounted
<1>2. CASE Only(c, Reply(found, 200))
  <2>1. /\ found \in CallType /\ found.method = "GET"
        /\ found.url = "address" /\ found.rows = 1
    BY <1>1 DEF CallType
  <2> HIDE DEF found
  <2>2. Reply(found, 200).status = 200 /\ Same(Reply(found, 200), found)
    BY <2>1, ReplyFields
  <2>3. IsCurrent(Reply(found, 200))
    BY <2>1, <2>2 DEF IsCurrent, Same
  <2> QED BY <1>2, <2>1, <2>3, Replies
<1>3. CASE ~listed /\ Only(c, Reply(r, 200))
  <2>1. r.touched
    BY <1>1, <1>3
  <2> QED BY <1>1, <1>3, <2>1, Replies
<1>4. CASE Only(c, Reply(touched, 200))
  <2>1. touched \in CallType /\ touched.method = "GET" /\ touched.touched
    BY <1>1 DEF CallType
  <2> HIDE DEF touched
  <2> QED BY <1>4, <2>1, Replies
<1> QED
  BY <1>2, <1>3, <1>4 DEF ReadAddress

LEMMA CountAddressPaymentsGoes ==
  ASSUME Ready, NEW c \in Connection, CountAddressPayments(c) PROVE Goes(c)
<1> DEFINE r == call[c]
           q(n) == Counted(r, n, payments)
           s(n) == [q(n) EXCEPT !.step = "rows"]
<1>1. /\ r \in CallType /\ r.step = "count" /\ r.method = "GET"
      /\ r.url = "payments"
  BY ReadyCall DEF CountAddressPayments, Fits, OnPage, Pages
<1>2. PICK n \in Counts(payments) :
         \/ n <= 0 /\ Only(c, Reply(q(n), 400))
         \/ n > Capacity /\ Undefined(c, q(n))
         \/ n \in 1 .. Capacity /\ Only(c, s(n))
  BY DEF CountAddressPayments
<1>3. payments \in Nat
  BY DEF Ready, StateTypes
<1>4. n \in Int /\ (n = payments \/ n = -1)
  BY <1>3, CountsAre
<1>5. /\ q(n) \in CallType /\ q(n).step = "count" /\ q(n).method = "GET"
      /\ q(n).url = "payments" /\ q(n).count = n /\ q(n).before = payments
      /\ q(n).touched <=> (r.touched \/ n < 0)
  <2> HIDE DEF r
  <2> QED BY <1>1, <1>3, <1>4, CountedFields
<1> HIDE DEF q
<1>6. CASE n <= 0 /\ Only(c, Reply(q(n), 400))
  <2>1. q(n).touched \/ q(n).before = 0
    BY <1>3, <1>4, <1>5, <1>6
  <2> QED BY <1>5, <1>6, <2>1, RepliesNothing
<1>7. CASE n > Capacity /\ Undefined(c, q(n))
  <2>1. Stuck(q(n))
    BY <1>5, <1>7 DEF Stuck, HasACause
  <2> QED BY <1>5, <1>7, <2>1 DEF Goes
<1>8. CASE n \in 1 .. Capacity /\ Only(c, s(n))
  <2>1. s(n) \in CallType /\ s(n).step = "rows" /\ Same(s(n), q(n))
    BY <1>5, StepTo DEF Steps
  <2> HIDE DEF s
  <2>2. n = payments /\ n \in 1 .. payments
    BY <1>3, <1>4, <1>8
  <2>3. PaymentsCounted(s(n)) /\ AddressCounted(s(n))
    BY <1>5, <2>1, <2>2 DEF PaymentsCounted, AddressCounted, Same
  <2>4. Fits(s(n))
    BY <1>5, <2>1, <2>3, FitsRows DEF Same
  <2> QED BY <1>8, <2>1, <2>4 DEF Goes
<1> QED
  BY <1>2, <1>6, <1>7, <1>8

LEMMA ReadPaymentsGoes ==
  ASSUME Ready, NEW c \in Connection, ReadPayments(c) PROVE Goes(c)
<1> DEFINE r == call[c]
           q(k) == [r EXCEPT !.rows = k, !.touched = @ \/ k < r.count]
<1>1. /\ r \in CallType /\ r.step = "rows" /\ r.method = "GET"
      /\ r.url = "payments" /\ r.count = r.before /\ r.count \in 1 .. payments
  BY ReadyCall DEF ReadPayments, Fits, OnPage, Pages, PaymentsCounted
<1>2. PICK k \in ReadRows(payments, r.count) :
         \/ k = 0 /\ Only(c, Reply(q(k), 400))
         \/ k > q(k).count /\ Undefined(c, q(k))
         \/ k \in 1 .. q(k).count /\ Only(c, Reply(q(k), 200))
  BY DEF ReadPayments
<1>3. payments \in Nat
  BY DEF Ready, StateTypes
<1>4. k \in Nat /\ k <= payments /\ k <= r.count
  BY <1>1, <1>3, RowsAre
<1>5. /\ q(k) \in CallType /\ q(k).method = "GET" /\ q(k).url = "payments"
      /\ q(k).count = r.count /\ q(k).before = r.before /\ q(k).rows = k
  BY ZenonT(60), <1>1, <1>4 DEF CallType
<1>6. q(k).touched <=> (r.touched \/ k < r.count)
  BY <1>1 DEF CallType
<1> HIDE DEF q
<1>7. CASE k = 0 /\ Only(c, Reply(q(k), 400))
  <2>1. q(k).touched
    BY <1>1, <1>6, <1>7
  <2> QED BY <1>5, <1>7, <2>1, RepliesNothing
<1>8. CASE k > q(k).count
  BY <1>1, <1>4, <1>5, <1>8
<1>9. CASE Only(c, Reply(q(k), 200))
  <2>1. Reply(q(k), 200).status = 200 /\ Same(Reply(q(k), 200), q(k))
    BY <1>5, ReplyFields
  <2>2. ~q(k).touched => k \in r.before .. payments
    BY <1>1, <1>3, <1>4, <1>6
  <2>3. q(k).touched \/ IsCurrent(Reply(q(k), 200))
    BY <1>5, <2>1, <2>2 DEF IsCurrent, Same
  <2> QED BY <1>5, <1>9, <2>3, Replies
<1> QED
  BY <1>2, <1>7, <1>8, <1>9

-----------------------------------------------------------------------------
(* The list of the voters.                                                 *)

LEMMA Touched ==
  ASSUME NEW r \in CallType
  PROVE  LET q == [r EXCEPT !.touched = TRUE]
         IN  q \in CallType /\ q.method = r.method /\ q.touched
  BY DEF CallType

LEMMA StartsAgain ==
  ASSUME NEW r \in CallType
  PROVE  LET q == [r EXCEPT !.step = "again", !.at = 1]
         IN  /\ q \in CallType /\ q.step = "again" /\ q.at = 1
             /\ q.method = r.method /\ q.url = r.url /\ q.count = r.count
             /\ q.rows = r.rows /\ q.touched = r.touched
<1>1. "again" \in Steps /\ 1 \in Proof
  BY WebServerAssumption DEF WebServerAssumption, Steps, Proof
<1> QED
  BY <1>1 DEF CallType

LEMMA CountVotersGoes ==
  ASSUME Ready, NEW c \in Connection, CountVoters(c) PROVE Goes(c)
<1> DEFINE r == call[c]
           here == proofs[r.at]
           q(n) == Counted(r, r.count + n, r.before + here)
           touched(n) == [q(n) EXCEPT !.touched = TRUE]
           next(n) == [q(n) EXCEPT !.at = @ + 1]
           again(n) == [q(n) EXCEPT !.step = "again", !.at = 1]
<1>1. /\ r \in CallType /\ r.step = "votes" /\ r.method = "GET"
      /\ r.url = "voters"
      /\ r.rows = 0 /\ r.count = r.before
      /\ ~r.touched => r.count = Sum(proofs, 1 .. r.at - 1)
  BY ReadyCall DEF CountVoters, Fits, OnPage, Pages, VotersCounted
<1>2. /\ r.at \in Proof /\ r.count \in Int /\ r.before \in Nat
      /\ r.touched \in BOOLEAN
      /\ Collections \in Nat \ {0} /\ Capacity \in Nat
  BY <1>1, FieldTypes, WebServerAssumption DEF WebServerAssumption
<1>3. PICK n \in Counts(here) :
         \/ n < 0 /\ Only(c, Reply(touched(n), 400))
         \/ n >= 0 /\ q(n).at < Collections /\ Only(c, next(n))
         \/ /\ n >= 0 /\ q(n).at = Collections
            /\ \/ q(n).count <= 0 /\ Only(c, Reply(q(n), 400))
               \/ q(n).count > Capacity /\ Undefined(c, q(n))
               \/ q(n).count \in 1 .. Capacity /\ Only(c, again(n))
  BY DEF CountVoters
<1>4. /\ here \in Nat
      /\ Sum(proofs, 1 .. r.at) = Sum(proofs, 1 .. r.at - 1) + here
  BY <1>2, VotesUpTo DEF Ready
<1> HIDE DEF here
<1>5. n \in Int /\ (n = here \/ n = -1)
  BY <1>4, CountsAre
<1>6. /\ q(n) \in CallType /\ q(n).step = "votes" /\ q(n).method = "GET"
      /\ q(n).url = "voters" /\ q(n).count = r.count + n
      /\ q(n).before = r.before + here /\ q(n).rows = 0 /\ q(n).at = r.at
      /\ q(n).touched <=> (r.touched \/ r.count + n < 0)
  <2>1. r.count + n \in Int /\ r.before + here \in Nat
    BY <1>2, <1>4, <1>5
  <2> HIDE DEF r
  <2> QED BY <1>1, <2>1, CountedFields
<1> HIDE DEF q
<1>7. CASE n < 0 /\ Only(c, Reply(touched(n), 400))
  <2>1. /\ touched(n) \in CallType /\ touched(n).method = "GET"
        /\ touched(n).touched
    BY <1>6, Touched
  <2> HIDE DEF touched
  <2> QED BY <1>7, <2>1, RepliesNothing
<1>8. ASSUME n >= 0
      PROVE  /\ q(n).count = q(n).before
             /\ q(n).touched \/ q(n).count = Sum(proofs, 1 .. r.at)
  BY <1>1, <1>2, <1>4, <1>5, <1>6, <1>8
<1>9. CASE n >= 0 /\ q(n).at < Collections /\ Only(c, next(n))
  <2>1. q(n).at + 1 \in Proof /\ (q(n).at + 1) - 1 = r.at
    BY <1>2, <1>6, <1>9 DEF Proof
  <2>2. /\ next(n) \in CallType /\ next(n).step = "votes"
        /\ next(n).method = "GET" /\ next(n).url = "voters"
        /\ next(n).before = q(n).before /\ next(n).count = q(n).count
        /\ next(n).rows = 0 /\ next(n).at = q(n).at + 1
        /\ next(n).touched = q(n).touched
    BY SMTT(30), <1>6, <2>1 DEF CallType
  <2> HIDE DEF next
  <2>3. next(n).at - 1 = r.at
    BY <2>1, <2>2
  <2>4. VotersCounted(next(n))
    BY <1>8, <1>9, <2>2, <2>3 DEF VotersCounted
  <2>5. OnPage(next(n)) /\ RewardsAdded(next(n))
    BY <2>2 DEF OnPage, Pages, RewardsAdded
  <2>6. Fits(next(n))
    BY <2>2, <2>4, <2>5, FitsVotes
  <2> QED BY <1>9, <2>2, <2>6 DEF Goes
<1>10. CASE n >= 0 /\ q(n).count <= 0 /\ Only(c, Reply(q(n), 400))
  <2>1. q(n).before = 0
    BY <1>2, <1>4, <1>6, <1>8, <1>10
  <2> QED BY <1>6, <1>10, <2>1, RepliesNothing
<1>11. CASE q(n).count > Capacity /\ Undefined(c, q(n))
  <2>1. Stuck(q(n))
    BY <1>6, <1>11 DEF Stuck, HasACause
  <2> QED BY <1>6, <1>11, <2>1 DEF Goes
<1>12. CASE n >= 0 /\ q(n).at = Collections /\ Only(c, again(n))
  <2>1. 1 \in Proof /\ 1 .. 1 - 1 = {} /\ 1 .. r.at = Proof
    BY <1>2, <1>6, <1>12 DEF Proof
  <2>2. /\ again(n) \in CallType /\ again(n).step = "again"
        /\ again(n).method = "GET" /\ again(n).url = "voters"
        /\ again(n).count = q(n).count /\ again(n).rows = 0
        /\ again(n).at = 1 /\ again(n).touched = q(n).touched
    BY <1>6, StartsAgain
  <2> HIDE DEF again
  <2>3. Sum(proofs, 1 .. again(n).at - 1) = 0
    BY <2>1, <2>2, SumEmpty
  <2>4. VotersRead(again(n))
    <3>1. q(n).touched \/ q(n).count = Sum(proofs, Proof)
      BY <1>8, <1>12, <2>1
    <3> QED BY <2>2, <2>3, <3>1 DEF VotersRead
  <2>5. VotersCountedAgain(again(n))
    BY <2>2 DEF VotersCountedAgain
  <2>6. Fits(again(n))
    BY <2>2, <2>4, <2>5, FitsVoters
  <2> QED BY <1>12, <2>2, <2>6 DEF Goes
<1> QED
  BY <1>3, <1>7, <1>9, <1>10, <1>11, <1>12

(* A collection has been read, and all that was read up to it is there.    *)
LEMMA NextCollectionGoes ==
  ASSUME Ready, NEW c \in Connection, NEW r \in CallType, r.method = "GET",
         r.url = "voters", Only(c, NextCollection(r)),
         \/ r.touched
         \/ /\ r.count = Sum(proofs, Proof)
            /\ r.rows = Sum(proofs, 1 .. r.at)
  PROVE  Goes(c)
<1> DEFINE next == [r EXCEPT !.step = "again", !.at = @ + 1]
<1>1. r.at \in Proof /\ Collections \in Nat
  BY FieldTypes, WebServerAssumption DEF WebServerAssumption
<1>2. CASE r.at = Collections
  <2>1. Reply(r, 200).status = 200 /\ Same(Reply(r, 200), r)
    BY ReplyFields
  <2>2. r.touched \/ r.rows = Sum(proofs, Proof)
    BY <1>2 DEF Proof
  <2>3. r.touched \/ IsCurrent(Reply(r, 200))
    BY <2>1, <2>2 DEF IsCurrent, Same
  <2>4. Only(c, Reply(r, 200))
    BY <1>2 DEF NextCollection
  <2> QED BY <2>3, <2>4, Replies
<1>3. CASE r.at # Collections
  <2>1. r.at + 1 \in Proof
    BY <1>1, <1>3 DEF Proof
  <2>2. /\ next \in CallType /\ next.step = "again" /\ next.method = "GET"
        /\ next.url = "voters" /\ next.count = r.count
        /\ next.rows = r.rows /\ next.at = r.at + 1 /\ next.touched = r.touched
    BY <2>1 DEF CallType, Steps
  <2>3. Only(c, next)
    BY <1>3 DEF NextCollection
  <2> HIDE DEF next
  <2>4. next.at - 1 = r.at
    BY <1>1, <2>2 DEF Proof
  <2>5. VotersRead(next) /\ VotersCountedAgain(next)
    BY <2>2, <2>4 DEF VotersRead, VotersCountedAgain
  <2>6. Fits(next)
    BY <2>2, <2>5, FitsVoters
  <2> QED BY <2>2, <2>3, <2>6 DEF Goes
<1> QED
  BY <1>2, <1>3

LEMMA CountAgainGoes ==
  ASSUME Ready, NEW c \in Connection, CountAgain(c) PROVE Goes(c)
<1> DEFINE r == call[c]
           q(n) == [r EXCEPT !.now = n, !.touched = @ \/ n < 0]
           s(n) == [q(n) EXCEPT !.step = "rows"]
<1>1. /\ r \in CallType /\ r.step = "again" /\ r.method = "GET"
      /\ r.url = "voters"
      /\ \/ r.touched
         \/ /\ r.count = Sum(proofs, Proof)
            /\ r.rows = Sum(proofs, 1 .. r.at - 1)
  BY ReadyCall DEF CountAgain, Fits, OnPage, Pages, VotersRead
<1>2. r.at \in Proof /\ r.touched \in BOOLEAN
  BY <1>1, FieldTypes
<1>3. PICK n \in Counts(proofs[r.at]) :
         Only(c, IF n > 0 THEN s(n) ELSE NextCollection(q(n)))
  BY DEF CountAgain
<1>4. /\ proofs[r.at] \in Nat /\ Sum(proofs, 1 .. r.at - 1) \in Nat
      /\ Sum(proofs, 1 .. r.at) = Sum(proofs, 1 .. r.at - 1) + proofs[r.at]
  BY <1>2, VotesUpTo DEF Ready
<1>5. n \in Int /\ (n = proofs[r.at] \/ n = -1)
  BY <1>4, CountsAre
<1>6. /\ q(n) \in CallType /\ q(n).step = "again" /\ q(n).method = "GET"
      /\ q(n).url = "voters" /\ q(n).count = r.count /\ q(n).rows = r.rows
      /\ q(n).at = r.at /\ q(n).now = n
  BY ZenonT(60), <1>1, <1>2, <1>5 DEF CallType
<1>7. q(n).touched <=> (r.touched \/ n < 0)
  BY <1>1 DEF CallType
<1> HIDE DEF q
<1>8. CASE n > 0
  <2>1. s(n) \in CallType /\ s(n).step = "rows" /\ Same(s(n), q(n))
    BY <1>6, StepTo DEF Steps
  <2>2. Only(c, s(n))
    BY <1>3, <1>8
  <2> HIDE DEF s
  <2>3. VotersRead(s(n))
    BY <1>1, <1>6, <1>7, <2>1 DEF VotersRead, Same
  <2>4. VotersCountedAgain(s(n))
    BY <1>5, <1>6, <1>8, <2>1 DEF VotersCountedAgain, Same
  <2>5. Fits(s(n))
    BY <1>6, <2>1, <2>3, <2>4, FitsVoters DEF Same
  <2> QED BY <2>1, <2>2, <2>5 DEF Goes
<1>9. CASE ~(n > 0)
  <2>1. Only(c, NextCollection(q(n)))
    BY <1>3, <1>9
  <2>2. \/ q(n).touched
        \/ /\ q(n).count = Sum(proofs, Proof)
           /\ q(n).rows = Sum(proofs, 1 .. q(n).at)
    <3>1. CASE n < 0
      BY <1>7, <3>1
    <3>2. CASE proofs[r.at] = 0
      BY <1>1, <1>4, <1>6, <1>7, <3>2
    <3> QED BY <1>4, <1>5, <1>9, <3>1, <3>2
  <2> QED BY <1>6, <2>1, <2>2, NextCollectionGoes
<1> QED
  BY <1>8, <1>9

LEMMA ReadVotersGoes ==
  ASSUME Ready, NEW c \in Connection, ReadVoters(c) PROVE Goes(c)
<1> DEFINE r == call[c]
           q(k) == [r EXCEPT !.rows = @ + k, !.touched = @ \/ k < r.now]
<1>1. /\ r \in CallType /\ r.step = "rows" /\ r.method = "GET"
      /\ r.url = "voters" /\ r.now > 0
      /\ \/ r.touched
         \/ /\ r.count = Sum(proofs, Proof)
            /\ r.rows = Sum(proofs, 1 .. r.at - 1)
            /\ r.now = proofs[r.at]
  BY ReadyCall
     DEF ReadVoters, Fits, OnPage, Pages, VotersRead, VotersCountedAgain
<1>2. /\ r.at \in Proof /\ r.touched \in BOOLEAN /\ r.now \in Int
      /\ r.rows \in Nat /\ r.count \in Int
  BY <1>1, FieldTypes
<1>3. PICK k \in ReadRows(proofs[r.at], r.now) :
         \/ k = 0 /\ Only(c, Reply(q(k), 400))
         \/ k > 0 /\ q(k).rows > q(k).count /\ Undefined(c, q(k))
         \/ Only(c, NextCollection(q(k)))
  BY DEF ReadVoters
<1>4. /\ proofs[r.at] \in Nat /\ Sum(proofs, 1 .. r.at - 1) \in Nat
      /\ Sum(proofs, Proof) \in Nat
      /\ Sum(proofs, 1 .. r.at) = Sum(proofs, 1 .. r.at - 1) + proofs[r.at]
      /\ Sum(proofs, 1 .. r.at) <= Sum(proofs, Proof)
  BY <1>2, VotesUpTo DEF Ready
<1>5. /\ k \in Nat /\ k <= proofs[r.at]
      /\ r.now \in 1 .. proofs[r.at] => k <= r.now
  BY <1>2, <1>4, RowsAre
<1>6. /\ q(k) \in CallType /\ q(k).step = "rows" /\ q(k).method = "GET"
      /\ q(k).url = "voters" /\ q(k).count = r.count
      /\ q(k).rows = r.rows + k /\ q(k).at = r.at
  <2>1. r.rows + k \in Nat
    BY <1>2, <1>5
  <2> QED BY ZenonT(60), <1>1, <1>2, <2>1 DEF CallType
<1>7. q(k).touched <=> (r.touched \/ k < r.now)
  BY <1>1 DEF CallType
<1> HIDE DEF q
<1>8. ASSUME ~q(k).touched
      PROVE  /\ r.count = Sum(proofs, Proof) /\ k = r.now
             /\ q(k).rows = Sum(proofs, 1 .. r.at)
  <2>1. /\ r.count = Sum(proofs, Proof)
        /\ r.rows = Sum(proofs, 1 .. r.at - 1)
        /\ r.now = proofs[r.at] /\ ~(k < r.now)
    BY <1>1, <1>7, <1>8
  <2>2. k = r.now
    BY <1>2, <1>4, <1>5, <2>1
  <2> QED BY <1>4, <1>6, <2>1, <2>2
<1>9. CASE k = 0 /\ Only(c, Reply(q(k), 400))
  <2>1. q(k).touched
    BY <1>1, <1>7, <1>9
  <2> QED BY <1>6, <1>9, <2>1, RepliesNothing
<1>10. CASE q(k).rows > q(k).count /\ Undefined(c, q(k))
  <2>1. q(k).touched
    <3>1. SUFFICES ASSUME ~q(k).touched PROVE FALSE
      OBVIOUS
    <3> QED BY <1>4, <1>6, <1>8, <1>10, <3>1
  <2>2. Stuck(q(k))
    BY <1>6, <2>1 DEF Stuck, HasACause
  <2> QED BY <1>6, <1>10, <2>2 DEF Goes
<1>11. CASE Only(c, NextCollection(q(k)))
  <2>1. \/ q(k).touched
        \/ /\ q(k).count = Sum(proofs, Proof)
           /\ q(k).rows = Sum(proofs, 1 .. q(k).at)
    BY <1>6, <1>8
  <2> QED BY <1>6, <1>11, <2>1, NextCollectionGoes
<1> QED
  BY <1>3, <1>9, <1>10, <1>11

-----------------------------------------------------------------------------
(* The steps that take or release something.                               *)

LEMMA NoCallType == NoCall \in CallType
<1>1. 0 \in 0 .. Capacity /\ 1 \in Proof /\ << >> \in Seq(Part)
  BY WebServerAssumption DEF WebServerAssumption, Proof
<1>2. "idle" \in Steps /\ "GET" \in Method /\ "file" \in Url
  BY DEF Steps, Method, Url
<1> QED
  BY <1>1, <1>2 DEF NoCall, CallType

(* A step of one connection that nothing else depends on.                  *)
LEMMA OneKeeps ==
  ASSUME Ready, NEW c \in Connection, NEW r \in CallType, Fits(r),
         call' = [call EXCEPT ![c] = r],
         settings' \in [Connection -> BOOLEAN],
         processors' \in [Connection -> Int], files' \in [Connection -> Int],
         r.step # "idle" => pc \in RunningSteps,
         UNCHANGED <<collections, badStart, pc, undefined>>
  PROVE  WebTypes' /\ WInv'
<1>1. WebTypes'
  BY DEF Ready, WebTypes
<1>2. call'[c] = r /\ \A b \in Connection \ {c} : call'[b] = call[b]
  BY DEF Ready, WebTypes
<1>3. ASSUME NEW b \in Connection PROVE Fits(call[b])'
  <2>1. CASE b = c
    BY <1>2, <2>1, FitsMoves
  <2>2. CASE b # c
    BY <1>2, <2>2, ReadyCall, FitsMoves
  <2> QED BY <2>1, <2>2
<1>4. \A b \in Connection : undefined' # b
  BY WebServerAssumption DEF WebServerAssumption, Ready
<1>5. \A b \in Connection : call'[b].step # "idle" => pc' \in RunningSteps
  BY <1>2 DEF Ready, WInv
<1>6. pc' \in RunningSteps /\ ~badStart' => statistics' > 0
  BY DEF Ready, WInv, collections
<1> QED
  BY <1>1, <1>3, <1>4, <1>5, <1>6 DEF WInv

LEMMA RestIs ==
  ASSUME Rest
  PROVE  UNCHANGED <<collections, badStart, pc, client, timers, starts, changes,
                     requests>>
  BY DEF Rest, main

LEMMA AtWork ==
  ASSUME Ready, NEW c \in Connection, call[c].step # "idle"
  PROVE  pc \in RunningSteps
  BY DEF Ready, WInv

LEMMA PostBeginsKeepsWeb ==
  ASSUME Ready, NEW c \in Connection, PostBegins(c) PROVE WebTypes' /\ WInv'
<1>1. Rest /\ call[c].step = "called"
  BY DEF PostBegins
<1>2. CASE Only(c, [call[c] EXCEPT !.step = "refused"])
  BY <1>1, <1>2, Refuses, GoesKeeps
<1>3. CASE /\ processors' = [processors EXCEPT ![c] = @ + 1]
           /\ settings' = [settings EXCEPT ![c] = TRUE]
           /\ UNCHANGED <<call, files, undefined>>
  <2>1. /\ processors' \in [Connection -> Int] /\ files' \in [Connection -> Int]
        /\ settings' \in [Connection -> BOOLEAN]
        /\ call' = [call EXCEPT ![c] = call[c]]
    BY <1>3 DEF Ready, WebTypes
  <2>2. UNCHANGED <<collections, badStart, pc, undefined>> /\ pc \in RunningSteps
    BY <1>1, <1>3, RestIs, AtWork
  <2> QED BY <2>1, <2>2, ReadyCall, OneKeeps
<1> QED
  BY <1>2, <1>3 DEF PostBegins

LEMMA RequestCompletedKeepsWeb ==
  ASSUME Ready, NEW c \in Connection, RequestCompleted(c)
  PROVE  WebTypes' /\ WInv'
<1>1. Rest /\ call' = [call EXCEPT ![c] = NoCall] /\ UNCHANGED <<files, undefined>>
  BY DEF RequestCompleted, Go
<1>2. /\ processors' \in [Connection -> Int] /\ files' \in [Connection -> Int]
      /\ settings' \in [Connection -> BOOLEAN]
  <2>1. /\ processors' \in {processors, [processors EXCEPT ![c] = @ - 1]}
        /\ settings' \in {settings, [settings EXCEPT ![c] = FALSE]}
    BY DEF RequestCompleted
  <2>2. /\ processors \in [Connection -> Int] /\ files' \in [Connection -> Int]
        /\ settings \in [Connection -> BOOLEAN]
    BY <1>1 DEF Ready, WebTypes
  <2>3. /\ [processors EXCEPT ![c] = @ - 1] \in [Connection -> Int]
        /\ [settings EXCEPT ![c] = FALSE] \in [Connection -> BOOLEAN]
    BY <2>2
  <2> QED BY <2>1, <2>2, <2>3
<1>3. Fits(NoCall) /\ NoCall.step = "idle"
  BY FitsRefused, NoCallIsCall
<1>4. UNCHANGED <<collections, badStart, pc, undefined>>
  BY <1>1, RestIs
<1> QED
  BY <1>1, <1>2, <1>3, <1>4, NoCallType, OneKeeps

LEMMA OpenFileKeepsWeb ==
  ASSUME Ready, NEW c \in Connection, OpenFile(c) PROVE WebTypes' /\ WInv'
<1> DEFINE r == call[c]
           sent == Reply(r, 200)
           sending == [sent EXCEPT !.step = "sending"]
<1>1. /\ Rest /\ r.step = "called" /\ r.method = "GET"
      /\ r.url \in {"file", "nofile"} /\ r \in CallType
  BY ReadyCall DEF OpenFile
<1>2. CASE Only(c, [r EXCEPT !.step = "refused"])
  BY <1>1, <1>2, Refuses, GoesKeeps
<1>3. CASE r.url = "nofile" /\ ~IndexExists /\ Undefined(c, r)
  <2>1. Stuck(r)
    BY <1>1, <1>3 DEF Stuck, HasACause
  <2>2. Goes(c)
    BY <1>1, <1>3, <2>1 DEF Goes
  <2> QED BY <1>1, <2>2, GoesKeeps
<1>4. CASE /\ files' = [files EXCEPT ![c] = @ + 1]
           /\ Go(c, sending)
           /\ UNCHANGED <<settings, processors, undefined>>
  <2>1. /\ processors' \in [Connection -> Int] /\ files' \in [Connection -> Int]
        /\ settings' \in [Connection -> BOOLEAN]
        /\ call' = [call EXCEPT ![c] = sending]
    BY <1>4 DEF Ready, WebTypes, Go
  <2>2. sent \in CallType /\ sent.status = 200 /\ Same(sent, r)
    BY <1>1, ReplyFields
  <2> HIDE DEF sent
  <2>3. /\ sending \in CallType /\ sending.step = "sending"
        /\ sending.status = 200 /\ Same(sending, sent)
    BY <2>2, StepTo DEF Steps
  <2> HIDE DEF sending
  <2>4. Fits(sending)
    BY <1>1, <2>2, <2>3, FitsSending DEF Same
  <2>5. UNCHANGED <<collections, badStart, pc, undefined>> /\ pc \in RunningSteps
    BY <1>1, <1>4, RestIs, AtWork
  <2> QED BY <2>1, <2>3, <2>4, <2>5, OneKeeps
<1> QED
  BY <1>2, <1>3, <1>4 DEF OpenFile

LEMMA SendFileKeepsWeb ==
  ASSUME Ready, NEW c \in Connection, SendFile(c) PROVE WebTypes' /\ WInv'
<1> DEFINE r == call[c]
           answered == [r EXCEPT !.step = "answered"]
<1>1. /\ Rest /\ r.step = "sending" /\ r.method = "GET" /\ r.status = 200
      /\ r.url \in {"file", "nofile"} /\ r \in CallType
  BY ReadyCall DEF SendFile, Fits, OnPage, Pages, FileSent
<1>2. /\ files' = [files EXCEPT ![c] = @ - 1]
      /\ call' = [call EXCEPT ![c] = answered]
      /\ UNCHANGED <<settings, processors, undefined>>
  BY DEF SendFile, Go
<1>3. /\ processors' \in [Connection -> Int] /\ files' \in [Connection -> Int]
      /\ settings' \in [Connection -> BOOLEAN]
  BY <1>2 DEF Ready, WebTypes
<1>4. /\ answered \in CallType /\ answered.step = "answered"
      /\ answered.status = 200 /\ Same(answered, r)
  <2> HIDE DEF r
  <2> QED BY ZenonT(60), <1>1, StepTo DEF Steps
<1>5. UNCHANGED <<collections, badStart, pc, undefined>> /\ pc \in RunningSteps
  BY <1>1, <1>2, RestIs, AtWork
<1> HIDE DEF answered, r
<1>6. Fits(answered)
  <2>1. IsCurrent(answered)
    BY <1>1, <1>4 DEF IsCurrent, Same
  <2> QED BY <1>1, <1>4, <2>1, FitsAnswered DEF Same
<1> QED
  BY <1>2, <1>3, <1>4, <1>5, <1>6, OneKeeps

LEMMA RequestArrivesKeepsWeb ==
  ASSUME Ready, NEW c \in Connection, RequestArrives(c)
  PROVE  WebTypes' /\ WInv'
<1>1. PICK q \in Requests :
         call' = [call EXCEPT ![c] =
                    [NoCall EXCEPT !.step = "called", !.method = q.method,
                                   !.url = q.url, !.parts = q.parts]]
  BY DEF RequestArrives, Go
<1> DEFINE r == [NoCall EXCEPT !.step = "called", !.method = q.method,
                               !.url = q.url, !.parts = q.parts]
<1>2. q.method \in Method /\ q.url \in Url /\ q.parts \in Seq(Part)
  BY WebServerAssumption DEF WebServerAssumption
<1>3. r \in CallType
  BY ZenonT(60), <1>2, NoCallType DEF CallType, Steps
<1>4. /\ r.step = "called" /\ r.count = 0 /\ r.rows = 0 /\ r.at = 1
      /\ r.before = 0
  BY DEF NoCall
<1>5. call' = [call EXCEPT ![c] = r]
  BY <1>1
<1> HIDE DEF r
<1>6. Fits(r)
  BY <1>3, <1>4, FitsCalled DEF OnPage, Pages
<1>7. /\ UNCHANGED <<collections, badStart, pc, undefined, settings,
                     processors, files>>
      /\ pc \in RunningSteps
  BY DEF RequestArrives, main, RunningSteps
<1>8. /\ processors' \in [Connection -> Int] /\ files' \in [Connection -> Int]
      /\ settings' \in [Connection -> BOOLEAN]
  BY <1>7 DEF Ready, WebTypes
<1> QED
  BY <1>3, <1>5, <1>6, <1>7, <1>8, OneKeeps

(* The handlers that go from one call to the next.                         *)
Walks(c) ==
    \/ OtherMethod(c) \/ PostPart(c) \/ PostEnds(c) \/ Dispatch(c)
    \/ OutOfMemory(c) \/ CountBlocks(c) \/ ReadStatistics(c) \/ ReadBlocks(c)
    \/ CountPayments(c) \/ CountVotes(c) \/ ReadTotals(c)
    \/ CountAddress(c) \/ ReadAddress(c)
    \/ CountVoters(c) \/ CountAgain(c) \/ ReadVoters(c)
    \/ CountAddressPayments(c) \/ ReadPayments(c) \/ ClientGivesUp(c)

LEMMA WalksAtWork ==
  ASSUME NEW c \in Connection, Walks(c) PROVE call[c].step # "idle" /\ Rest
<1>1. OtherMethod(c) \/ PostPart(c) \/ PostEnds(c) \/ Dispatch(c) \/ OutOfMemory(c)
      => call[c].step # "idle" /\ Rest
  BY DEF OtherMethod, PostPart, PostEnds, Dispatch, OutOfMemory
<1>2. CountBlocks(c) \/ ReadStatistics(c) \/ ReadBlocks(c) \/ CountPayments(c)
      => call[c].step # "idle" /\ Rest
  BY DEF CountBlocks, ReadStatistics, ReadBlocks, CountPayments
<1>3. CountVotes(c) \/ ReadTotals(c) \/ CountAddress(c) \/ ReadAddress(c)
      => call[c].step # "idle" /\ Rest
  BY DEF CountVotes, ReadTotals, CountAddress, ReadAddress
<1>4. CountVoters(c) \/ CountAgain(c) \/ ReadVoters(c)
      => call[c].step # "idle" /\ Rest
  BY DEF CountVoters, CountAgain, ReadVoters
<1>5. CountAddressPayments(c) \/ ReadPayments(c) \/ ClientGivesUp(c)
      => call[c].step # "idle" /\ Rest
  BY DEF CountAddressPayments, ReadPayments, ClientGivesUp
<1> QED
  BY <1>1, <1>2, <1>3, <1>4, <1>5 DEF Walks

LEMMA WalksGo == ASSUME Ready, NEW c \in Connection, Walks(c) PROVE Goes(c)
  BY OtherMethodGoes, PostPartGoes, PostEndsGoes, DispatchGoes,
     OutOfMemoryGoes, CountBlocksGoes, ReadStatisticsGoes, ReadBlocksGoes,
     CountPaymentsGoes, CountVotesGoes, ReadTotalsGoes, CountAddressGoes,
     ReadAddressGoes, CountVotersGoes, CountAgainGoes, ReadVotersGoes,
     CountAddressPaymentsGoes, ReadPaymentsGoes, ClientGivesUpGoes DEF Walks

LEMMA ConnectionKeepsWeb ==
  ASSUME Ready, NEW c \in Connection, Handle(c) \/ Client(c)
  PROVE  StateTypes' /\ WebTypes' /\ WInv'
<1>1. WebTypes' /\ WInv'
  <2>1. CASE Walks(c)
    BY <2>1, WalksAtWork, WalksGo, GoesKeeps
  <2> QED
    BY <2>1, PostBeginsKeepsWeb, RequestCompletedKeepsWeb, OpenFileKeepsWeb,
       SendFileKeepsWeb, RequestArrivesKeepsWeb DEF Handle, Client, Walks
<1>2. StateTypes'
  <2>1. CASE RequestArrives(c)
    <3>1. /\ UNCHANGED <<main, changes, collections>>
          /\ requests < MaxRequests /\ requests' = requests + 1
      BY <2>1 DEF RequestArrives
    <3>2. requests' \in 0 .. MaxRequests
      BY <3>1, WebServerAssumption DEF WebServerAssumption, Ready, StateTypes
    <3> QED BY <3>1, <3>2 DEF Ready, StateTypes, main, collections
  <2>2. CASE Rest
    BY <2>2 DEF Rest, Ready, StateTypes, main, collections
  <2> QED
    BY <2>1, <2>2, HandleLeavesMain DEF Client, ClientGivesUp
<1> QED BY <1>1, <1>2

-----------------------------------------------------------------------------
(* main.                                                                   *)

LEMMA IdleFits ==
  ASSUME NEW c, call'[c].step = "idle"
  PROVE  Fits(call[c])'
  BY DEF Fits, OnPage, Pages, NothingYet, FileSent, BlocksCounted, RewardsAdded,
         BlocksRead, VotersCounted, VotersRead, VotersCountedAgain,
         AddressCounted, PaymentsCounted, Answered

LEMMA NoneUndefined ==
  ASSUME Ready, undefined' = undefined, NEW c \in Connection
  PROVE  undefined' # c
  BY WebServerAssumption DEF WebServerAssumption, Ready

LEMMA ExitKeepsWeb == ASSUME Ready, Exit PROVE WebTypes' /\ WInv'
<1>1. WebTypes'
  BY NoCallType DEF Exit, Ready, WebTypes
<1>2. ASSUME NEW c \in Connection
      PROVE  undefined' # c /\ Fits(call[c])' /\ call'[c].step = "idle"
  <2>1. call'[c].step = "idle"
    BY NoCallIsCall DEF Exit
  <2>2. undefined' = undefined
    BY DEF Exit
  <2> QED BY <2>1, <2>2, IdleFits, NoneUndefined
<1> QED
  BY <1>1, <1>2 DEF Exit, WInv, RunningSteps

(* A step of main that the website does not notice.                        *)
LEMMA QuietKeepsWeb ==
  ASSUME Ready, UNCHANGED <<web, undefined>>,
         UNCHANGED collections \/ pc \notin RunningSteps,
         pc \in RunningSteps => pc' \in RunningSteps,
         pc' \in RunningSteps /\ ~badStart' => statistics' > 0
  PROVE  WebTypes' /\ WInv'
<1>1. WebTypes'
  BY DEF Ready, WebTypes, web
<1>2. ASSUME NEW c \in Connection
      PROVE  undefined' # c /\ Fits(call[c])'
             /\ (call'[c].step # "idle" => pc' \in RunningSteps)
  <2>1. call'[c] = call[c] /\ undefined' = undefined
    BY DEF web
  <2>2. CASE call[c].step = "idle"
    BY <2>1, <2>2, IdleFits, NoneUndefined
  <2>3. CASE call[c].step # "idle"
    <3>1. pc \in RunningSteps
      BY <2>3, AtWork
    <3>2. UNCHANGED collections
      BY <3>1
    <3>3. Fits(call[c])'
      BY <2>1, <3>2, ReadyCall, FitsMoves
    <3> QED BY <2>1, <3>1, <3>3, NoneUndefined
  <2> QED BY <2>2, <2>3
<1> QED
  BY <1>1, <1>2 DEF WInv

LEMMA StatisticsThere ==
  ASSUME Ready, pc \in RunningSteps, UNCHANGED <<badStart, statistics>>
  PROVE  ~badStart' => statistics' > 0
  BY DEF Ready, WInv

LEMMA MainKeepsWeb == ASSUME Ready, Main PROVE WebTypes' /\ WInv'
<1>1. CASE Exit
  BY <1>1, ExitKeepsWeb
<1>2. CASE \/ StartProgram \/ ReadParameters
           \/ ((Connect \/ GetAddress) /\ ~Exit)
  <2>1. /\ UNCHANGED <<web, undefined, collections>>
        /\ pc \notin RunningSteps /\ pc' \notin RunningSteps
    BY <1>2 DEF StartProgram, ReadParameters, Connect, GetAddress, Gone,
                RunningSteps
  <2> QED BY <2>1, QuietKeepsWeb
<1>3. CASE \/ KeyPressed \/ ServerStopped \/ DestroyClient
           \/ (StartServer /\ ~Exit)
  <2>1. /\ UNCHANGED <<web, undefined, collections, badStart>>
        /\ pc \in RunningSteps /\ pc' \in RunningSteps
    BY <1>3 DEF KeyPressed, ServerStopped, DestroyClient, StartServer,
                RunningSteps
  <2>2. UNCHANGED <<badStart, statistics>>
    BY <2>1 DEF collections
  <2> QED BY <2>1, <2>2, StatisticsThere, QuietKeepsWeb
<1>4. CASE (StartBlockTimer \/ StartPaymentTimer) /\ ~Exit
  <2>1. /\ UNCHANGED <<web, undefined, collections, badStart>>
        /\ pc \in RunningSteps /\ pc' \in RunningSteps
    BY <1>4 DEF StartBlockTimer, StartPaymentTimer, StartThread, Gone,
                RunningSteps
  <2>2. UNCHANGED <<badStart, statistics>>
    BY <2>1 DEF collections
  <2> QED BY <2>1, <2>2, StatisticsThere, QuietKeepsWeb
<1>5. CASE CountStatistics
  <2>1. PICK n \in Counts(statistics) :
           /\ pc' = IF n <= 0 THEN "insert" ELSE "blocks"
           /\ badStart' = (badStart \/ n < 0)
    BY <1>5 DEF CountStatistics
  <2>2. /\ UNCHANGED <<web, undefined, collections>> /\ pc \notin RunningSteps
        /\ UNCHANGED statistics
    BY <1>5 DEF CountStatistics, RunningSteps, collections
  <2>3. n \in Int /\ (n = statistics \/ n = -1)
    BY CountsAre DEF Ready, StateTypes
  <2>4. pc' \in RunningSteps => statistics' > 0
    BY <2>1, <2>2, <2>3 DEF RunningSteps
  <2> QED BY <2>2, <2>4, QuietKeepsWeb
<1>6. CASE InsertStatistics
  <2>1. UNCHANGED <<web, undefined>> /\ pc \notin RunningSteps
    BY <1>6 DEF InsertStatistics, RunningSteps
  <2>2. ~badStart' => statistics' > 0
    BY <1>6 DEF InsertStatistics, Ready, StateTypes
  <2> QED BY <2>1, <2>2, QuietKeepsWeb
<1>7. InvalidParameters \/ AddTestData \/ RemoveTestData \/ Cleanup => Exit
  BY DEF InvalidParameters, AddTestData, RemoveTestData, Cleanup, Gone
<1> QED
  BY <1>1, <1>2, <1>3, <1>4, <1>5, <1>6, <1>7 DEF Main

-----------------------------------------------------------------------------
(* The types of main's state and of the collections.                       *)

BlockType == Rewards \cup {TestReward}

(* The indices that are asked for have a least one.                        *)
LEMMA LeastIndex ==
  ASSUME NEW n \in Nat, NEW I \in SUBSET (1 .. n), I # {}
  PROVE  \E x \in I : \A y \in I : x <= y
<1> DEFINE B == {1 .. x : x \in I}
           S == 1 .. n
<1>1. IsFiniteSet(S) /\ B \subseteq SUBSET S /\ B # {}
  <2>1. IsFiniteSet(1 .. n)
    BY FS_Interval
  <2>2. \A x \in I : 1 .. x \subseteq 1 .. n
    OBVIOUS
  <2> QED BY <2>1, <2>2
<1>2. PICK T \in B : \A U \in B : U \subseteq T => U = T
  <2> HIDE DEF B, S
  <2> QED BY <1>1, SmallestPart
<1>3. PICK x \in I : T = 1 .. x
  OBVIOUS
<1>4. ASSUME NEW y \in I, y < x PROVE FALSE
  <2>1. 1 .. y \in B /\ 1 .. y \subseteq T /\ x \in T /\ x \notin 1 .. y
    BY <1>3, <1>4
  <2> QED BY <1>2, <2>1
<1> QED
  BY <1>4

LEMMA Without ==
  ASSUME NEW s \in Seq(BlockType), NEW e
  PROVE  RemoveFirst(s, e) \in Seq(BlockType)
<1>1. CASE ~ \E i \in 1 .. Len(s) : s[i] = e
  BY <1>1 DEF RemoveFirst
<1>2. CASE \E i \in 1 .. Len(s) : s[i] = e
  <2> DEFINE I == {i \in 1 .. Len(s) : s[i] = e}
             p == SelectInSeq(s, LAMBDA v : v = e)
  <2>1. RemoveFirst(s, e) = SubSeq(s, 1, p - 1) \o SubSeq(s, p + 1, Len(s))
    BY <1>2 DEF RemoveFirst, RemoveAt
  <2>2. p = Min(I)
    BY <1>2 DEF SelectInSeq
  <2>3. Min(I) \in I
    <3>1. \E x \in I : \A y \in I : x <= y
      <4>1. I \in SUBSET (1 .. Len(s)) /\ I # {} /\ Len(s) \in Nat
        BY <1>2
      <4> HIDE DEF I
      <4> QED BY <4>1, LeastIndex
    <3> HIDE DEF I
    <3> QED BY <3>1 DEF Min
  <2>4. p \in 1 .. Len(s)
    BY <2>2, <2>3
  <2> HIDE DEF p
  <2>5. /\ SubSeq(s, 1, p - 1) \in Seq(BlockType)
        /\ SubSeq(s, p + 1, Len(s)) \in Seq(BlockType)
    BY <2>4
  <2> QED BY <2>1, <2>5
<1> QED BY <1>1, <1>2

LEMMA MainTypes == ASSUME Ready, Main PROVE StateTypes'
<1>1. CASE AddTestData
  <2>1. pc' = "gone" /\ client' = "none" /\ timers' = {}
        /\ UNCHANGED <<starts, changes, requests, listed, payments>>
    BY <1>1 DEF AddTestData, Exit
  <2>2. PICK n \in Written(1) : /\ statistics' = statistics + n
                                /\ badStart' = (badStart \/ statistics + n > 1)
    BY <1>1 DEF AddTestData
  <2>3. statistics' \in Nat /\ badStart' \in BOOLEAN
    BY <2>2, WrittenOnce DEF Ready, StateTypes
  <2>4. PICK m \in Written(2) :
           blocks_found' = blocks_found \o [k \in 1 .. m |-> TestReward]
    BY <1>1 DEF AddTestData
  <2>5. m \in Nat
    BY DEF Written
  <2>6. [k \in 1 .. m |-> TestReward] \in Seq(BlockType)
    BY <2>5 DEF BlockType
  <2>7. blocks_found' \in Seq(BlockType)
    BY <2>4, <2>6 DEF Ready, StateTypes, BlockType
  <2>8. PICK v \in [Proof -> 0 .. Len(TestVotes)] :
           proofs' = [i \in Proof |-> proofs[i] + v[i]]
    BY <1>1 DEF AddTestData
  <2>9. Len(TestVotes) \in Nat
    BY WebServerAssumption DEF WebServerAssumption
  <2>10. proofs' \in [Proof -> Nat]
    BY <2>8, <2>9 DEF Ready, StateTypes
  <2> QED
    BY <2>1, <2>3, <2>7, <2>10 DEF Ready, StateTypes, MainSteps, BlockType
<1>2. CASE RemoveTestData
  <2>1. pc' = "gone" /\ client' = "none" /\ timers' = {}
        /\ UNCHANGED <<starts, changes, requests, listed, payments, badStart>>
    BY <1>2 DEF RemoveTestData, Exit
  <2>2. PICK n \in Written(1) : statistics' = Max({0, statistics - n})
    BY <1>2 DEF RemoveTestData
  <2>3. statistics - n \in Int
    BY WrittenOnce DEF Ready, StateTypes
  <2>4. statistics' \in Nat
    BY <2>2, <2>3, MaxWithZero
  <2> DEFINE once == RemoveFirst(blocks_found, TestReward)
             twice == RemoveFirst(once, TestReward)
  <2>5. PICK m \in Written(2) : blocks_found' = <<blocks_found, once, twice>>[m + 1]
    BY <1>2 DEF RemoveTestData
  <2>6. once \in Seq(BlockType) /\ twice \in Seq(BlockType)
    BY Without DEF Ready, StateTypes, BlockType
  <2>7. m \in 0 .. 2
    BY DEF Written
  <2>8. blocks_found' \in Seq(BlockType)
    <3> HIDE DEF once, twice
    <3> QED BY <2>5, <2>6, <2>7 DEF Ready, StateTypes, BlockType
  <2>9. PICK v \in [Proof -> 0 .. Len(TestVotes)] :
           proofs' = [i \in Proof |-> Max({0, proofs[i] - v[i]})]
    BY <1>2 DEF RemoveTestData
  <2>10. Len(TestVotes) \in Nat
    BY WebServerAssumption DEF WebServerAssumption
  <2>11. \A i \in Proof : proofs[i] - v[i] \in Int
    BY <2>10 DEF Ready, StateTypes
  <2>12. \A i \in Proof : Max({0, proofs[i] - v[i]}) \in Nat
    BY <2>11, MaxWithZero
  <2>13. proofs' \in [Proof -> Nat]
    BY <2>9, <2>12
  <2> QED
    BY <2>1, <2>4, <2>8, <2>13 DEF Ready, StateTypes, MainSteps, BlockType
<1>3. CASE Gone /\ UNCHANGED badStart
  BY <1>3 DEF Gone, Exit, Ready, StateTypes, MainSteps, collections
<1>4. CASE StartProgram
  <2>1. starts' \in 0 .. MaxStarts
    BY <1>4, WebServerAssumption
       DEF WebServerAssumption, StartProgram, Ready, StateTypes
  <2> QED
    BY <1>4, <2>1
       DEF StartProgram, Ready, StateTypes, MainSteps, collections, web
<1>5. CASE ((Connect \/ GetAddress) /\ ~Gone) \/ ReadParameters
  BY <1>5 DEF Connect, GetAddress, ReadParameters, Ready, StateTypes,
              MainSteps, collections, web
<1>6. CASE CountStatistics
  <2>1. PICK n \in Counts(statistics) :
           /\ pc' = IF n <= 0 THEN "insert" ELSE "blocks"
           /\ badStart' = (badStart \/ n < 0)
    BY <1>6 DEF CountStatistics
  <2>2. pc' \in MainSteps /\ badStart' \in BOOLEAN
    BY <2>1 DEF MainSteps
  <2> QED
    BY <1>6, <2>2 DEF CountStatistics, Ready, StateTypes, collections, web
<1>7. CASE InsertStatistics
  <2>1. statistics' \in {statistics + 1, statistics} /\ badStart' \in {badStart, TRUE}
    BY <1>7, Zenon DEF InsertStatistics
  <2>2. statistics' \in Nat
    BY <2>1 DEF Ready, StateTypes
  <2>3. badStart' \in BOOLEAN
    BY <2>1, Zenon DEF Ready, StateTypes
  <2>4. pc' \in MainSteps
    BY <1>7 DEF InsertStatistics, MainSteps
  <2> QED
    BY <1>7, <2>2, <2>3, <2>4 DEF InsertStatistics, Ready, StateTypes, web
<1>8. CASE (StartBlockTimer \/ StartPaymentTimer) /\ ~Gone
  BY <1>8 DEF StartBlockTimer, StartPaymentTimer, StartThread, Ready,
              StateTypes, MainSteps, collections, web
<1>9. CASE StartServer \/ KeyPressed \/ ServerStopped \/ DestroyClient
  BY <1>9 DEF StartServer, KeyPressed, ServerStopped, DestroyClient, Ready,
              StateTypes, MainSteps, collections, web
<1>10. /\ InvalidParameters \/ Cleanup => Gone /\ UNCHANGED badStart
       /\ Connect \/ GetAddress \/ StartBlockTimer \/ StartPaymentTimer
          => UNCHANGED badStart
  BY DEF InvalidParameters, Cleanup, Connect, GetAddress, StartBlockTimer,
         StartPaymentTimer, StartThread
<1> QED
  BY <1>1, <1>2, <1>3, <1>4, <1>5, <1>6, <1>7, <1>8, <1>9, <1>10 DEF Main

-----------------------------------------------------------------------------
(* The timers and the other programs.                                      *)

(* A block more leaves the sums over the blocks before it.                 *)
LEMMA OneBlockMore ==
  ASSUME StateTypes, NEW x, blocks_found' = Append(blocks_found, x)
  PROVE  /\ Len(blocks_found') = Len(blocks_found) + 1
         /\ Len(blocks_found) \in Nat
         /\ \A k \in 0 .. Len(blocks_found) :
               Sum(blocks_found', 1 .. k) = Sum(blocks_found, 1 .. k)
<1>1. /\ Len(blocks_found') = Len(blocks_found) + 1
      /\ Len(blocks_found) \in Nat
      /\ \A j \in 1 .. Len(blocks_found) : blocks_found'[j] = blocks_found[j]
  BY DEF StateTypes
<1>2. ASSUME NEW k \in 0 .. Len(blocks_found)
      PROVE  Sum(blocks_found', 1 .. k) = Sum(blocks_found, 1 .. k)
  <2>1. IsFiniteSet(1 .. k)
    BY <1>1, FS_Interval
  <2>2. \A j \in 1 .. k : blocks_found'[j] = blocks_found[j]
    BY <1>1
  <2> QED BY <2>1, <2>2, SumEqual
<1> QED
  BY <1>1, <1>2

LEMMA FitsWithBlock ==
  ASSUME StateTypes, NEW x, blocks_found' = Append(blocks_found, x),
         UNCHANGED <<listed, payments, proofs, call>>,
         NEW c, call[c] \in CallType, Fits(call[c])
  PROVE  Fits(call[c])'
<1> DEFINE r == call[c]
           n == Len(blocks_found)
<1>1. /\ Len(blocks_found') = n + 1 /\ n \in Nat
      /\ \A k \in 0 .. n : Sum(blocks_found', 1 .. k) = Sum(blocks_found, 1 .. k)
  BY OneBlockMore
<1>2. r.before \in Nat /\ \A k : k \in r.before .. n =>
         k \in r.before .. n + 1 /\ k \in 0 .. n
  BY <1>1, FieldTypes
<1> DEFINE Added == \E k \in r.before .. n : r.total = Sum(blocks_found, 1 .. k)
<1>3. Added => \E k \in r.before .. Len(blocks_found') :
                  r.total = Sum(blocks_found', 1 .. k)
  BY <1>1, <1>2
<1>4. (BlocksCounted(call[c]) /\ BlocksRead(call[c]))'
  BY <1>1, <1>2 DEF Fits, BlocksCounted, BlocksRead
<1>5. RewardsAdded(call[c])'
  BY <1>3 DEF Fits, RewardsAdded
<1>6. Answered(call[c])'
  <2>1. SUFFICES ASSUME r.step = "answered", ~r.touched
                 PROVE  IsCurrent(call[c])'
    BY DEF Answered
  <2>2. IsCurrent(r)
    BY <2>1 DEF Fits, Answered
  <2>3. r.rows \in r.before .. n => r.rows \in r.before .. Len(blocks_found')
    BY <1>1, <1>2
  <2>4. CASE r.url = "statistics"
    BY <1>3, <2>2, <2>4 DEF IsCurrent
  <2>5. CASE r.url # "statistics"
    BY <2>2, <2>3, <2>5 DEF IsCurrent
  <2> QED BY <2>4, <2>5
<1>7. (/\ OnPage(call[c]) /\ NothingYet(call[c]) /\ FileSent(call[c])
       /\ VotersCounted(call[c]) /\ VotersRead(call[c])
       /\ VotersCountedAgain(call[c]) /\ AddressCounted(call[c])
       /\ PaymentsCounted(call[c]))'
  BY DEF Fits, OnPage, Pages, NothingYet, FileSent, VotersCounted, VotersRead,
         VotersCountedAgain, AddressCounted, PaymentsCounted
<1> QED
  BY <1>4, <1>5, <1>6, <1>7 DEF Fits

LEMMA FitsWithPayment ==
  ASSUME StateTypes, payments' = payments + 1,
         UNCHANGED <<blocks_found, listed, proofs, call>>,
         NEW c, call[c] \in CallType, Fits(call[c])
  PROVE  Fits(call[c])'
<1> DEFINE r == call[c]
<1>1. payments \in Nat /\ r.before \in Nat /\ r.rows \in Nat /\ r.count \in Int
  BY FieldTypes DEF StateTypes
<1>2. /\ r.rows \in r.before .. payments => r.rows \in r.before .. payments'
      /\ r.count \in 1 .. payments => r.count \in 1 .. payments'
  BY <1>1
<1>3. PaymentsCounted(call[c])'
  BY <1>2 DEF Fits, PaymentsCounted
<1>4. Answered(call[c])'
  BY <1>2 DEF Fits, Answered, IsCurrent
<1>5. (/\ OnPage(call[c]) /\ NothingYet(call[c]) /\ FileSent(call[c])
       /\ BlocksCounted(call[c]) /\ RewardsAdded(call[c]) /\ BlocksRead(call[c])
       /\ VotersCounted(call[c]) /\ VotersRead(call[c])
       /\ VotersCountedAgain(call[c]) /\ AddressCounted(call[c]))'
  BY DEF Fits, OnPage, Pages, NothingYet, FileSent, BlocksCounted, RewardsAdded,
         BlocksRead, VotersCounted, VotersRead, VotersCountedAgain, AddressCounted
<1> QED
  BY <1>3, <1>4, <1>5 DEF Fits

LEMMA TouchedTo ==
  ASSUME NEW r \in CallType, NEW t \in BOOLEAN
  PROVE  LET q == [r EXCEPT !.touched = t]
         IN  /\ q \in CallType /\ q.step = r.step /\ q.status = r.status
             /\ q.method = r.method /\ q.url = r.url /\ q.count = r.count
             /\ q.rows = r.rows /\ q.at = r.at /\ q.now = r.now
             /\ q.total = r.total /\ q.before = r.before
  BY DEF CallType

(* What has been read of a url that is disturbed is not relied on.         *)
LEMMA FitsDisturbed ==
  ASSUME WebTypes, NEW u, Disturb(u), NEW c \in Connection, Fits(call[c]),
         UNCHANGED <<blocks_found, payments>>,
         UNCHANGED listed \/ u = "address",
         UNCHANGED proofs \/ u = "voters"
  PROVE  call'[c] \in CallType /\ call'[c].step = call[c].step /\ Fits(call[c])'
<1> DEFINE r == call[c]
           q == [r EXCEPT !.touched = @ \/ r.url = u]
<1>1. call'[c] = q /\ r \in CallType
  BY DEF Disturb, WebTypes
<1>2. /\ q \in CallType /\ q.step = r.step /\ q.status = r.status
      /\ q.method = r.method /\ q.url = r.url /\ q.count = r.count
      /\ q.rows = r.rows /\ q.at = r.at /\ q.now = r.now /\ q.total = r.total
      /\ q.before = r.before
  <2>1. (r.touched \/ r.url = u) \in BOOLEAN
    OBVIOUS
  <2>2. PICK t \in BOOLEAN : t = (r.touched \/ r.url = u)
    BY <2>1, Zenon
  <2>3. q = [r EXCEPT !.touched = t]
    BY <2>2, Zenon
  <2> HIDE DEF r, q
  <2> QED BY <1>1, <2>3, TouchedTo
<1>3. q.touched <=> (r.touched \/ r.url = u)
  BY <1>1 DEF CallType
<1> HIDE DEF q
<1>4. (/\ OnPage(call[c]) /\ NothingYet(call[c]) /\ FileSent(call[c])
       /\ PaymentsCounted(call[c]))'
  BY <1>1, <1>2 DEF Fits, OnPage, Pages, NothingYet, FileSent, PaymentsCounted
<1>5. (BlocksCounted(call[c]) /\ RewardsAdded(call[c]) /\ BlocksRead(call[c]))'
  BY <1>1, <1>2, <1>3 DEF Fits, BlocksCounted, RewardsAdded, BlocksRead
<1>6. (/\ VotersCounted(call[c]) /\ VotersRead(call[c])
       /\ VotersCountedAgain(call[c]))'
  BY <1>1, <1>2, <1>3 DEF Fits, VotersCounted, VotersRead, VotersCountedAgain
<1>7. AddressCounted(call[c])'
  BY <1>1, <1>2, <1>3 DEF Fits, AddressCounted
<1>8. Answered(call[c])'
  <2>1. SUFFICES ASSUME r.step = "answered", ~r.touched, r.url # u
                 PROVE  IsCurrent(call[c])'
    BY <1>1, <1>2, <1>3 DEF Answered
  <2>2. IsCurrent(r)
    BY <2>1 DEF Fits, Answered
  <2> QED BY <1>1, <1>2, <2>1, <2>2 DEF IsCurrent
<1> QED
  BY <1>1, <1>2, <1>4, <1>5, <1>6, <1>7, <1>8 DEF Fits

LEMMA ChangeCounts == ASSUME Ready, Change PROVE changes' \in 0 .. MaxChanges
  BY WebServerAssumption DEF WebServerAssumption, Change, Ready, StateTypes

(* Nothing of the connections and of main changes but the records.         *)
LEMMA RecordsKeepWeb ==
  ASSUME Ready, call' \in [Connection -> CallType],
         \A c \in Connection :
            call'[c].step = call[c].step /\ undefined' # c /\ Fits(call[c])',
         undefined' \in {"nobody", "timer"},
         UNCHANGED <<settings, processors, files, pc, badStart, statistics>>
  PROVE  WebTypes' /\ WInv'
<1>1. WebTypes'
  BY DEF Ready, WebTypes
<1> QED
  BY <1>1 DEF Ready, WInv

LEMMA OthersKeepWeb ==
  ASSUME Ready, Others PROVE StateTypes' /\ WebTypes' /\ WInv'
<1>1. CASE BlockFound
  <2>1. PICK x \in Rewards : blocks_found' = Append(blocks_found, x)
    BY <1>1 DEF BlockFound
  <2>2. /\ UNCHANGED <<main, statistics, listed, payments, proofs, web,
                       undefined>> /\ Change
    BY <1>1 DEF BlockFound
  <2>3. blocks_found' \in Seq(Rewards \cup {TestReward})
    BY <2>1 DEF Ready, StateTypes
  <2>4. StateTypes'
    BY <2>2, <2>3, ChangeCounts DEF Ready, StateTypes, main, web
  <2>5. UNCHANGED <<call, settings, processors, files, pc, badStart>>
    BY <2>2 DEF main, web
  <2>6. ASSUME NEW c \in Connection PROVE undefined' # c /\ Fits(call[c])'
    <3>1. call[c] \in CallType /\ Fits(call[c]) /\ StateTypes
      BY ReadyCall DEF Ready
    <3>2. Fits(call[c])'
      BY <2>1, <2>2, <2>5, <3>1, FitsWithBlock
    <3> QED BY <2>2, <3>2, NoneUndefined
  <2>7. call' \in [Connection -> CallType]
    BY <2>5 DEF Ready, WebTypes
  <2>8. undefined' = "nobody" /\ UNCHANGED statistics
    BY <2>2 DEF Ready
  <2> QED BY <2>4, <2>5, <2>6, <2>7, <2>8, RecordsKeepWeb
<1>2. CASE PaymentMade
  <2>1. payments' = payments + 1
    BY <1>2 DEF PaymentMade
  <2>2. /\ UNCHANGED <<main, statistics, blocks_found, listed, proofs, web,
                       undefined>> /\ Change
    BY <1>2 DEF PaymentMade
  <2>3. StateTypes'
    BY <2>1, <2>2, ChangeCounts DEF Ready, StateTypes, main, web
  <2>4. UNCHANGED <<call, settings, processors, files, pc, badStart>>
    BY <2>2 DEF main, web
  <2>5. ASSUME NEW c \in Connection PROVE undefined' # c /\ Fits(call[c])'
    <3>1. call[c] \in CallType /\ Fits(call[c]) /\ StateTypes
      BY ReadyCall DEF Ready
    <3>2. Fits(call[c])'
      BY <2>1, <2>2, <2>4, <3>1, FitsWithPayment
    <3> QED BY <2>2, <3>2, NoneUndefined
  <2>6. call' \in [Connection -> CallType]
    BY <2>4 DEF Ready, WebTypes
  <2>7. undefined' = "nobody" /\ UNCHANGED statistics
    BY <2>2 DEF Ready
  <2> QED BY <2>3, <2>4, <2>5, <2>6, <2>7, RecordsKeepWeb
<1>3. CASE AddressChanges
  <2>1. /\ Disturb("address") /\ Change /\ listed' = ~listed
        /\ UNCHANGED <<main, statistics, blocks_found, payments, proofs,
                       settings, processors, files, requests, undefined>>
    BY <1>3 DEF AddressChanges
  <2>2. StateTypes'
    BY <2>1, ChangeCounts DEF Ready, StateTypes, main
  <2>3. ASSUME NEW c \in Connection
        PROVE  /\ call'[c] \in CallType /\ call'[c].step = call[c].step
               /\ undefined' # c /\ Fits(call[c])'
    <3>1. Fits(call[c]) /\ WebTypes
      BY ReadyCall DEF Ready
    <3>2. /\ call'[c] \in CallType /\ call'[c].step = call[c].step
          /\ Fits(call[c])'
      BY <2>1, <3>1, FitsDisturbed
    <3> QED BY <2>1, <3>2, NoneUndefined
  <2>4. call' \in [Connection -> CallType]
    BY <2>1, <2>3 DEF Disturb
  <2>5. undefined' = "nobody" /\ UNCHANGED <<pc, badStart>>
    BY <2>1 DEF Ready, main
  <2> QED BY <2>1, <2>2, <2>3, <2>4, <2>5, RecordsKeepWeb
<1>4. ASSUME NEW i \in Proof, VoteChanges(i)
      PROVE  StateTypes' /\ WebTypes' /\ WInv'
  <2>1. PICK d \in {-1, 1} : /\ proofs[i] + d >= 0
                             /\ proofs' = [proofs EXCEPT ![i] = @ + d]
    BY <1>4 DEF VoteChanges
  <2>2. /\ Disturb("voters") /\ Change
        /\ UNCHANGED <<main, statistics, blocks_found, listed, payments,
                       settings, processors, files, requests, undefined>>
    BY <1>4 DEF VoteChanges
  <2>3. proofs' \in [Proof -> Nat]
    BY <2>1 DEF Ready, StateTypes
  <2>4. StateTypes'
    BY <2>2, <2>3, ChangeCounts DEF Ready, StateTypes, main
  <2>5. ASSUME NEW c \in Connection
        PROVE  /\ call'[c] \in CallType /\ call'[c].step = call[c].step
               /\ undefined' # c /\ Fits(call[c])'
    <3>1. Fits(call[c]) /\ WebTypes
      BY ReadyCall DEF Ready
    <3>2. /\ call'[c] \in CallType /\ call'[c].step = call[c].step
          /\ Fits(call[c])'
      BY <2>2, <3>1, FitsDisturbed
    <3> QED BY <2>2, <3>2, NoneUndefined
  <2>6. call' \in [Connection -> CallType]
    BY <2>2, <2>5 DEF Disturb
  <2>7. undefined' = "nobody" /\ UNCHANGED <<pc, badStart>>
    BY <2>2 DEF Ready, main
  <2> QED BY <2>2, <2>4, <2>5, <2>6, <2>7, RecordsKeepWeb
<1>5. CASE TimerWithoutClient
  <2>1. undefined' = "timer" /\ UNCHANGED <<main, changes, collections, web>>
    BY <1>5 DEF TimerWithoutClient
  <2>2. StateTypes'
    BY <2>1 DEF Ready, StateTypes, main, collections, web
  <2>3. /\ UNCHANGED <<call, settings, processors, files, pc, badStart, statistics>>
        /\ UNCHANGED collections
    BY <2>1 DEF main, collections, web
  <2>4. ASSUME NEW c \in Connection PROVE undefined' # c /\ Fits(call[c])'
    <3>1. undefined' # c
      BY <2>1, WebServerAssumption DEF WebServerAssumption
    <3>2. Fits(call[c])'
      BY <2>3, ReadyCall, FitsMoves
    <3> QED BY <3>1, <3>2
  <2>5. call' \in [Connection -> CallType]
    BY <2>3 DEF Ready, WebTypes
  <2> QED BY <2>1, <2>2, <2>3, <2>4, <2>5, RecordsKeepWeb
<1> QED
  BY <1>1, <1>2, <1>3, <1>4, <1>5 DEF Others

-----------------------------------------------------------------------------
(* What the records show.                                                  *)

LEMMA InitWeb == Init => StateTypes /\ WebTypes /\ WInv
<1> SUFFICES ASSUME Init PROVE StateTypes /\ WebTypes /\ WInv
  OBVIOUS
<1>1. PICK d \in Contents : /\ statistics = d.statistics
                            /\ blocks_found = d.blocks
                            /\ listed = d.listed
                            /\ payments = d.payments
                            /\ proofs = d.proofs
  BY DEF Init
<1>2. /\ d.statistics \in Nat /\ d.blocks \in Seq(Rewards)
      /\ d.listed \in BOOLEAN /\ d.payments \in Nat /\ d.proofs \in [Proof -> Nat]
  BY WebServerAssumption DEF WebServerAssumption, Proof
<1>3. d.blocks \in Seq(Rewards \cup {TestReward})
  BY <1>2
<1>4. 1 \in 0 .. MaxStarts /\ 0 \in 0 .. MaxChanges /\ 0 \in 0 .. MaxRequests
  BY WebServerAssumption DEF WebServerAssumption
<1>5. StateTypes
  BY <1>1, <1>2, <1>3, <1>4 DEF Init, StateTypes, MainSteps
<1>6. WebTypes
  BY NoCallType DEF Init, WebTypes
<1>7. ASSUME NEW c \in Connection PROVE undefined # c /\ Fits(call[c])
  <2>1. call[c] = NoCall
    BY DEF Init
  <2>2. Fits(NoCall)
    BY NoCallIsCall, FitsRefused
  <2>3. undefined # c
    BY WebServerAssumption DEF WebServerAssumption, Init
  <2> QED BY <2>1, <2>2, <2>3
<1>8. \A c \in Connection : call[c].step = "idle"
  BY NoCallIsCall DEF Init
<1>9. pc \notin RunningSteps
  BY DEF Init, RunningSteps
<1> QED
  BY <1>5, <1>6, <1>7, <1>8, <1>9 DEF WInv

LEMMA SameWeb ==
  ASSUME StateTypes, WebTypes, WInv, UNCHANGED vars
  PROVE  StateTypes' /\ WebTypes' /\ WInv'
<1>1. StateTypes' /\ WebTypes'
  BY DEF vars, StateTypes, WebTypes
<1>2. ASSUME NEW c \in Connection
      PROVE  IF undefined' = c THEN Stuck(call[c])' ELSE Fits(call[c])'
  <2>1. UNCHANGED <<collections, badStart, undefined>> /\ call'[c] = call[c]
    BY DEF vars, collections
  <2>2. CASE undefined = c
    <3>1. Stuck(call[c])
      BY <2>2 DEF WInv
    <3>2. Stuck(call[c])'
      BY <2>1, <3>1, StuckMoves
    <3> QED BY <2>1, <2>2, <3>2
  <2>3. CASE undefined # c
    <3>1. Fits(call[c])
      BY <2>3 DEF WInv
    <3>2. Fits(call[c])'
      BY <2>1, <3>1, FitsMoves
    <3> QED BY <2>1, <2>3, <3>2
  <2> QED BY <2>2, <2>3
<1> QED
  BY <1>1, <1>2 DEF vars, WInv

LEMMA NextKeepsWeb ==
  StateTypes /\ WebTypes /\ WInv /\ [Next]_vars => StateTypes' /\ WebTypes' /\ WInv'
<1>1. ASSUME StateTypes, WebTypes, WInv, Next
      PROVE  StateTypes' /\ WebTypes' /\ WInv'
  <2>1. Ready
    BY <1>1 DEF Next, Ready
  <2>2. Main \/ Others \/ \E c \in Connection : Handle(c) \/ Client(c)
    BY <1>1 DEF Next
  <2> QED
    BY <2>1, <2>2, MainTypes, MainKeepsWeb, OthersKeepWeb, ConnectionKeepsWeb
<1> QED
  BY <1>1, SameWeb

(* What each call record holds, at every step of every request.            *)
THEOREM RecordsFit == Spec => [](StateTypes /\ WebTypes /\ WInv)
<1> DEFINE I == StateTypes /\ WebTypes /\ WInv
<1>1. Init => I
  BY InitWeb
<1>2. I /\ [Next]_vars => I'
  BY NextKeepsWeb
<1> HIDE DEF I
<1>3. Spec => []I
  BY <1>1, <1>2, PTL DEF Spec
<1> QED BY <1>3 DEF I

(* The types of main's state, of the collections and of the records.       *)
THEOREM WebTypesOK == Spec => []TypeOK
<1>1. CInv /\ StateTypes /\ WebTypes => TypeOK
  <2> SUFFICES ASSUME CInv, StateTypes, WebTypes PROVE TypeOK
    OBVIOUS
  <2>1. ASSUME NEW c \in Connection
        PROVE  /\ call[c].step \in Steps /\ call[c].at \in Proof
               /\ call[c].slots \in 0 .. Capacity
               /\ call[c].status \in {0, 200, 400}
    <3>1. call[c] \in CallType
      BY DEF WebTypes
    <3> QED BY <3>1 DEF CallType
  <2>2. processors \in [Connection -> 0 .. 1] /\ files \in [Connection -> 0 .. 1]
    BY DEF CInv, ConnectionOK, WebTypes
  <2> QED
    BY <2>1, <2>2 DEF StateTypes, WebTypes, TypeOK
<1> QED BY <1>1, Invariant, RecordsFit, PTL

(* Lines 269-290, 441-471, 667-717 and 803-827: what is read does not fit  *)
(* into the rows only for one of the reasons that HasACause names, however *)
(* many collections and documents there are and whatever comes in between. *)
THEOREM UndefinedIsCaused == Spec => []UndefinedHasACause
<1>1. WInv => UndefinedHasACause
  BY DEF WInv, Stuck, UndefinedHasACause
<1> QED BY <1>1, RecordsFit, PTL

(* Lines 295-299, 720, 576 and 833: an undisturbed reply shows the         *)
(* documents of one moment between the request and the reply.              *)
THEOREM RepliesShowOneMoment == Spec => []RepliesAreCurrent
<1>1. WInv => RepliesAreCurrent
  BY DEF WInv, Stuck, Fits, Answered, RepliesAreCurrent
<1> QED BY <1>1, RecordsFit, PTL
==============================================================================
