-------------------------------- MODULE Socket -------------------------------
(***************************************************************************)
(* One call of send_http_request or of send_and_receive_data_socket: open  *)
(* a socket, connect, send the request, and look for the answer every      *)
(* 200 ms until a piece of it holds the end string.  The two functions     *)
(* make the same calls up to the sending; `kind` says which one runs.      *)
(*                                                                         *)
(* Texts are sequences of characters from a small alphabet.  The 5         *)
(* characters of SOCKET_END_STRING are the two of EndMarker here.          *)
(***************************************************************************)
EXTENDS Integers, Sequences

CONSTANTS Character,     \* what texts are made of
          Replies,       \* what a peer may send, for each kind of request
          RequestLength, \* characters of the request
          BufferSize,    \* BUFFER_SIZE
          Looks          \* looks for an answer: five for a second of timeout

Kind == {"http", "node"}

ASSUME SocketAssumption ==
    /\ {"request", "|END", "|"} \subseteq Character
    /\ \A k \in Kind : Replies[k] \subseteq Seq(Character)
    /\ RequestLength \in Nat \ {0}
    /\ BufferSize \in Nat \ {0}
    /\ Looks \in Nat

VARIABLES
    kind,
    pc,          \* the next call
    open,        \* the socket is open
    closes,      \* history: how often it was closed
    heap,        \* str and message are allocated
    sent,        \* characters of message sent so far
    pending,     \* external: what the peer has yet to deliver
    arrived,     \* external: what waits in the socket
    peeked,      \* what the last peek saw: its length
    message, result,
    looked,      \* looks for an answer so far: count
    pieces,      \* history: the texts read, one for each look that found any
    ret          \* what the function returned

connection == <<open, closes, heap>>
network == <<pending, arrived>>
reading == <<peeked, message, looked, pieces>>
vars == <<kind, pc, open, closes, heap, sent, pending, arrived, peeked,
          message, result, looked, pieces, ret>>

Steps == {"socket", "option", "resolve", "connect", "getflags", "setflags",
          "write", "peek", "read", "done", "killed", "undefined"}
NotYet == -1

(* The request; its text is of no interest here. *)
Request == [i \in 1 .. RequestLength |-> "request"]

EndMarker == <<"|END", "|">>
EndString(k) == IF k = "http" THEN <<"{">> ELSE EndMarker

(* strstr(text, s) # NULL *)
Holds(text, s) ==
    \E i \in 0 .. Len(text) - Len(s) : SubSeq(text, i + 1, i + Len(s)) = s

(* memcpy of a text to the start of a buffer that holds another one. *)
CopyOver(new, old) ==
    IF Len(new) >= Len(old) THEN new ELSE new \o SubSeq(old, Len(new) + 1, Len(old))

(* send_and_receive_data_socket starts with empty buffers (lines 391-428), *)
(* the other one has written the request before it opens the socket.       *)
FirstMessage(k) == IF k = "http" THEN Request ELSE << >>

Init ==
    /\ kind \in Kind
    /\ pc = "socket"
    /\ open = FALSE /\ closes = 0
    /\ heap = TRUE
    /\ sent = 0
    /\ pending \in Replies[kind]
    /\ arrived = << >>
    /\ peeked = 0
    /\ message = FirstMessage(kind)
    /\ result = << >>
    /\ looked = 0
    /\ pieces = << >>
    /\ ret = NotYet

-----------------------------------------------------------------------------
(* close(SOCKET), pointer_reset_all, return value. *)
Return(value) ==
    /\ pc' = "done"
    /\ ret' = value
    /\ closes' = IF open THEN closes + 1 ELSE closes
    /\ open' = FALSE
    /\ heap' = FALSE

GoOn(next) ==
    /\ pc' = next
    /\ UNCHANGED <<connection, ret>>

(* socket() succeeds or not; without a socket there is nothing to close. *)
OpenSocket ==
    /\ pc = "socket"
    /\ \/ pc' = "option" /\ open' = TRUE /\ UNCHANGED <<closes, heap, ret>>
       \/ Return(0)

(* setsockopt(SO_RCVTIMEO). *)
SetTimeout ==
    /\ pc = "option"
    /\ GoOn("resolve") \/ Return(0)

(* Deviation, for the checks: a failed lookup does not close the socket. *)
ResolveLeaking ==
    /\ pc = "resolve"
    /\ \/ GoOn("connect")
       \/ pc' = "done" /\ ret' = 0 /\ heap' = FALSE /\ UNCHANGED <<open, closes>>

(* gethostbyname: an empty or unknown name fails. *)
Resolve ==
    /\ pc = "resolve"
    /\ GoOn("connect") \/ Return(0)

(* connect on the non-blocking socket, and poll.  Only an error that the   *)
(* poll reports in time is one: when the time is over the code goes on.    *)
Connect ==
    /\ pc = "connect"
    /\ GoOn("getflags") \/ Return(0)

(* fcntl(F_GETFL) and fcntl(F_SETFL). *)
GetFlags ==
    /\ pc = "getflags"
    /\ GoOn("setflags") \/ Return(0)

SetFlags ==
    /\ pc = "setflags"
    /\ GoOn("write") \/ Return(0)

Connecting ==
    /\ OpenSocket \/ SetTimeout \/ Resolve \/ Connect \/ GetFlags \/ SetFlags
    /\ UNCHANGED <<kind, sent, network, peeked, looked, pieces, result>>

HttpConnecting ==
    /\ kind = "http"
    /\ Connecting
    /\ UNCHANGED message

(* Here the request is copied to message last, and send_data puts the end  *)
(* marker after it.                                                        *)
NodeConnecting ==
    /\ kind = "node"
    /\ Connecting
    /\ message' = IF pc' = "write" THEN Request \o EndMarker ELSE message

(* write: some of the rest is taken, or none, which ends the loop, or the  *)
(* connection is gone.  SIGPIPE is not ignored: it may end the process.    *)
SendData ==
    /\ pc = "write"
    /\ \/ \E n \in 0 .. Len(message) - sent :
             /\ sent' = sent + n
             /\ GoOn(IF n = 0 \/ sent' = Len(message) THEN "peek" ELSE "write")
       \/ Return(0) /\ UNCHANGED sent
       \/ /\ pc' = "killed"
          /\ UNCHANGED <<connection, ret, sent>>

(* Deviation, for the checks: receive_data finds the request in message.   *)
ClearedMessageKept == message

(* Line 703: receive_data clears message before its first look.            *)
ClearedMessage == << >>

Send ==
    /\ SendData
    /\ message' = IF pc' = "peek" THEN ClearedMessage ELSE message
    /\ UNCHANGED <<kind, network, peeked, looked, pieces, result>>

HttpSend == kind = "http" /\ Send
NodeSend == kind = "node" /\ Send

(* The network delivers some more of what the peer has sent. *)
Arrive ==
    /\ pc \in {"write", "peek", "read"}
    /\ \E n \in 1 .. Len(pending) :
          /\ arrived' = arrived \o SubSeq(pending, 1, n)
          /\ pending' = SubSeq(pending, n + 1, Len(pending))
    /\ UNCHANGED <<kind, pc, connection, sent, reading, result, ret>>

(* Deviation, for the checks: a buffer that would be just full is taken. *)
PeekFull ==
    /\ pc = "peek"
    /\ peeked' = Len(arrived)
    /\ IF Len(arrived) > BufferSize THEN Return(0) ELSE GoOn("read")
    /\ UNCHANGED <<kind, sent, network, message, looked, pieces, result>>

(* recvfrom with MSG_PEEK: too much for the buffer ends the call. *)
Peek ==
    /\ pc = "peek"
    /\ peeked' = Len(arrived)
    /\ IF Len(arrived) >= BufferSize THEN Return(0) ELSE GoOn("read")
    /\ UNCHANGED <<kind, sent, network, message, looked, pieces, result>>

Shorter(m, n) == IF m <= n THEN m ELSE n

Got  == SubSeq(arrived, 1, Shorter(Len(arrived), BufferSize))
Rest == SubSeq(arrived, Shorter(Len(arrived), BufferSize) + 1, Len(arrived))

(* recvfrom: what has come since the peek is taken too.  A full buffer has *)
(* no terminating zero.                                                    *)
TakePiece ==
    /\ arrived' = Rest
    /\ pieces' = IF Got = << >> THEN pieces ELSE Append(pieces, Got)
    /\ UNCHANGED <<kind, pending, sent, peeked>>

Overrun ==
    /\ pc = "read"
    /\ Len(Got) = BufferSize
    /\ TakePiece
    /\ pc' = "undefined"
    /\ UNCHANGED <<connection, message, result, looked, ret>>

(* Deviation, for the checks: what has come is kept when the time is over. *)
LookAgainDelivering ==
    /\ looked' = looked + 1
    /\ IF looked' > Looks THEN Return(0) /\ result' = message'
       ELSE GoOn("peek") /\ UNCHANGED result

(* Deviation, for the checks: one look too many. *)
LookAgainOnceMore ==
    /\ looked' = looked + 1
    /\ IF looked' > Looks + 1 THEN Return(0) ELSE GoOn("peek")
    /\ UNCHANGED result

(* Deviation, for the checks: a look that finds nothing starts the count    *)
(* again.                                                                  *)
LookAgainUncounted ==
    /\ looked' = IF Got = << >> THEN 0 ELSE looked + 1
    /\ IF looked' > Looks THEN Return(0) ELSE GoOn("peek")
    /\ UNCHANGED result

(* Lines 735-746: the time is over, or the thread sleeps and looks again. *)
LookAgain ==
    /\ looked' = looked + 1
    /\ IF looked' > Looks THEN Return(0) ELSE GoOn("peek")
    /\ UNCHANGED result

(* A piece without the end string goes over the start of message; so does  *)
(* the next.                                                               *)
ReadPiece ==
    /\ pc = "read"
    /\ Len(Got) < BufferSize
    /\ ~Holds(Got, EndString(kind))
    /\ TakePiece
    /\ message' = CopyOver(Got, message)
    /\ LookAgain

(* Lines 724-731: the last five characters go if the end marker is there.  *)
Stripped(text) ==
    IF Holds(text, EndMarker) THEN SubSeq(text, 1, Len(text) - Len(EndMarker))
    ELSE text

FirstBrace(text) ==
    CHOOSE i \in DOMAIN text :
        /\ text[i] = "{"
        /\ \A j \in 1 .. i - 1 : text[j] # "{"

(* Lines 351-363: with a header the JSON starts at the first brace. *)
HttpBody(text) ==
    IF Holds(text, <<"HTTP/">>) THEN SubSeq(text, FirstBrace(text), Len(text))
    ELSE text

ReadLast ==
    /\ pc = "read"
    /\ Len(Got) < BufferSize
    /\ Holds(Got, EndString(kind))
    /\ TakePiece
    /\ message' = Stripped(CopyOver(Got, message))
    /\ UNCHANGED looked

Correct(text) == Holds(text, <<"{">>) \/ Holds(text, <<"error">>)

(* The result is appended to what is there.  A header without a brace,     *)
(* which the stripping can leave, ends the process at a null pointer.      *)
HttpDeliver ==
    /\ kind = "http"
    /\ ReadLast
    /\ IF ~Correct(message') THEN Return(0) /\ UNCHANGED result
       ELSE IF Holds(message', <<"HTTP/">>) /\ ~Holds(message', <<"{">>)
       THEN pc' = "killed" /\ UNCHANGED <<connection, ret, result>>
       ELSE Return(1) /\ result' = result \o HttpBody(message')

(* The result is copied over what is there. *)
NodeDeliver ==
    /\ kind = "node"
    /\ ReadLast
    /\ result' = CopyOver(message', result)
    /\ Return(1)

Receive == Peek \/ Overrun \/ ReadPiece \/ HttpDeliver \/ NodeDeliver
Call == HttpConnecting \/ NodeConnecting \/ HttpSend \/ NodeSend \/ Receive
Next == Call \/ Arrive

Spec == Init /\ [][Next]_vars

(* receive_data never blocks.  Nothing is assumed of the peer. *)
FairSpec == Spec /\ WF_vars(Receive)

-----------------------------------------------------------------------------
TypeOK ==
    /\ kind \in Kind /\ pc \in Steps
    /\ open \in BOOLEAN /\ closes \in Nat /\ heap \in BOOLEAN
    /\ sent \in 0 .. RequestLength + Len(EndMarker)
    /\ pending \in Seq(Character) /\ arrived \in Seq(Character)
    /\ peeked \in Nat
    /\ message \in Seq(Character) /\ result \in Seq(Character)
    /\ looked \in 0 .. Looks + 1
    /\ pieces \in Seq(Seq(Character))
    /\ ret \in {NotYet, 0, 1}

(* Lines 145-367 and 434-629: each of the nineteen returns closes the     *)
(* socket it has opened, once, and frees its buffers; before, both are     *)
(* there.                                                                  *)
EveryPathReleases ==
    /\ pc = "done" => ~open /\ ~heap
    /\ pc \notin {"socket", "done"} => open /\ heap
    /\ closes <= 1

(* The callers reuse their buffers and read them whatever is returned (the *)
(* block timer does): a call that fails has left the result alone, however *)
(* much of an answer it had read.                                          *)
FailureLeavesResult == ret # 1 => result = << >>

Body(k, text) == IF k = "http" THEN HttpBody(Stripped(text)) ELSE Stripped(text)

(* Lines 715-733: pieces are copied over each other.  The answer of a call *)
(* is exactly the last piece, without its end marker and its header, as    *)
(* long as no longer piece came before it; in particular an answer that    *)
(* arrives in one piece is delivered as it was sent.                       *)
LastPieceIsDelivered ==
    ret = 1 /\ (\A i \in DOMAIN pieces : Len(pieces[i]) <= Len(pieces[Len(pieces)]))
        => result = Body(kind, pieces[Len(pieces)])

(* Lines 706-714: the size is checked in one call and the data is read in  *)
(* the next one; the buffer overflows only through what arrives between.   *)
OverflowOnlyByRace == pc = "undefined" => peeked < BufferSize

(* Lines 735-744: a peer that is silent, or sends its answer in crumbs,    *)
(* holds the thread no longer than the timeout.                            *)
ReceiveEnds == (pc = "peek") ~> (pc \in {"done", "killed", "undefined"})
==============================================================================
