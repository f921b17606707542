---------------------------- MODULE Socket_proofs ----------------------------
(***************************************************************************)
(* Socket, for every set of replies, every size of the buffer and every    *)
(* timeout: each path releases what it took, a failure leaves the result   *)
(* alone, the buffer overflows only through a race, and the last piece is  *)
(* what is delivered unless a longer one came before it.                   *)
(***************************************************************************)
EXTENDS Socket, FiniteSetTheorems, SequenceTheorems, TLAPS

(* What is open, closed and allocated at each step. *)
HeldInv ==
    /\ pc \in Steps
    /\ closes \in {0, 1}
    /\ pc = "socket" => ~open /\ heap
    /\ pc = "done" => ~open /\ ~heap
    /\ pc \notin {"socket", "done"} => open /\ heap
    /\ pc # "done" => closes = 0

(* What was returned, and what the result holds before. *)
ReturnInv ==
    /\ pc # "done" => ret # 1
    /\ ret # 1 => result = << >>

(* What the last peek allows. *)
PeekInv ==
    /\ pc = "read" => peeked < BufferSize
    /\ pc = "undefined" => peeked < BufferSize

(***************************************************************************)
(* What a step does to what is held and returned: it opens the socket, it  *)
(* returns, it goes on or stops in the middle, or it is the network's.     *)
(***************************************************************************)
Middle == Steps \ {"socket", "done"}

Opens == /\ pc = "socket" /\ pc' = "option" /\ open' = TRUE
         /\ UNCHANGED <<closes, heap, ret, result>>
Fails == pc # "done" /\ Return(0) /\ UNCHANGED result
Delivers == pc # "done" /\ Return(1)
Continues == /\ pc \in Middle /\ pc' \in Middle
             /\ UNCHANGED <<open, closes, heap, ret, result>>
Elsewhere == UNCHANGED <<pc, open, closes, heap, ret, result>>

LEMMA StepEffect ==
  ASSUME [Next]_vars
  PROVE  Opens \/ Fails \/ Delivers \/ Continues \/ Elsewhere
<1> USE DEF Opens, Fails, Delivers, Continues, Elsewhere
<1>1. ASSUME Connecting, UNCHANGED result PROVE Opens \/ Fails \/ Continues
  <2>1. CASE OpenSocket
    BY <1>1, <2>1 DEF OpenSocket
  <2>2. CASE SetTimeout \/ Resolve \/ Connect
    BY <1>1, <2>2 DEF SetTimeout, Resolve, Connect, GoOn, connection, Middle, Steps
  <2>3. CASE GetFlags \/ SetFlags
    BY <1>1, <2>3 DEF GetFlags, SetFlags, GoOn, connection, Middle, Steps
  <2>4. QED
    BY <1>1, <2>1, <2>2, <2>3 DEF Connecting
<1>2. CASE HttpConnecting \/ NodeConnecting
  BY <1>1, <1>2 DEF HttpConnecting, NodeConnecting, Connecting
<1>3. ASSUME Send PROVE Fails \/ Continues
  <2>1. UNCHANGED result /\ pc = "write"
    BY <1>3 DEF Send, SendData
  <2>2. CASE Return(0)
    BY <2>1, <2>2
  <2>3. CASE \E next \in {"peek", "write"} : GoOn(next)
    BY <2>1, <2>3 DEF GoOn, connection, Middle, Steps
  <2>4. CASE pc' = "killed" /\ UNCHANGED <<connection, ret>>
    BY <2>1, <2>4 DEF connection, Middle, Steps
  <2>5. QED
    BY <1>3, <2>2, <2>3, <2>4 DEF Send, SendData
<1>4. CASE HttpSend \/ NodeSend
  BY <1>3, <1>4 DEF HttpSend, NodeSend
<1>5. CASE Peek
  <2>1. UNCHANGED result /\ pc = "peek" /\ (Return(0) \/ GoOn("read"))
    BY <1>5 DEF Peek
  <2>2. QED
    BY <2>1 DEF GoOn, connection, Middle, Steps
<1>6. CASE Overrun
  BY <1>6 DEF Overrun, connection, Middle, Steps
<1>7. CASE ReadPiece
  <2>1. UNCHANGED result /\ pc = "read" /\ (Return(0) \/ GoOn("peek"))
    BY <1>7 DEF ReadPiece, LookAgain
  <2>2. QED
    BY <2>1 DEF GoOn, connection, Middle, Steps
<1>8. CASE HttpDeliver
  <2>1. pc = "read"
    BY <1>8 DEF HttpDeliver, ReadLast
  <2>2. \/ Return(0) /\ UNCHANGED result
        \/ pc' = "killed" /\ UNCHANGED <<connection, ret, result>>
        \/ Return(1)
    BY <1>8 DEF HttpDeliver
  <2>3. QED
    BY <2>1, <2>2 DEF connection, Middle, Steps
<1>9. CASE NodeDeliver
  BY <1>9 DEF NodeDeliver, ReadLast
<1>10. CASE Arrive
  BY <1>10 DEF Arrive, connection
<1>11. CASE UNCHANGED vars
  BY <1>11 DEF vars
<1>12. QED
  BY <1>2, <1>4, <1>5, <1>6, <1>7, <1>8, <1>9, <1>10, <1>11
  DEF Next, Call, Receive

LEMMA HeldInit == Init => HeldInv
BY DEF Init, HeldInv, Steps

LEMMA HeldStep == HeldInv /\ [Next]_vars => HeldInv'
<1> SUFFICES ASSUME HeldInv, [Next]_vars PROVE HeldInv'
  OBVIOUS
<1>1. CASE Opens
  BY <1>1 DEF HeldInv, Opens, Steps
<1>2. CASE \E v \in {0, 1} : pc # "done" /\ Return(v)
  <2>1. closes = 0 /\ closes' = IF open THEN closes + 1 ELSE closes
    BY <1>2 DEF HeldInv, Return
  <2>2. closes' \in {0, 1}
    BY <2>1
  <2>3. QED
    BY <1>2, <2>2 DEF HeldInv, Return, Steps
<1>3. CASE Continues
  BY <1>3 DEF HeldInv, Continues, Middle
<1>4. CASE Elsewhere
  BY <1>4 DEF HeldInv, Elsewhere
<1>5. QED
  BY <1>1, <1>2, <1>3, <1>4, StepEffect DEF Fails, Delivers

LEMMA ReturnInit == Init => ReturnInv
BY DEF Init, ReturnInv, NotYet

LEMMA ReturnStep == ReturnInv /\ [Next]_vars => ReturnInv'
<1> SUFFICES ASSUME ReturnInv, [Next]_vars PROVE ReturnInv'
  OBVIOUS
<1>1. CASE Opens
  BY <1>1 DEF ReturnInv, Opens
<1>2. CASE Fails
  BY <1>2 DEF ReturnInv, Fails, Return
<1>3. CASE Delivers
  BY <1>3 DEF ReturnInv, Delivers, Return
<1>4. CASE Continues
  BY <1>4 DEF ReturnInv, Continues, Middle, Steps
<1>5. CASE Elsewhere
  BY <1>5 DEF ReturnInv, Elsewhere
<1>6. QED
  BY <1>1, <1>2, <1>3, <1>4, <1>5, StepEffect

LEMMA PeekInit == Init => PeekInv
BY DEF Init, PeekInv

LEMMA PeekStep == PeekInv /\ [Next]_vars => PeekInv'
<1> SUFFICES ASSUME PeekInv, [Next]_vars PROVE PeekInv'
  OBVIOUS
<1> USE DEF PeekInv, Return, GoOn
<1>1. CASE HttpConnecting \/ NodeConnecting
  BY <1>1 DEF HttpConnecting, NodeConnecting, Connecting, OpenSocket,
              SetTimeout, Resolve, Connect, GetFlags, SetFlags
<1>2. CASE HttpSend \/ NodeSend
  BY <1>2 DEF HttpSend, NodeSend, Send, SendData
<1>3. CASE Peek
  <2>1. peeked' = Len(arrived) /\ (pc' = "read" => ~(Len(arrived) >= BufferSize))
        /\ pc' # "undefined"
    BY <1>3 DEF Peek
  <2>2. CASE pc' = "read"
    <3>1. peeked' < BufferSize
      BY <2>1, <2>2, SocketAssumption
    <3>2. QED
      BY <2>1, <3>1
  <2>3. QED
    BY <2>1, <2>2
<1>4. CASE Overrun
  BY <1>4 DEF Overrun, TakePiece
<1>5. CASE ReadPiece
  BY <1>5 DEF ReadPiece, LookAgain
<1>6. CASE HttpDeliver \/ NodeDeliver
  BY <1>6 DEF HttpDeliver, NodeDeliver, ReadLast
<1>7. CASE Arrive
  BY <1>7 DEF Arrive, reading
<1>8. CASE UNCHANGED vars
  BY <1>8 DEF vars
<1>9. QED
  BY <1>1, <1>2, <1>3, <1>4, <1>5, <1>6, <1>7, <1>8 DEF Next, Call, Receive

-----------------------------------------------------------------------------
(* A nonempty set of numbers from 1 on has a smallest element: the segment *)
(* that ends in it is minimal in the ordering of finite sets.              *)
LEMMA HasSmallest ==
  ASSUME NEW n \in Nat, NEW S \in SUBSET (1 .. n), S # {}
  PROVE  \E i \in S : \A j \in 1 .. i - 1 : j \notin S
<1> DEFINE R == StrictSubsetOrdering(1 .. n)
           T == {1 .. i : i \in S}
<1>1. IsWellFoundedOn(R, SUBSET (1 .. n))
  <2>1. IsFiniteSet(1 .. n)
    BY FS_Interval
  <2>2. FiniteSubsetsOf(1 .. n) = SUBSET (1 .. n)
    BY <2>1, FS_FiniteSubsetsOfFinite
  <2>3. IsWellFoundedOn(StrictSubsetOrdering(1 .. n), FiniteSubsetsOf(1 .. n))
    BY FS_StrictSubsetOrderingWellFounded
  <2>4. QED
    BY <2>2, <2>3
<1>2. T \subseteq SUBSET (1 .. n) /\ T # {}
  <2>1. \A i \in S : 1 .. i \subseteq 1 .. n
    OBVIOUS
  <2>2. PICK i \in S : TRUE
    OBVIOUS
  <2>3. 1 .. i \in T
    OBVIOUS
  <2>4. QED
    BY <2>1, <2>3
<1>3. PICK x \in T : \A y \in T : ~ (<<y, x>> \in R)
  BY <1>1, <1>2, WFMin
<1>4. PICK i \in S : x = 1 .. i
  OBVIOUS
<1>5. ASSUME NEW j \in 1 .. i - 1, j \in S PROVE FALSE
  <2>1. 1 .. j \subseteq 1 .. i /\ 1 .. j # 1 .. i
    <3>1. i \in 1 .. i /\ i \notin 1 .. j
      OBVIOUS
    <3>2. QED
      BY <3>1
  <2>2. 1 .. j \in SUBSET (1 .. n) /\ 1 .. i \in SUBSET (1 .. n)
    OBVIOUS
  <2>3. <<1 .. j, 1 .. i>> \in R
    BY <2>1, <2>2 DEF StrictSubsetOrdering
  <2>4. QED
    BY <1>3, <1>4, <1>5, <2>3
<1>6. QED
  BY <1>5

LEMMA Segments ==
  ASSUME NEW n \in Nat, NEW i \in 1 .. n
  PROVE  /\ i \in Int /\ n \in Int
         /\ \A j \in 1 .. i - 1 : j \in 1 .. n
         /\ \A j \in i .. n : j \in 1 .. n
OBVIOUS

(* HttpBody cuts from the first brace on, if there is one. *)
LEMMA HttpBodyType ==
  ASSUME NEW text \in Seq(Character), \E i \in DOMAIN text : text[i] = "{"
  PROVE  HttpBody(text) \in Seq(Character)
<1> DEFINE S == {i \in 1 .. Len(text) : text[i] = "{"}
<1>1. PICK i \in S : \A j \in 1 .. i - 1 : j \notin S
  <2>1. Len(text) \in Nat /\ DOMAIN text = 1 .. Len(text)
    BY LenProperties
  <2>2. S \in SUBSET (1 .. Len(text)) /\ S # {}
    BY <2>1
  <2>3. QED
    BY <2>1, <2>2, HasSmallest
<1>2. i \in DOMAIN text /\ text[i] = "{" /\ \A j \in 1 .. i - 1 : text[j] # "{"
  <2>1. Len(text) \in Nat /\ DOMAIN text = 1 .. Len(text)
    BY LenProperties
  <2>2. \A j \in 1 .. i - 1 : j \in 1 .. Len(text)
    <3>1. i \in 1 .. Len(text)
      BY <1>1
    <3>2. QED
      BY <2>1, <3>1, Segments
  <2>3. QED
    BY <1>1, <2>1, <2>2
<1>3. FirstBrace(text) \in DOMAIN text
  BY <1>2 DEF FirstBrace
<1>4. SubSeq(text, FirstBrace(text), Len(text)) \in Seq(Character)
  <2>1. Len(text) \in Nat /\ DOMAIN text = 1 .. Len(text)
    BY LenProperties
  <2>2. \A j \in FirstBrace(text) .. Len(text) : text[j] \in Character
    <3>1. \A j \in FirstBrace(text) .. Len(text) : j \in 1 .. Len(text)
      BY <1>3, <2>1, Segments
    <3>2. QED
      BY <3>1, ElementOfSeq
  <2>3. FirstBrace(text) \in Int /\ Len(text) \in Int
    BY <1>3, <2>1, Segments
  <2>4. QED
    BY <2>2, <2>3, SubSeqProperties
<1>5. QED
  BY <1>4 DEF HttpBody

LEMMA EndStringLength ==
  ASSUME NEW k \in Kind
  PROVE  Len(EndString(k)) \in {1, 2} /\ Len(EndMarker) = 2
BY DEF Kind, EndString, EndMarker

(* The end string does not fit into an empty text. *)
LEMMA HoldsNotEmpty ==
  ASSUME NEW k \in Kind, NEW text \in Seq(Character), Holds(text, EndString(k))
  PROVE  text # << >>
<1> SUFFICES ASSUME text = << >> PROVE FALSE
  OBVIOUS
<1>1. PICK i \in 0 .. Len(text) - Len(EndString(k)) : TRUE
  BY DEF Holds
<1>2. Len(text) = 0 /\ Len(EndString(k)) >= 1
  BY EndStringLength
<1>3. QED
  BY <1>1, <1>2

LEMMA GotType ==
  ASSUME arrived \in Seq(Character)
  PROVE  Got \in Seq(Character) /\ Rest \in Seq(Character)
<1> DEFINE n == Shorter(Len(arrived), BufferSize)
<1>1. n \in 0 .. Len(arrived)
  BY SocketAssumption DEF Shorter
<1>2. QED
  BY <1>1, SubSeqProperties DEF Got, Rest

(* A text copied over another is that text if it is no shorter, and is as  *)
(* long as the longer of the two.                                          *)
LEMMA CopyOverProperties ==
  ASSUME NEW new \in Seq(Character), NEW old \in Seq(Character)
  PROVE  /\ CopyOver(new, old) \in Seq(Character)
         /\ Len(old) <= Len(new) => CopyOver(new, old) = new
         /\ Len(CopyOver(new, old)) \in {Len(new), Len(old)}
<1>1. CASE Len(new) >= Len(old)
  BY <1>1 DEF CopyOver
<1>2. CASE ~(Len(new) >= Len(old))
  <2> DEFINE tail == SubSeq(old, Len(new) + 1, Len(old))
  <2>1. tail \in Seq(Character) /\ Len(tail) = Len(old) - Len(new)
    BY <1>2, SubSeqProperties
  <2>2. new \o tail \in Seq(Character) /\ Len(new \o tail) = Len(old)
    BY <2>1, ConcatProperties
  <2>3. CopyOver(new, old) = new \o tail
    BY <1>2 DEF CopyOver
  <2>4. QED
    BY <1>2, <2>2, <2>3
<1>3. QED
  BY <1>1, <1>2

LEMMA StrippedType ==
  ASSUME NEW text \in Seq(Character)
  PROVE  Stripped(text) \in Seq(Character)
<1>1. SubSeq(text, 1, Len(text) - Len(EndMarker)) \in Seq(Character)
  <2>1. Len(EndMarker) = 2
    BY DEF EndMarker
  <2>2. QED
    BY <2>1, SubSeqProperties
<1>2. QED
  BY <1>1 DEF Stripped

-----------------------------------------------------------------------------
(***************************************************************************)
(* What LastPieceIsDelivered needs: while the call looks for its answer,   *)
(* message is no longer than one of the pieces read, so that a last piece  *)
(* that is the longest covers all of it.                                   *)
(***************************************************************************)
Texts ==
    /\ kind \in Kind
    /\ pending \in Seq(Character) /\ arrived \in Seq(Character)
    /\ pieces \in Seq(Seq(Character))

Covered(m, ps) == m = << >> \/ \E i \in DOMAIN ps : Len(m) <= Len(ps[i])

MessageInv ==
    pc \in {"peek", "read"} => message \in Seq(Character) /\ Covered(message, pieces)

DataInv == Texts /\ MessageInv /\ LastPieceIsDelivered

LEMMA DataInit == Init => DataInv
<1> SUFFICES ASSUME Init PROVE DataInv
  OBVIOUS
<1>1. Texts
  <2>1. kind \in Kind /\ pending \in Seq(Character)
    BY SocketAssumption DEF Init, FirstMessage
  <2>2. arrived = << >> /\ pieces = << >>
    BY DEF Init, FirstMessage
  <2>3. QED
    BY <2>1, <2>2, EmptySeq DEF Texts
<1>2. QED
  BY <1>1 DEF Init, FirstMessage, DataInv, MessageInv, LastPieceIsDelivered, NotYet

LEMMA CoveredAppend ==
  ASSUME NEW ps \in Seq(Seq(Character)), NEW p \in Seq(Character), NEW m, NEW n,
         Covered(m, ps), Len(n) \in {Len(p), Len(m)}, Len(m) \in Nat
  PROVE  Covered(n, Append(ps, p))
<1>1. /\ \A i \in DOMAIN ps : i \in DOMAIN Append(ps, p) /\ Append(ps, p)[i] = ps[i]
      /\ Len(ps) + 1 \in DOMAIN Append(ps, p)
      /\ Append(ps, p)[Len(ps) + 1] = p
  BY AppendProperties, LenProperties
<1>2. Len(p) \in Nat
  BY LenProperties
<1>3. CASE Len(n) = Len(p)
  BY <1>1, <1>2, <1>3 DEF Covered
<1>4. CASE Len(n) = Len(m) /\ m = << >>
  <2>1. Len(n) <= Len(p)
    <3>1. Len(m) = 0
      BY <1>4
    <3>2. QED
      BY <1>2, <1>4, <3>1
  <2>2. QED
    BY <1>1, <2>1 DEF Covered
<1>5. CASE Len(n) = Len(m) /\ m # << >>
  BY <1>1, <1>5 DEF Covered
<1>6. QED
  BY <1>3, <1>4, <1>5

(* Nothing of what the property relates has changed, or nothing is         *)
(* returned.                                                               *)
LEMMA DeliveredKept ==
  ASSUME LastPieceIsDelivered, ret' # 1 \/ UNCHANGED <<kind, pieces, result, ret>>
  PROVE  LastPieceIsDelivered'
BY DEF LastPieceIsDelivered

LEMMA TakePieceTypes ==
  ASSUME Texts, TakePiece
  PROVE  Texts' /\ Got \in Seq(Character)
<1>1. Got \in Seq(Character) /\ Rest \in Seq(Character)
  BY GotType DEF Texts
<1>2. Append(pieces, Got) \in Seq(Seq(Character))
  BY <1>1, AppendProperties DEF Texts
<1>3. QED
  BY <1>1, <1>2 DEF Texts, TakePiece

(* The text the last look leaves in message, when no longer piece came.    *)
LEMMA LastPieceCovers ==
  ASSUME DataInv, pc = "read", TakePiece, Holds(Got, EndString(kind)),
         \A i \in DOMAIN pieces' : Len(pieces'[i]) <= Len(pieces'[Len(pieces')])
  PROVE  pieces'[Len(pieces')] = Got /\ CopyOver(Got, message) = Got
<1>1. Texts /\ message \in Seq(Character) /\ Covered(message, pieces)
  BY DEF DataInv, MessageInv
<1>2. Got \in Seq(Character) /\ Got # << >>
  BY <1>1, TakePieceTypes, HoldsNotEmpty DEF Texts
<1>3. pieces' = Append(pieces, Got)
  BY <1>2 DEF TakePiece
<1>4. /\ Len(pieces') = Len(pieces) + 1
      /\ \A i \in DOMAIN pieces : i \in DOMAIN pieces' /\ pieces'[i] = pieces[i]
      /\ pieces'[Len(pieces')] = Got
  BY <1>1, <1>2, <1>3, AppendProperties, LenProperties DEF Texts
<1>5. Len(message) <= Len(Got)
  <2>1. CASE message = << >>
    BY <1>2, <2>1, LenProperties
  <2>2. ASSUME NEW i \in DOMAIN pieces, Len(message) <= Len(pieces[i])
        PROVE  Len(message) <= Len(Got)
    <3>1. pieces[i] \in Seq(Character)
      BY <1>1 DEF Texts
    <3>2. Len(message) \in Nat /\ Len(pieces[i]) \in Nat /\ Len(Got) \in Nat
      BY <1>1, <1>2, <3>1, LenProperties
    <3>3. Len(pieces[i]) <= Len(Got)
      BY <1>4
    <3>4. QED
      BY <2>2, <3>2, <3>3
  <2>3. QED
    BY <1>1, <2>1, <2>2 DEF Covered
<1>6. QED
  BY <1>1, <1>2, <1>4, <1>5, CopyOverProperties

LEMMA NextIndex ==
  ASSUME NEW n \in Nat, NEW i \in 0 .. n - 1
  PROVE  i + 1 \in 1 .. n
OBVIOUS

LEMMA OneAtATime ==
  ASSUME NEW n \in Nat, NEW i \in 0 .. n - 1, NEW s, NEW S, s[i + 1] \in S
  PROVE  /\ i + 1 \in 1 .. n
         /\ SubSeq(s, i + 1, i + 1)[1] = s[i + 1]
<1>1. i + 1 \in 1 .. n /\ i + 1 \in Int
  OBVIOUS
<1>2. \A k \in i + 1 .. i + 1 : s[k] \in S
  <2>1. \A k \in i + 1 .. i + 1 : k = i + 1
    OBVIOUS
  <2>2. QED
    BY <2>1
<1>3. \A k \in 1 .. (i + 1) - (i + 1) + 1 :
          SubSeq(s, i + 1, i + 1)[k] = s[(i + 1) + k - 1]
  BY <1>1, <1>2, SubSeqProperties
<1>4. 1 \in 1 .. (i + 1) - (i + 1) + 1 /\ (i + 1) + 1 - 1 = i + 1
  BY <1>1
<1>5. QED
  BY <1>1, <1>3, <1>4

LEMMA HoldsBrace ==
  ASSUME NEW text \in Seq(Character), Holds(text, <<"{">>)
  PROVE  \E i \in DOMAIN text : text[i] = "{"
<1>1. Len(<<"{">>) = 1 /\ Len(text) \in Nat /\ DOMAIN text = 1 .. Len(text)
  BY LenProperties
<1>2. PICK i \in 0 .. Len(text) - 1 : SubSeq(text, i + 1, i + 1) = <<"{">>
  BY <1>1 DEF Holds
<1>3. i + 1 \in 1 .. Len(text)
  BY <1>1, <1>2, NextIndex
<1>4. text[i + 1] \in Character
  BY <1>1, <1>3, ElementOfSeq
<1>5. SubSeq(text, i + 1, i + 1)[1] = text[i + 1]
  BY <1>1, <1>2, <1>4, OneAtATime
<1>6. <<"{">>[1] = "{"
  OBVIOUS
<1>7. text[i + 1] = "{"
  BY <1>2, <1>5, <1>6
<1>8. QED
  BY <1>1, <1>3, <1>7

LEMMA DeliverStep ==
  ASSUME DataInv, ReturnInv, HeldInv, HttpDeliver \/ NodeDeliver
  PROVE  LastPieceIsDelivered'
<1>1. pc = "read" /\ TakePiece /\ Holds(Got, EndString(kind))
      /\ message' = Stripped(CopyOver(Got, message)) /\ kind' = kind
  BY DEF HttpDeliver, NodeDeliver, ReadLast, TakePiece
<1>2. Texts' /\ Got \in Seq(Character) /\ message \in Seq(Character) /\ result = << >>
  BY <1>1, TakePieceTypes DEF DataInv, MessageInv, ReturnInv
<1>3. SUFFICES
        ASSUME ret' = 1,
               \A i \in DOMAIN pieces' : Len(pieces'[i]) <= Len(pieces'[Len(pieces')])
        PROVE  result' = Body(kind, Got)
  BY <1>1, LastPieceCovers DEF LastPieceIsDelivered
<1>4. message' = Stripped(Got) /\ Stripped(Got) \in Seq(Character)
  BY <1>1, <1>2, <1>3, LastPieceCovers, StrippedType
<1>5. CASE HttpDeliver
  <2>1. /\ result' = result \o HttpBody(message')
        /\ ~(Holds(message', <<"HTTP/">>) /\ ~Holds(message', <<"{">>))
        /\ kind = "http"
    <3>1. ret # 1
      BY <1>1 DEF ReturnInv
    <3>2. Return(0) => ret' = 0
      BY DEF Return
    <3>3. ~(Return(0) /\ UNCHANGED result) /\ ~(UNCHANGED ret)
      BY <1>3, <3>1, <3>2
    <3>4. Correct(message')
      BY <1>5, <3>3 DEF HttpDeliver
    <3>5. ~(Holds(message', <<"HTTP/">>) /\ ~Holds(message', <<"{">>))
      BY <1>5, <3>3, <3>4 DEF HttpDeliver
    <3>6. QED
      BY <1>5, <3>4, <3>5 DEF HttpDeliver
  <2>2. HttpBody(Stripped(Got)) \in Seq(Character)
    <3>1. CASE Holds(Stripped(Got), <<"{">>)
      BY <1>4, <3>1, HoldsBrace, HttpBodyType
    <3>2. CASE ~Holds(Stripped(Got), <<"HTTP/">>)
      BY <1>4, <3>2 DEF HttpBody
    <3>3. QED
      BY <1>4, <2>1, <3>1, <3>2
  <2>3. << >> \o HttpBody(Stripped(Got)) = HttpBody(Stripped(Got))
    BY <2>2, ConcatEmptySeq
  <2>4. QED
    BY <1>2, <1>4, <2>1, <2>3 DEF Body
<1>6. CASE NodeDeliver
  <2>1. result' = CopyOver(Stripped(Got), << >>) /\ kind = "node"
    BY <1>2, <1>4, <1>6 DEF NodeDeliver
  <2>2. << >> \in Seq(Character) /\ Len(<< >>) <= Len(Stripped(Got))
    BY <1>4, EmptySeq, LenProperties
  <2>3. CopyOver(Stripped(Got), << >>) = Stripped(Got)
    BY <1>4, <2>2, CopyOverProperties
  <2>4. QED
    BY <2>1, <2>3 DEF Body
<1>7. QED
  BY <1>5, <1>6

LEMMA DataStep ==
  DataInv /\ ReturnInv /\ HeldInv /\ [Next]_vars => DataInv'
<1> SUFFICES ASSUME DataInv, ReturnInv, HeldInv, [Next]_vars PROVE DataInv'
  OBVIOUS
<1>1. Texts /\ MessageInv /\ LastPieceIsDelivered
  BY DEF DataInv
<1>2. CASE HttpConnecting \/ NodeConnecting
  <2>1. UNCHANGED <<kind, pending, arrived, pieces, result>>
    BY <1>2 DEF HttpConnecting, NodeConnecting, Connecting, network
  <2>2. pc' \notin {"peek", "read"} /\ (ret' # 1 \/ UNCHANGED ret)
    BY <1>2 DEF HttpConnecting, NodeConnecting, Connecting, OpenSocket,
        SetTimeout, Resolve, Connect, GetFlags, SetFlags, GoOn, Return
  <2>3. QED
    BY <1>1, <2>1, <2>2, DeliveredKept DEF DataInv, Texts, MessageInv
<1>3. CASE HttpSend \/ NodeSend
  <2>1. UNCHANGED <<kind, pending, arrived, pieces, result>>
    BY <1>3 DEF HttpSend, NodeSend, Send, network
  <2>2. /\ pc' # "read" /\ (pc' = "peek" => message' = << >>)
        /\ ret' # 1 \/ UNCHANGED ret
    BY <1>3 DEF HttpSend, NodeSend, Send, SendData, GoOn, Return, ClearedMessage
  <2>3. MessageInv'
    BY <2>2, EmptySeq DEF MessageInv, Covered
  <2>4. QED
    BY <1>1, <2>1, <2>2, <2>3, DeliveredKept DEF DataInv, Texts
<1>4. CASE Peek
  <2>1. UNCHANGED <<kind, pending, arrived, pieces, result, message>> /\ pc = "peek"
    BY <1>4 DEF Peek, network
  <2>2. Return(0) \/ GoOn("read")
    BY <1>4 DEF Peek
  <2>3. ret' # 1 \/ UNCHANGED ret
    BY <2>2 DEF Return, GoOn
  <2>4. QED
    BY <1>1, <2>1, <2>3, DeliveredKept DEF DataInv, Texts, MessageInv, Covered
<1>5. CASE Overrun
  <2>1. Texts' /\ pc' = "undefined" /\ UNCHANGED ret
    BY <1>1, <1>5, TakePieceTypes DEF Overrun
  <2>2. ret # 1
    BY <1>5 DEF Overrun, ReturnInv
  <2>3. QED
    BY <1>1, <2>1, <2>2, DeliveredKept DEF DataInv, MessageInv
<1>6. CASE ReadPiece
  <2>1. Texts' /\ Got \in Seq(Character) /\ pc = "read"
    BY <1>1, <1>6, TakePieceTypes DEF ReadPiece
  <2>2. message' = CopyOver(Got, message) /\ message \in Seq(Character)
        /\ Covered(message, pieces)
    BY <1>1, <1>6 DEF ReadPiece, MessageInv
  <2>3. message' \in Seq(Character)
        /\ Len(message') \in {Len(Got), Len(message)}
    BY <2>1, <2>2, CopyOverProperties
  <2>4. Covered(message', pieces')
    <3>1. CASE Got = << >>
      <4>1. message' = message
        <5>1. CASE Len(message) = 0
          <6>1. message = << >>
            BY <2>2, <5>1, EmptySeq
          <6>2. QED
            BY <2>2, <3>1, <6>1 DEF CopyOver
        <5>2. CASE Len(message) # 0
          <6>1. Len(<< >>) = 0 /\ Len(message) \in Nat
            BY <2>2, LenProperties
          <6>2. CopyOver(<< >>, message) = << >> \o SubSeq(message, 1, Len(message))
            BY <5>2, <6>1 DEF CopyOver
          <6>3. SubSeq(message, 1, Len(message)) = message
            BY <2>2, SubSeqFull
          <6>4. QED
            BY <2>2, <3>1, <6>2, <6>3, ConcatEmptySeq
        <5>3. QED
          BY <5>1, <5>2
      <4>2. pieces' = pieces
        BY <1>6, <3>1 DEF ReadPiece, TakePiece
      <4>3. QED
        BY <2>2, <4>1, <4>2
    <3>2. CASE Got # << >>
      <4>1. pieces' = Append(pieces, Got)
        BY <1>6, <3>2 DEF ReadPiece, TakePiece
      <4>2. Len(message) \in Nat
        BY <2>2, LenProperties
      <4>3. QED
        BY <1>1, <2>1, <2>2, <2>3, <4>1, <4>2, CoveredAppend DEF Texts
    <3>3. QED
      BY <3>1, <3>2
  <2>5. Return(0) \/ GoOn("peek")
    BY <1>6 DEF ReadPiece, LookAgain
  <2>6. ret' # 1
    BY <2>1, <2>5 DEF Return, GoOn, ReturnInv
  <2>7. QED
    BY <1>1, <2>1, <2>3, <2>4, <2>6, DeliveredKept DEF DataInv, MessageInv
<1>7. CASE HttpDeliver \/ NodeDeliver
  <2>1. Texts'
    BY <1>1, <1>7, TakePieceTypes DEF HttpDeliver, NodeDeliver, ReadLast
  <2>2. pc' \in {"done", "killed"}
    BY <1>7 DEF HttpDeliver, NodeDeliver, Return
  <2>3. QED
    BY <1>7, <2>1, <2>2, DeliverStep DEF DataInv, MessageInv
<1>8. CASE Arrive
  <2>1. UNCHANGED <<kind, pc, message, pieces, result, ret>>
    BY <1>8 DEF Arrive, reading
  <2>2. PICK n \in 1 .. Len(pending) :
            /\ arrived' = arrived \o SubSeq(pending, 1, n)
            /\ pending' = SubSeq(pending, n + 1, Len(pending))
    BY <1>8 DEF Arrive
  <2>3. SubSeq(pending, 1, n) \in Seq(Character) /\ pending' \in Seq(Character)
    <3>1. Len(pending) \in Nat /\ \A i \in 1 .. Len(pending) : pending[i] \in Character
      BY <1>1, LenProperties, ElementOfSeq DEF Texts
    <3>2. \A i \in 1 .. n : pending[i] \in Character
      BY <3>1
    <3>3. \A i \in n + 1 .. Len(pending) : pending[i] \in Character
      BY <3>1
    <3>4. QED
      BY <2>2, <3>1, <3>2, <3>3, SubSeqProperties
  <2>4. Texts'
    BY <1>1, <2>1, <2>2, <2>3, ConcatProperties DEF Texts
  <2>5. QED
    BY <1>1, <2>1, <2>4, DeliveredKept DEF DataInv, MessageInv, Covered
<1>9. CASE UNCHANGED vars
  BY <1>1, <1>9, DeliveredKept DEF vars, DataInv, Texts, MessageInv, Covered
<1>10. QED
  BY <1>2, <1>3, <1>4, <1>5, <1>6, <1>7, <1>8, <1>9 DEF Next, Call, Receive

-----------------------------------------------------------------------------
(* The values that Texts does not speak of: no more is sent than message   *)
(* holds, which grows by the end marker only, and the looks are counted.   *)
Values ==
    /\ open \in BOOLEAN /\ heap \in BOOLEAN
    /\ sent \in 0 .. RequestLength + 2
    /\ peeked \in Nat
    /\ message \in Seq(Character) /\ result \in Seq(Character)
    /\ looked \in 0 .. Looks + 1
    /\ ret \in {NotYet, 0, 1}

Connects == {"socket", "option", "resolve", "connect", "getflags", "setflags"}

Bounded ==
    /\ pc \in Connects => sent = 0 /\ Len(message) <= RequestLength + 2
    /\ pc = "write" => sent <= Len(message) /\ Len(message) <= RequestLength + 2
    /\ pc # "done" => looked <= Looks

ValuesInv == Values /\ Bounded

LEMMA RequestType ==
    /\ Request \in Seq(Character) /\ Len(Request) = RequestLength
    /\ Request \o EndMarker \in Seq(Character)
    /\ Len(Request \o EndMarker) = RequestLength + 2
<1>1. Request \in Seq(Character) /\ Len(Request) = RequestLength
  <2>1. Request \in [1 .. RequestLength -> Character]
    BY SocketAssumption DEF Request
  <2>2. RequestLength \in Nat
    BY SocketAssumption
  <2>3. QED
    BY <2>1, <2>2
<1>2. EndMarker \in Seq(Character)
  <2>1. "|END" \in Character /\ "|" \in Character
    BY SocketAssumption
  <2>2. QED
    BY <2>1 DEF EndMarker
<1>3. Len(EndMarker) = 2
  BY DEF EndMarker
<1>4. /\ Request \o EndMarker \in Seq(Character)
      /\ Len(Request \o EndMarker) = Len(Request) + Len(EndMarker)
  BY <1>1, <1>2, ConcatProperties
<1>5. QED
  BY <1>1, <1>3, <1>4

LEMMA ValuesInit == Init => ValuesInv
<1> SUFFICES ASSUME Init PROVE ValuesInv
  OBVIOUS
<1>1. message \in Seq(Character) /\ Len(message) <= RequestLength + 2
  <2>1. CASE kind = "http"
    BY <2>1, RequestType, SocketAssumption DEF Init, FirstMessage
  <2>2. CASE kind # "http"
    <3>1. message = << >> /\ Len(<< >>) = 0 /\ << >> \in Seq(Character)
      BY <2>2, EmptySeq DEF Init, FirstMessage
    <3>2. QED
      BY <3>1, SocketAssumption
  <2>3. QED
    BY <2>1, <2>2
<1>2. result \in Seq(Character)
  BY EmptySeq DEF Init
<1>3. sent \in 0 .. RequestLength + 2 /\ looked \in 0 .. Looks + 1
      /\ looked <= Looks /\ peeked \in Nat
  BY SocketAssumption DEF Init
<1>4. QED
  BY <1>1, <1>2, <1>3 DEF Init, ValuesInv, Values, Bounded

(* What is delivered is a text, too. *)
LEMMA DeliveredType ==
  ASSUME DataInv, ValuesInv, HttpDeliver \/ NodeDeliver
  PROVE  message' \in Seq(Character) /\ result' \in Seq(Character)
<1>1. Got \in Seq(Character)
  BY TakePieceTypes DEF DataInv, HttpDeliver, NodeDeliver, ReadLast
<1>2. message' \in Seq(Character)
  BY <1>1, CopyOverProperties, StrippedType
  DEF HttpDeliver, NodeDeliver, ReadLast, ValuesInv, Values
<1>3. CASE HttpDeliver /\ result' # result
  <2>1. /\ result' = result \o HttpBody(message')
        /\ ~(Holds(message', <<"HTTP/">>) /\ ~Holds(message', <<"{">>))
    BY <1>3 DEF HttpDeliver
  <2>2. HttpBody(message') \in Seq(Character)
    <3>1. CASE Holds(message', <<"{">>)
      BY <1>2, <3>1, HoldsBrace, HttpBodyType
    <3>2. CASE ~Holds(message', <<"HTTP/">>)
      BY <1>2, <3>2 DEF HttpBody
    <3>3. QED
      BY <2>1, <3>1, <3>2
  <2>3. QED
    BY <1>2, <2>1, <2>2, ConcatProperties DEF ValuesInv, Values
<1>4. CASE NodeDeliver
  BY <1>2, <1>4, CopyOverProperties DEF NodeDeliver, ValuesInv, Values
<1>5. QED
  BY <1>2, <1>3, <1>4 DEF ValuesInv, Values

LEMMA ValuesStep ==
  DataInv /\ HeldInv /\ ValuesInv /\ [Next]_vars => ValuesInv'
<1> SUFFICES ASSUME DataInv, HeldInv, ValuesInv, [Next]_vars PROVE ValuesInv'
  OBVIOUS
<1>1. Values /\ Bounded
  BY DEF ValuesInv
<1>2. open' \in BOOLEAN /\ heap' \in BOOLEAN /\ ret' \in {NotYet, 0, 1}
  BY <1>1, StepEffect DEF Values, Opens, Fails, Delivers, Continues, Elsewhere,
     Return
<1>3. CASE HttpConnecting \/ NodeConnecting
  <2>1. /\ UNCHANGED <<sent, peeked, looked, result>> /\ pc \in Connects
        /\ pc' \in Connects \cup {"write", "done"}
    BY <1>3 DEF HttpConnecting, NodeConnecting, Connecting, OpenSocket,
        SetTimeout, Resolve, Connect, GetFlags, SetFlags, GoOn, Return, Connects
  <2>2. message' \in {message, Request \o EndMarker}
    BY <1>3 DEF HttpConnecting, NodeConnecting
  <2>3. message' \in Seq(Character) /\ Len(message') <= RequestLength + 2
        /\ Len(message') \in Nat
    <3>1. CASE message' = message
      BY <1>1, <2>1, <3>1, LenProperties DEF Values, Bounded
    <3>2. CASE message' = Request \o EndMarker
      BY <3>2, RequestType, SocketAssumption
    <3>3. QED
      BY <2>2, <3>1, <3>2
  <2>4. sent' = 0 /\ pc # "done"
    BY <1>1, <2>1 DEF Bounded, Connects
  <2>5. QED
    BY <1>1, <1>2, <2>1, <2>3, <2>4 DEF ValuesInv, Values, Bounded, Connects
<1>4. CASE HttpSend \/ NodeSend
  <2>1. /\ UNCHANGED <<peeked, looked, result>> /\ pc = "write"
        /\ pc' \in {"write", "peek", "done", "killed"}
        /\ message' = IF pc' = "peek" THEN << >> ELSE message
    BY <1>4 DEF HttpSend, NodeSend, Send, SendData, GoOn, Return, ClearedMessage
  <2>2. \/ sent' = sent
        \/ \E n \in 0 .. Len(message) - sent : sent' = sent + n
    BY <1>4 DEF HttpSend, NodeSend, Send, SendData
  <2>3. Len(message) \in Nat /\ sent \in Nat /\ RequestLength \in Nat
        /\ sent <= Len(message) /\ Len(message) <= RequestLength + 2
    BY <1>1, <2>1, LenProperties, SocketAssumption DEF Values, Bounded
  <2>4. sent' \in Nat /\ sent' <= Len(message)
    BY <2>2, <2>3
  <2>5. sent' \in 0 .. RequestLength + 2
    BY <2>3, <2>4
  <2>6. message' \in Seq(Character)
    BY <1>1, <2>1, EmptySeq DEF Values
  <2>7. QED
    BY <1>1, <1>2, <2>1, <2>3, <2>4, <2>5, <2>6
    DEF ValuesInv, Values, Bounded, Connects
<1>5. CASE Peek
  <2>1. /\ UNCHANGED <<sent, message, looked, result>> /\ pc = "peek"
        /\ peeked' = Len(arrived) /\ pc' \in {"done", "read"}
    BY <1>5 DEF Peek, GoOn, Return
  <2>2. Len(arrived) \in Nat
    BY LenProperties DEF DataInv, Texts
  <2>3. QED
    BY <1>1, <1>2, <2>1, <2>2 DEF ValuesInv, Values, Bounded, Connects
<1>6. CASE Overrun
  <2>1. UNCHANGED <<sent, peeked, message, looked, result>> /\ pc = "read"
        /\ pc' = "undefined"
    BY <1>6 DEF Overrun, TakePiece
  <2>2. QED
    BY <1>1, <1>2, <2>1 DEF ValuesInv, Values, Bounded, Connects
<1>7. CASE ReadPiece
  <2>1. /\ UNCHANGED <<sent, peeked, result>> /\ pc = "read"
        /\ message' = CopyOver(Got, message) /\ looked' = looked + 1
    BY <1>7 DEF ReadPiece, TakePiece, LookAgain
  <2>2. pc' = "done" \/ (pc' = "peek" /\ ~(looked' > Looks))
    BY <1>7 DEF ReadPiece, LookAgain, GoOn, Return
  <2>3. looked \in Nat /\ Looks \in Nat /\ looked <= Looks
    BY <1>1, <2>1, SocketAssumption DEF Values, Bounded
  <2>4. looked' \in 0 .. Looks + 1 /\ (pc' # "done" => looked' <= Looks)
    BY <2>1, <2>2, <2>3
  <2>5. message' \in Seq(Character)
    <3>1. Got \in Seq(Character)
      BY <1>7, TakePieceTypes DEF ReadPiece, DataInv
    <3>2. QED
      BY <1>1, <2>1, <3>1, CopyOverProperties DEF Values
  <2>6. QED
    BY <1>1, <1>2, <2>1, <2>2, <2>4, <2>5 DEF ValuesInv, Values, Bounded, Connects
<1>8. CASE HttpDeliver \/ NodeDeliver
  <2>1. UNCHANGED <<sent, peeked, looked>> /\ pc = "read"
        /\ pc' \in {"done", "killed"}
    BY <1>8 DEF HttpDeliver, NodeDeliver, ReadLast, TakePiece, Return
  <2>2. QED
    BY <1>1, <1>2, <1>8, <2>1, DeliveredType
    DEF ValuesInv, Values, Bounded, Connects
<1>9. CASE Arrive
  BY <1>1, <1>2, <1>9 DEF Arrive, reading, ValuesInv, Values, Bounded
<1>10. CASE UNCHANGED vars
  BY <1>1, <1>2, <1>10 DEF vars, ValuesInv, Values, Bounded
<1>11. QED
  BY <1>3, <1>4, <1>5, <1>6, <1>7, <1>8, <1>9, <1>10 DEF Next, Call, Receive

-----------------------------------------------------------------------------
(* Every path of the two functions closes the socket it has opened, once,  *)
(* and frees its buffers.                                                  *)
THEOREM SocketsReleased == Spec => []EveryPathReleases
<1>1. HeldInv => EveryPathReleases
  <2>1. closes \in {0, 1} => closes <= 1
    OBVIOUS
  <2>2. QED
    BY <2>1 DEF HeldInv, EveryPathReleases
<1>2. QED
  BY <1>1, HeldInit, HeldStep, PTL DEF Spec

(* A call that fails, at whatever point, has left the result alone.        *)
THEOREM FailedCallsLeaveResult == Spec => []FailureLeavesResult
<1>1. ReturnInv => FailureLeavesResult
  BY DEF ReturnInv, FailureLeavesResult
<1>2. QED
  BY <1>1, ReturnInit, ReturnStep, PTL DEF Spec

(* The receive buffer overflows only through data that comes between the   *)
(* check of its size and the read.                                         *)
THEOREM OverflowNeedsARace == Spec => []OverflowOnlyByRace
<1>1. PeekInv => OverflowOnlyByRace
  BY DEF PeekInv, OverflowOnlyByRace
<1>2. QED
  BY <1>1, PeekInit, PeekStep, PTL DEF Spec

(* The answer is the last piece read, without its end marker and header,   *)
(* unless a longer piece came before it.                                   *)
THEOREM LastPieceDelivered == Spec => []LastPieceIsDelivered
<1>1. DataInv => LastPieceIsDelivered
  BY DEF DataInv
<1>2. QED
  BY <1>1, DataInit, DataStep, ReturnInit, ReturnStep, HeldInit, HeldStep, PTL
  DEF Spec

(* Every variable keeps its type: never more is sent than the request and  *)
(* its marker, and the looks for an answer end one after the timeout.      *)
THEOREM TypeCorrect == Spec => []TypeOK
<1>1. HeldInv /\ DataInv /\ ValuesInv => TypeOK
  <2>1. Len(EndMarker) = 2
    BY DEF EndMarker
  <2>2. closes \in {0, 1} => closes \in Nat
    OBVIOUS
  <2>3. QED
    BY <2>1, <2>2 DEF HeldInv, DataInv, Texts, ValuesInv, Values, TypeOK
<1>2. QED
  BY <1>1, HeldInit, HeldStep, ReturnInit, ReturnStep, DataInit, DataStep,
     ValuesInit, ValuesStep, PTL
  DEF Spec
==============================================================================
