-------------------------- MODULE FoundBlock_proofs --------------------------
(***************************************************************************)
(* What FoundBlock does for every number of nodes, whatever the list       *)
(* holds, and over chains, calls and answers of any length.                *)
(***************************************************************************)
EXTENDS FoundBlock, SequenceTheorems, TLAPS

(* A message with a sender was put together by sign_data, of whatever text, *)
(* signer and setting. *)
SizeInv ==
    answer.public_address # NoAddress =>
        answer.size = answer.text + 40 + answer.length

(* What verify_data has found out before it asks the wallet. *)
SenderInv == pc \in {"hash", "wallet"} => FromListedNode(answer)

Informed(m) == \/ m.previous_block_hash > block_height
               \/ m.previous_block_hash = 0 /\ network_hash = 0

HashInv == pc = "wallet" => Informed(answer)

MarkerInv == result = FromMarker

IInv ==
    /\ TypeOK /\ SizeInv /\ SenderInv /\ HashInv /\ MarkerInv
    /\ ReadAnswersKnowTheBlock /\ RefusedForLengthOnly

LEMMA OtherMessageIsMessage ==
  ASSUME NEW size \in Nat
  PROVE  OtherMessage(size) \in Message
  BY DEF OtherMessage, Message

LEMMA InitInv == Init => IInv
<1> SUFFICES ASSUME Init PROVE IInv
  OBVIOUS
<1>1. PICK a \in Address : chain = << a >>
  BY DEF Init
<1>2. chain \in Seq(Address \cup {NoAddress}) /\ Len(chain) = 1
  BY <1>1
<1>3. TypeOK
  BY <1>1, <1>2, OtherMessageIsMessage, FoundBlockAssumption
     DEF Init, FoundBlockAssumption, TypeOK, Steps, Checks, Text, Kinds,
         FromMarker, Failed
<1> QED
  BY <1>3 DEF Init, IInv, SizeInv, SenderInv, HashInv, MarkerInv, Failed,
     OtherMessage, ReadAnswersKnowTheBlock, AnswerWasRead, RefusedForLengthOnly

(* A block that comes leaves what was asked for in the chain. *)
LEMMA NewBlockKeeps == IInv /\ NewBlock => IInv'
<1> SUFFICES ASSUME IInv, NewBlock PROVE IInv'
  OBVIOUS
<1>1. PICK a \in Address \cup {NoAddress} : chain' = Append(chain, a)
  BY DEF NewBlock
<1>2. /\ chain' \in Seq(Address \cup {NoAddress}) /\ chain' # << >>
      /\ Len(chain') = Len(chain) + 1 /\ Len(chain) \in Nat
  BY <1>1, AppendProperties, LenProperties DEF IInv, TypeOK
<1>3. DOMAIN chain \subseteq DOMAIN chain'
  BY <1>2 DEF IInv, TypeOK
<1>4. TypeOK'
  BY <1>2, <1>3 DEF IInv, TypeOK, NewBlock
<1> QED
  BY <1>4 DEF IInv, NewBlock, SizeInv, SenderInv, FromListedNode, HashInv,
     Informed, MarkerInv, ReadAnswersKnowTheBlock, AnswerWasRead,
     RefusedForLengthOnly, FromMarker

LEMMA CheckFoundBlockKeeps == IInv /\ CheckFoundBlock => IInv'
<1> SUFFICES ASSUME IInv, CheckFoundBlock PROVE IInv'
  OBVIOUS
<1>1. TypeOK'
  BY FoundBlockAssumption, OtherMessageIsMessage, LenProperties
     DEF FoundBlockAssumption, IInv, TypeOK, CheckFoundBlock, Continue, Steps
<1> QED
  BY <1>1 DEF IInv, CheckFoundBlock, Continue, OtherMessage, SizeInv,
     SenderInv, HashInv, MarkerInv, ReadAnswersKnowTheBlock, AnswerWasRead,
     RefusedForLengthOnly, FromMarker

LEMMA GetBlockCountKeeps == IInv /\ GetBlockCount => IInv'
<1> SUFFICES ASSUME IInv, GetBlockCount PROVE IInv'
  OBVIOUS
<1>1. block_height' \in Int
  BY LenProperties, FoundBlockAssumption
     DEF FoundBlockAssumption, IInv, TypeOK, GetBlockCount
<1>2. /\ \/ pc' = "block" /\ outcome' = outcome
         \/ pc' = "idle" /\ outcome' = Failed("daemon")
      /\ UNCHANGED <<chain, list, calls, result, count, answer, network_hash>>
  BY DEF GetBlockCount, Continue, Return
<1>3. TypeOK'
  BY <1>1, <1>2 DEF IInv, TypeOK, Failed, Steps, Checks
<1> QED
  BY <1>2, <1>3 DEF IInv, Failed, SizeInv, SenderInv, HashInv, MarkerInv,
     ReadAnswersKnowTheBlock, AnswerWasRead, RefusedForLengthOnly, FromMarker

LEMMA GetBlockKeeps == IInv /\ GetBlock => IInv'
<1> SUFFICES ASSUME IInv, GetBlock PROVE IInv'
  OBVIOUS
<1>1. TypeOK'
  BY DEF IInv, TypeOK, GetBlock, HasMarker, Continue, Return, Failed, Steps,
     Checks, FromMarker, Text, Kinds
<1> QED
  BY <1>1 DEF IInv, GetBlock, Continue, Return, Failed, SizeInv, SenderInv,
     HashInv, MarkerInv, ReadAnswersKnowTheBlock, AnswerWasRead,
     RefusedForLengthOnly, FromMarker

LEMMA AskKeeps == IInv /\ (AskInVain \/ AskBeyond) => IInv'
<1> SUFFICES ASSUME IInv, AskInVain \/ AskBeyond PROVE IInv'
  OBVIOUS
<1>1. /\ pc = "ask" /\ pc' \in {"ask", "undefined"} /\ count' \in 1 .. Nodes
      /\ UNCHANGED <<chain, list, calls, block_height, result, answer,
                     network_hash, outcome>>
  BY FoundBlockAssumption
     DEF FoundBlockAssumption, AskInVain, AskBeyond, Continue, Drawn
<1>2. TypeOK'
  BY <1>1, FoundBlockAssumption DEF FoundBlockAssumption, IInv, TypeOK, Steps
<1> QED
  BY <1>1, <1>2 DEF IInv, SizeInv, SenderInv, HashInv, MarkerInv,
     ReadAnswersKnowTheBlock, AnswerWasRead, RefusedForLengthOnly, FromMarker

(* Answers are messages, and those with a sender have the size of what *)
(* sign_data makes of the text. *)
LEMMA AnswersAreMessages ==
  IInv /\ pc = "ask" /\ Answer => answer' \in Message /\ SizeInv'
<1> SUFFICES ASSUME IInv, pc = "ask", Answer PROVE answer' \in Message /\ SizeInv'
  OBVIOUS
<1>1. CASE \E size \in TextLengths : answer' = OtherMessage(size)
  BY <1>1, OtherMessageIsMessage, FoundBlockAssumption
     DEF OtherMessage, FoundBlockAssumption, SizeInv
<1>2. Len(chain) \in Nat /\ block_height + 1 \in 1 .. Len(chain)
  BY LenProperties DEF IInv, TypeOK
<1>3. ASSUME NEW hash \in {0, Len(chain) - 1, Len(chain)},
             NEW bytes \in {0, block_height + 1}, NEW address \in Address,
             NEW text \in TextLengths, NEW length \in SignatureLengths,
             NEW settings \in {"reserve_bytes", "test"}, NEW signer \in Address,
             answer' = SignData(settings, bytes, address, signer, hash, text, length)
      PROVE  answer' \in Message /\ SizeInv'
  <2>1. text \in Nat /\ length \in Nat
    BY FoundBlockAssumption DEF FoundBlockAssumption
  <2>2. hash \in Nat /\ bytes \in Nat
    BY <1>2
  <2>3. answer' = [settings |-> settings, public_address |-> address,
                   previous_block_hash |-> hash, reserve_bytes |-> bytes,
                   signed_by |-> signer, text |-> text, length |-> length,
                   size |-> text + 40 + length]
    BY <1>3, <2>1 DEF SignData
  <2>4. text + 40 + length \in Nat
    BY <2>1
  <2>5. answer' \in Message
    BY <2>1, <2>2, <2>3, <2>4 DEF Message
  <2>6. SizeInv'
    BY <2>3 DEF SizeInv
  <2> QED
    BY <2>5, <2>6
<1> QED
  BY <1>1, <1>3 DEF Answer

LEMMA NodeAnswersKeeps ==
  ASSUME NEW i \in 1 .. Nodes PROVE IInv /\ NodeAnswers(i) => IInv'
<1> SUFFICES ASSUME IInv, NodeAnswers(i) PROVE IInv'
  OBVIOUS
<1>1. i \in 0 .. Nodes
  BY FoundBlockAssumption DEF FoundBlockAssumption
<1>2. answer' \in Message /\ SizeInv'
  BY AnswersAreMessages DEF NodeAnswers, SizeInv
<1>3. /\ \/ pc' = "hash" /\ outcome' = outcome /\ FromListedNode(answer')
         \/ pc' = "idle" /\ outcome' = Failed("sender")
      /\ pc = "ask" /\ count' = i
      /\ UNCHANGED <<chain, list, calls, block_height, result, network_hash>>
  BY DEF NodeAnswers, Continue, Return
<1>4. TypeOK'
  BY <1>1, <1>2, <1>3 DEF IInv, TypeOK, Failed, Steps, Checks
<1>5. SenderInv'
  BY <1>3 DEF SenderInv, FromListedNode
<1> QED
  BY <1>2, <1>3, <1>4, <1>5 DEF IInv, Failed, HashInv, MarkerInv,
     ReadAnswersKnowTheBlock, AnswerWasRead, RefusedForLengthOnly, FromMarker

LEMMA CompareHashKeeps == IInv /\ CompareHash => IInv'
<1> SUFFICES ASSUME IInv, CompareHash PROVE IInv'
  OBVIOUS
<1>1. Len(chain) \in Nat /\ block_height < Len(chain) /\ block_height \in Int
  BY LenProperties DEF IInv, TypeOK, CompareHash
<1>2. /\ pc = "hash"
      /\ UNCHANGED <<chain, list, calls, block_height, result, count, answer>>
      /\ network_hash' \in {network_hash, 0, Len(chain)}
  BY DEF CompareHash
<1>3. \/ pc' \in {"wallet", "undefined"} /\ outcome' = outcome
         /\ answer.previous_block_hash = network_hash'
         /\ network_hash' \in {0, Len(chain)}
      \/ pc' = "idle" /\ outcome' \in {Failed("hash"), Failed("daemon")}
  BY DEF CompareHash, SameHash, Continue, Return
<1>4. TypeOK'
  BY <1>1, <1>2, <1>3 DEF IInv, TypeOK, Failed, Steps, Checks
<1>5. HashInv'
  BY <1>1, <1>2, <1>3 DEF HashInv, Informed
<1>6. SenderInv' /\ SizeInv'
  BY <1>2 DEF IInv, SenderInv, SizeInv, FromListedNode
<1> QED
  BY <1>2, <1>3, <1>4, <1>5, <1>6 DEF IInv, Failed, MarkerInv,
     ReadAnswersKnowTheBlock, AnswerWasRead, RefusedForLengthOnly, FromMarker

LEMMA VerifySignatureKeeps == IInv /\ VerifySignature => IInv'
<1> SUFFICES ASSUME IInv, VerifySignature PROVE IInv'
  OBVIOUS
<1>1. /\ pc = "wallet" /\ pc' = "idle"
      /\ UNCHANGED <<chain, list, calls, block_height, result, count, answer,
                     network_hash>>
  BY DEF VerifySignature, Return
<1>2. ReadAnswer(answer) = Failed("compare")
  BY DEF IInv, MarkerInv, FromMarker, ReadAnswer, SameData, Digest, Failed
<1>3. \/ outcome' = Failed("compare") /\ Good(answer)
      \/ outcome' = Failed("signature") /\ ~Good(answer)
      \/ outcome' = Failed("daemon")
  BY <1>2 DEF VerifySignature, Return
<1>4. TypeOK'
  BY <1>1, <1>3 DEF IInv, TypeOK, Failed, Steps, Checks
<1>5. FromListedNode(answer) /\ Informed(answer)
  BY <1>1 DEF IInv, SenderInv, HashInv
<1>6. ReadAnswersKnowTheBlock'
  BY <1>1, <1>3, <1>5 DEF FromListedNode, Informed, ReadAnswersKnowTheBlock,
     AnswerWasRead, Good, Failed
<1>7. RefusedForLengthOnly'
  <2> SUFFICES ASSUME ~Good(answer), answer.signed_by = answer.public_address,
                      answer.public_address # NoAddress
               PROVE  answer.length # XCASH_SIGN_DATA_LENGTH
    BY <1>1, <1>3 DEF RefusedForLengthOnly, Failed
  <2>1. /\ answer.public_address \in Address /\ answer.text \in Nat
        /\ answer.length \in Nat /\ answer.size = answer.text + 40 + answer.length
    BY DEF IInv, TypeOK, Message, SizeInv
  <2>2. answer.length = 93 => SignedText(answer) = answer.text
    BY <2>1 DEF SignedText, MessageEnd
  <2> QED
    BY <2>1, <2>2 DEF Good, XCASH_SIGN_DATA_LENGTH
<1> QED
  BY <1>1, <1>4, <1>6, <1>7 DEF IInv, SizeInv, SenderInv, HashInv, MarkerInv,
     FromMarker

LEMMA StutterKeeps == IInv /\ UNCHANGED vars => IInv'
  BY DEF IInv, vars, TypeOK, SizeInv, SenderInv, FromListedNode, HashInv,
     Informed, MarkerInv, FromMarker, ReadAnswersKnowTheBlock, AnswerWasRead,
     RefusedForLengthOnly

LEMMA Invariant == Spec => []IInv
<1>1. IInv /\ [Next]_vars => IInv'
  BY NewBlockKeeps, CheckFoundBlockKeeps, GetBlockCountKeeps, GetBlockKeeps,
     AskKeeps, NodeAnswersKeeps, CompareHashKeeps, VerifySignatureKeeps,
     StutterKeeps DEF Next
<1> QED
  BY <1>1, InitInv, PTL DEF Spec

(* Type correctness; what is asked for is a block of the chain. *)
THEOREM TypeCorrect == Spec => []TypeOK
<1>1. IInv => TypeOK
  BY DEF IInv
<1> QED
  BY <1>1, Invariant, PTL

(* network_security_functions.c:277-342: an answer that is compared with   *)
(* the block has a listed sender or the setting of the tests, who signed   *)
(* it, and a hash that shows the block was known.                          *)
THEOREM OnlyInformedAnswersAreRead == Spec => []ReadAnswersKnowTheBlock
<1>1. IInv => ReadAnswersKnowTheBlock
  BY DEF IInv
<1> QED
  BY <1>1, Invariant, PTL

(* network_security_functions.c:148-158 and 195: the signature check of    *)
(* what its sender signed fails for the length of the signature only.      *)
THEOREM RegularAnswersVerify == Spec => []RefusedForLengthOnly
<1>1. IInv => RefusedForLengthOnly
  BY DEF IInv
<1> QED
  BY <1>1, Invariant, PTL
==============================================================================
